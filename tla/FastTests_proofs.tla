--------------------------- MODULE FastTests_proofs ---------------------------
(***************************************************************************)
(* Proofs about the fast pytest engine, for any repository, commands,      *)
(* edits, runs and faults.  A fingerprint identifies the tree: whatever    *)
(* was staged, committed or undone, two trees with the same fingerprint    *)
(* hold the same (FingerprintIdentifies).  What a run says of the tree it  *)
(* met is therefore true whenever the tree has that fingerprint (Knows),   *)
(* and so are the reports and the rows that come of it (ReportTrue,        *)
(* RowTrue).  The plan of a command is right for the tree until it is      *)
(* edited (Planned).  What a plan selects comes of sequences that are      *)
(* put together: FlattenSeq is unfolded by induction on their number       *)
(* (Flattened), and the rest follows from which reasons a test has and     *)
(* which of them is the first (Reasons).                                   *)
(***************************************************************************)
EXTENDS FastTests, TLAPS, WellFoundedInduction

(***************************************************************************)
(* Sequences of sequences.                                                 *)
(***************************************************************************)
\* Induction for a set of numbers, by its least missing one.
LEMMA NatSetInduction ==
    ASSUME NEW T, 0 \in T, \A n \in Nat : n \in T => n + 1 \in T
    PROVE  Nat \subseteq T
<1>. SUFFICES ASSUME Nat \ T # {} PROVE FALSE
  OBVIOUS
<1>1. PICK x \in Nat \ T : \A y \in Nat \ T : ~ (<<y, x>> \in OpToRel(<, Nat))
  <2>1. IsWellFoundedOn(OpToRel(<, Nat), Nat)
    BY NatLessThanWellFounded, Zenon
  <2>. QED BY <2>1, WFMin, Zenon
<1>2. x # 0 /\ x - 1 \in Nat /\ x - 1 < x /\ x \in Nat /\ (x - 1) + 1 = x
  OBVIOUS
<1>3. <<x - 1, x>> \in OpToRel(<, Nat)
  BY <1>2, Zenon DEF OpToRel
<1>4. x - 1 \in T
  BY <1>1, <1>2, <1>3, Zenon
<1>. QED BY <1>2, <1>4

\* Two sequences put together.
LEMMA JoinedTwo ==
    ASSUME NEW S, NEW a \in Seq(S), NEW b \in Seq(S)
    PROVE  /\ a \o b \in Seq(S) /\ ToSet(a \o b) = ToSet(a) \cup ToSet(b)
           /\ a # <<>> => a \o b # <<>> /\ Head(a \o b) = Head(a)
           /\ a = <<>> => a \o b = b
           /\ b = <<>> => a \o b = a
<1>1. /\ a \o b \in Seq(S) /\ Len(a \o b) = Len(a) + Len(b)
      /\ \A i \in 1 .. Len(a) : (a \o b)[i] = a[i]
      /\ \A i \in 1 .. Len(b) : (a \o b)[i + Len(a)] = b[i]
      /\ \A i \in 1 .. Len(a) + Len(b) : i > Len(a) => (a \o b)[i] = b[i - Len(a)]
  OBVIOUS
<1>2. ToSet(a \o b) \subseteq ToSet(a) \cup ToSet(b)
  BY <1>1 DEF ToSet
<1>3. ToSet(a) \subseteq ToSet(a \o b)
  BY <1>1 DEF ToSet
<1>4. ToSet(b) \subseteq ToSet(a \o b)
  <2>1. ASSUME NEW i \in DOMAIN b
        PROVE  b[i] \in ToSet(a \o b)
    <3>1. i + Len(a) \in DOMAIN (a \o b) /\ (a \o b)[i + Len(a)] = b[i]
      BY <1>1
    <3>. QED BY <3>1, Zenon DEF ToSet
  <2>. QED BY <2>1 DEF ToSet
<1>5. a # <<>> => a \o b # <<>> /\ Head(a \o b) = Head(a)
  BY <1>1
<1>. QED BY <1>1, <1>2, <1>3, <1>4, <1>5

\* What FlattenSeq has put together after each of the sequences.
Joins(g, ss, n) ==
    \A i \in 1 .. n : g[i] = IF i = 1 THEN ss[i] ELSE g[i - 1] \o ss[i]

\* There is such a function for every number of sequences.
LEMMA JoinsExist ==
    ASSUME NEW S, NEW ss \in Seq(Seq(S)), NEW n \in Nat, n <= Len(ss)
    PROVE  \E g \in [1 .. n -> Seq(S)] : Joins(g, ss, n)
<1>. DEFINE T == {m \in Nat : m <= Len(ss) => \E g \in [1 .. m -> Seq(S)] : Joins(g, ss, m)}
<1>1. 0 \in T
  <2>1. 1 .. 0 = {} /\ 0 \in Nat
    OBVIOUS
  <2>. DEFINE g == [i \in 1 .. 0 |-> <<>>]
  <2>2. g \in [1 .. 0 -> Seq(S)] /\ Joins(g, ss, 0)
    BY <2>1 DEF Joins
  <2>. QED BY <2>2
<1>2. ASSUME NEW m \in Nat, m \in T
      PROVE  m + 1 \in T
  <2>. SUFFICES ASSUME m + 1 <= Len(ss)
                PROVE  \E g \in [1 .. m + 1 -> Seq(S)] : Joins(g, ss, m + 1)
    OBVIOUS
  <2>1. PICK g \in [1 .. m -> Seq(S)] : Joins(g, ss, m)
    BY <1>2
  <2>. DEFINE h == [i \in 1 .. m + 1 |->
                      IF i <= m THEN g[i] ELSE IF m = 0 THEN ss[i] ELSE g[m] \o ss[i]]
  <2>2. ss[m + 1] \in Seq(S) /\ (m # 0 => m \in 1 .. m /\ g[m] \in Seq(S))
    OBVIOUS
  <2>3. m # 0 => g[m] \o ss[m + 1] \in Seq(S)
    BY <2>2
  <2>4. h \in [1 .. m + 1 -> Seq(S)]
    BY <2>2, <2>3
  <2>5. ASSUME NEW i \in 1 .. m + 1
        PROVE  h[i] = IF i = 1 THEN ss[i] ELSE h[i - 1] \o ss[i]
    <3>1. CASE i <= m
      <4>1. h[i] = g[i] /\ (i # 1 => h[i - 1] = g[i - 1])
        BY <3>1
      <4>2. g[i] = IF i = 1 THEN ss[i] ELSE g[i - 1] \o ss[i]
        <5>1. i \in 1 .. m
          BY <3>1
        <5>. QED BY <2>1, <5>1 DEF Joins
      <4>. QED BY <4>1, <4>2, Zenon
    <3>2. CASE i = m + 1
      <4>1. CASE m = 0
        BY <3>2, <4>1
      <4>2. CASE m # 0
        <5>1. h[m] = g[m] /\ h[m + 1] = g[m] \o ss[m + 1] /\ i # 1 /\ i - 1 = m
          <6>1. m \in 1 .. m + 1 /\ m + 1 \in 1 .. m + 1 /\ m <= m /\ ~(m + 1 <= m)
                /\ i # 1 /\ i - 1 = m
            BY <3>2, <4>2
          <6>. QED BY <4>2, <6>1, Zenon
        <5>. QED BY <3>2, <5>1, Zenon
      <4>. QED BY <4>1, <4>2
    <3>. QED BY <3>1, <3>2
  <2>. HIDE DEF h
  <2>6. Joins(h, ss, m + 1)
    BY <2>5 DEF Joins
  <2>. QED BY <2>4, <2>6
<1>. HIDE DEF T
<1>3. n \in T
  BY <1>1, <1>2, NatSetInduction
<1>. QED BY <1>3 DEF T

\* Sequences put together have their elements, and begin where one of them begins.
LEMMA Flattened ==
    ASSUME NEW S, NEW ss \in Seq(Seq(S))
    PROVE  /\ FlattenSeq(ss) \in Seq(S)
           /\ ToSet(FlattenSeq(ss)) = UNION {ToSet(ss[i]) : i \in DOMAIN ss}
           /\ FlattenSeq(ss) # <<>> =>
                 \E i \in DOMAIN ss : ss[i] # <<>> /\ Head(FlattenSeq(ss)) = Head(ss[i])
<1>1. CASE Len(ss) = 0
  <2>1. FlattenSeq(ss) = <<>> /\ DOMAIN ss = {}
    BY <1>1 DEF FlattenSeq
  <2>. QED BY <2>1 DEF ToSet
<1>2. CASE Len(ss) # 0
  <2>. DEFINE Values(f) == [i \in 1 .. Len(ss) |-> IF i = 1 THEN ss[i] ELSE f[i - 1] \o ss[i]]
              G == CHOOSE flatten : flatten = Values(flatten)
  <2>1. PICK g \in [1 .. Len(ss) -> Seq(S)] : Joins(g, ss, Len(ss))
    BY JoinsExist
  <2>2. g = Values(g)
    BY <2>1 DEF Joins
  <2>3. G = Values(G)
    <3>. HIDE DEF Values
    <3>. QED BY <2>2
  <2>4. FlattenSeq(ss) = G[Len(ss)]
    BY <1>2, Zenon DEF FlattenSeq
  <2>5. \A i \in 1 .. Len(ss) : G[i] = IF i = 1 THEN ss[i] ELSE G[i - 1] \o ss[i]
    <3>. HIDE DEF G
    <3>. QED BY <2>3
  <2>. HIDE DEF G
  <2>. DEFINE Good(k) ==
                  /\ G[k] \in Seq(S)
                  /\ ToSet(G[k]) = UNION {ToSet(ss[i]) : i \in 1 .. k}
                  /\ G[k] # <<>> => \E i \in 1 .. k : ss[i] # <<>> /\ Head(G[k]) = Head(ss[i])
              T == {k \in Nat : k + 1 <= Len(ss) => Good(k + 1)}
  <2>6. 0 \in T
    <3>. SUFFICES ASSUME 1 <= Len(ss) PROVE Good(1)
      OBVIOUS
    <3>1. G[1] = ss[1] /\ 1 .. 1 = {1} /\ ss[1] \in Seq(S)
      BY <2>5
    <3>. QED BY <3>1
  <2>7. ASSUME NEW k \in Nat, k \in T
        PROVE  k + 1 \in T
    <3>. SUFFICES ASSUME (k + 1) + 1 <= Len(ss) PROVE Good((k + 1) + 1)
      OBVIOUS
    <3>. DEFINE a == G[k + 1]
                b == ss[(k + 1) + 1]
                c == G[(k + 1) + 1]
    <3>1. Good(k + 1)
      BY <2>7
    <3>2. a \in Seq(S) /\ b \in Seq(S)
      BY <3>1
    <3>3. c = a \o b
      <4>1. (k + 1) + 1 \in 1 .. Len(ss) /\ (k + 1) + 1 # 1 /\ ((k + 1) + 1) - 1 = k + 1
        OBVIOUS
      <4>. QED BY <2>5, <4>1, Zenon
    <3>4. 1 .. (k + 1) + 1 = (1 .. k + 1) \cup {(k + 1) + 1}
      OBVIOUS
    <3>. HIDE DEF T
    <3>5. ToSet(a) = UNION {ToSet(ss[i]) : i \in 1 .. k + 1}
      BY <3>1
    <3>6. a # <<>> => \E i \in 1 .. k + 1 : ss[i] # <<>> /\ Head(a) = Head(ss[i])
      BY <3>1
    <3>. HIDE DEF a, b, c
    <3>7. c \in Seq(S) /\ ToSet(c) = ToSet(a) \cup ToSet(b)
          /\ (a # <<>> => Head(c) = Head(a)) /\ (a = <<>> => c = b)
      <4>1. a \o b \in Seq(S) /\ ToSet(a \o b) = ToSet(a) \cup ToSet(b)
        BY <3>2, JoinedTwo
      <4>2. a # <<>> => Head(a \o b) = Head(a)
        BY <3>2, JoinedTwo
      <4>3. a = <<>> => a \o b = b
        BY <3>2, JoinedTwo
      <4>. QED BY <3>3, <4>1, <4>2, <4>3, Zenon
    <3>8. ToSet(c) = UNION {ToSet(ss[i]) : i \in 1 .. (k + 1) + 1}
      BY <3>4, <3>5, <3>7 DEF b
    <3>9. c # <<>> => \E i \in 1 .. (k + 1) + 1 : ss[i] # <<>> /\ Head(c) = Head(ss[i])
      BY <3>4, <3>6, <3>7 DEF b
    <3>. QED BY <3>7, <3>8, <3>9 DEF c
  <2>. HIDE DEF T
  <2>8. Len(ss) - 1 \in T
    <3>1. Len(ss) - 1 \in Nat
      BY <1>2
    <3>. QED BY <2>6, <2>7, <3>1, NatSetInduction
  <2>9. Good(Len(ss))
    <3>1. (Len(ss) - 1) + 1 = Len(ss)
      OBVIOUS
    <3>. QED BY <2>8, <3>1 DEF T
  <2>10. DOMAIN ss = 1 .. Len(ss)
    OBVIOUS
  <2>. QED BY <2>4, <2>9, <2>10, Zenon
<1>. QED BY <1>1, <1>2

\* A sequence without elements.
LEMMA NoElements ==
    ASSUME NEW S, NEW s \in Seq(S)
    PROVE  s = <<>> <=> ToSet(s) = {}
<1>1. s # <<>> => s[1] \in ToSet(s)
  BY DEF ToSet
<1>. QED BY <1>1 DEF ToSet

\* Sorting keeps the files.
LEMMA SortedFiles ==
    ASSUME NEW files
    PROVE  Sorted(files) \in Seq(All) /\ ToSet(Sorted(files)) = files \cap All
<1>. DEFINE e(i) == If(Files[i] \in files, Files[i])
            ss == [i \in DOMAIN Files |-> e(i)]
<1>1. Files \in Seq(All) /\ All = {Files[i] : i \in DOMAIN Files}
  BY TestsAssumption DEF All, ToSet
<1>2. ASSUME NEW i \in DOMAIN Files
      PROVE  e(i) \in Seq(All) /\ ToSet(e(i)) = {Files[i]} \cap files
  <2>1. Files[i] \in All
    BY <1>1
  <2>2. <<Files[i]>> \in Seq(All) /\ <<>> \in Seq(All)
        /\ ToSet(<<Files[i]>>) = {Files[i]} /\ ToSet(<<>>) = {}
    BY <2>1 DEF ToSet
  <2>. QED BY <2>2, Zenon DEF If
<1>. HIDE DEF e
<1>3. ss \in Seq(Seq(All)) /\ DOMAIN ss = DOMAIN Files
  BY <1>1, <1>2
<1>4. \A i \in DOMAIN Files : ToSet(ss[i]) = {Files[i]} \cap files
  BY <1>2
<1>5. Sorted(files) = FlattenSeq(ss)
  BY Zenon DEF Sorted, e
<1>. HIDE DEF ss
<1>6. Sorted(files) \in Seq(All)
      /\ ToSet(Sorted(files)) = UNION {ToSet(ss[i]) : i \in DOMAIN ss}
  BY <1>3, <1>5, Flattened, Zenon
<1>. QED BY <1>1, <1>3, <1>4, <1>6

\* A set of numbers has a least element.
LEMMA Least ==
    ASSUME NEW T \in SUBSET Nat, T # {}
    PROVE  \E x \in T : \A y \in T : x <= y
<1>1. PICK x \in T : \A y \in T : ~ (<<y, x>> \in OpToRel(<, Nat))
  <2>1. IsWellFoundedOn(OpToRel(<, Nat), Nat)
    BY NatLessThanWellFounded, Zenon
  <2>. QED BY <2>1, WFMin, Zenon
<1>2. \A y \in T : y < x => <<y, x>> \in OpToRel(<, Nat)
  BY Zenon DEF OpToRel
<1>3. \A y \in T : ~(y < x)
  BY <1>1, <1>2, Zenon
<1>. QED BY <1>3

\* What is mentioned first is what is mentioned.
LEMMA Mentioned ==
    ASSUME NEW S, NEW s \in Seq(S)
    PROVE  /\ FirstMentions(s) \in Seq(S) /\ ToSet(FirstMentions(s)) = ToSet(s)
           /\ s = <<>> => FirstMentions(s) = <<>>
<1>. DEFINE First(i) == \A j \in 1 .. i - 1 : s[j] # s[i]
            e(i) == If(First(i), s[i])
            ss == [i \in DOMAIN s |-> e(i)]
<1>1. ASSUME NEW i \in DOMAIN s
      PROVE  /\ e(i) \in Seq(S)
             /\ ToSet(e(i)) \subseteq {s[i]}
             /\ First(i) => s[i] \in ToSet(e(i))
  <2>1. /\ <<s[i]>> \in Seq(S) /\ <<>> \in Seq(S)
        /\ ToSet(<<s[i]>>) = {s[i]} /\ ToSet(<<>>) = {}
    BY DEF ToSet
  <2>. HIDE DEF First
  <2>2. e(i) = IF First(i) THEN <<s[i]>> ELSE <<>>
    BY Zenon DEF If
  <2>. HIDE DEF e
  <2>. QED BY <2>1, <2>2
<1>2. FirstMentions(s) = FlattenSeq(ss)
  BY Zenon DEF FirstMentions
<1>3. ASSUME NEW i \in DOMAIN s
      PROVE  \E m \in DOMAIN s : s[m] = s[i] /\ First(m)
  <2>. DEFINE T == {m \in DOMAIN s : s[m] = s[i]}
  <2>1. T \in SUBSET Nat /\ T # {}
    OBVIOUS
  <2>2. PICK m \in T : \A y \in T : m <= y
    <3>. HIDE DEF T
    <3>. QED BY <2>1, Least
  <2>3. ASSUME NEW j \in 1 .. m - 1
        PROVE  s[j] # s[m]
    <3>1. j \in DOMAIN s /\ ~(m <= j)
      OBVIOUS
    <3>. QED BY <2>2, <3>1
  <2>. QED BY <2>3
<1>. HIDE DEF First, e
<1>4. ss \in Seq(Seq(S)) /\ DOMAIN ss = DOMAIN s /\ \A i \in DOMAIN s : ss[i] = e(i)
  BY <1>1
<1>. HIDE DEF ss
<1>5. FirstMentions(s) \in Seq(S)
      /\ ToSet(FirstMentions(s)) = UNION {ToSet(ss[i]) : i \in DOMAIN ss}
  BY <1>2, <1>4, Flattened, Zenon
<1>6. ToSet(s) = {s[i] : i \in DOMAIN s}
  BY DEF ToSet
<1>7. ToSet(FirstMentions(s)) \subseteq ToSet(s)
  BY <1>1, <1>4, <1>5, <1>6
<1>8. ASSUME NEW i \in DOMAIN s PROVE s[i] \in ToSet(FirstMentions(s))
  <2>1. PICK m \in DOMAIN s : s[m] = s[i] /\ First(m)
    BY <1>3
  <2>2. s[i] \in ToSet(ss[m])
    BY <1>1, <1>4, <2>1
  <2>. QED BY <1>4, <1>5, <2>2
<1>9. s = <<>> => ToSet(FirstMentions(s)) = {}
  BY <1>6, <1>7
<1>. QED BY <1>5, <1>6, <1>7, <1>8, <1>9, NoElements

(***************************************************************************)
(* Fingerprints.                                                           *)
(***************************************************************************)
\* What the tree holds that a fingerprint is of.
TreeOf(fp) ==
    [f \in All |-> IF f \in DOMAIN fp.contents THEN fp.contents[f] ELSE fp.commit[f]]

\* The tree, its index and its commit are contents.
Trees == disk \in [All -> Content] /\ index \in [All -> Content] /\ head \in [All -> Content]

\* The files that git shows, and those that are given, are files, and all of them are there.
LEMMA ChangesAreShown ==
    ASSUME NEW request, NEW accepted \in Seq(All)
    PROVE  /\ ChangedFiles(request, accepted) \in Seq(All)
           /\ \A f \in All : Shows("index", f) \/ Shows("worktree", f) \/ Shows("untracked", f) =>
                 f \in ToSet(ChangedFiles(request, accepted))
<1>. DEFINE groups == IF request.base THEN Groups ELSE Front(Groups)
            shown(group) == {f \in All : Shows(group, f)}
            e(i) == Sorted(shown(groups[i]))
            ss == [i \in DOMAIN groups |-> e(i)]
<1>1. /\ DOMAIN groups = 1 .. Len(groups) /\ Len(groups) \in Nat /\ {1, 2, 3} \subseteq DOMAIN groups
      /\ groups[1] = "index" /\ groups[2] = "worktree" /\ groups[3] = "untracked"
  <2>1. /\ Groups \in Seq({"index", "worktree", "untracked", "base"})
        /\ Len(Groups) = 4 /\ DOMAIN Groups = 1 .. 4
        /\ Groups[1] = "index" /\ Groups[2] = "worktree" /\ Groups[3] = "untracked"
    BY DEF Groups
  <2>2. Front(Groups) = SubSeq(Groups, 1, 3)
    BY <2>1 DEF Front
  <2>. HIDE DEF Groups
  <2>3. /\ Len(Front(Groups)) = 3 /\ DOMAIN Front(Groups) = 1 .. 3
        /\ \A i \in 1 .. 3 : Front(Groups)[i] = Groups[i]
    BY <2>1, <2>2
  <2>. QED BY <2>1, <2>3
<1>2. \A i : e(i) \in Seq(All) /\ ToSet(e(i)) = shown(groups[i])
  BY SortedFiles
<1>3. ChangedFiles(request, accepted) = FirstMentions(FlattenSeq(ss) \o accepted)
  BY Zenon DEF ChangedFiles
<1>. HIDE DEF e, groups, shown
<1>4. ss \in Seq(Seq(All)) /\ DOMAIN ss = DOMAIN groups /\ \A i \in DOMAIN groups : ss[i] = e(i)
  BY <1>1, <1>2
<1>. HIDE DEF ss
<1>5. /\ FlattenSeq(ss) \in Seq(All)
      /\ ToSet(FlattenSeq(ss)) = UNION {ToSet(ss[i]) : i \in DOMAIN ss}
  BY <1>4, Flattened, Zenon
<1>6. /\ FlattenSeq(ss) \o accepted \in Seq(All)
      /\ ToSet(FlattenSeq(ss)) \subseteq ToSet(FlattenSeq(ss) \o accepted)
  BY <1>5, JoinedTwo
<1>7. /\ ChangedFiles(request, accepted) \in Seq(All)
      /\ ToSet(FlattenSeq(ss)) \subseteq ToSet(ChangedFiles(request, accepted))
  BY <1>3, <1>6, Mentioned
<1>8. shown("index") \cup shown("worktree") \cup shown("untracked") \subseteq ToSet(FlattenSeq(ss))
  <2>1. ASSUME NEW i \in {1, 2, 3} PROVE shown(groups[i]) \subseteq ToSet(FlattenSeq(ss))
    <3>1. i \in DOMAIN ss /\ ToSet(ss[i]) = shown(groups[i])
      BY <1>1, <1>2, <1>4
    <3>. QED BY <1>5, <3>1
  <2>. QED BY <1>1, <2>1
<1>. QED BY <1>7, <1>8 DEF shown

\* The files that are given are files.
LEMMA AcceptedFiles ==
    ASSUME NEW r \in Requests, Absent \notin ToSet(r.paths)
    PROVE  Accepted(r.paths) \in Seq(All)
<1>1. r.paths \in Seq(All \cup {Absent})
  BY TestsAssumption DEF Request, Takes
<1>2. \A i \in DOMAIN r.paths : r.paths[i] # Absent
  BY DEF ToSet
<1>3. r.paths \in Seq(All)
  BY <1>1, <1>2
<1>. QED BY <1>3, Mentioned DEF Accepted

\* A fingerprint identifies the tree: whenever a command would compute it again, the files hold
\* what they held then, however they were staged, committed, edited and restored in between
\* (change_detection.py fingerprint).
THEOREM FingerprintIdentifies ==
    ASSUME Trees, NEW fp \in Fingerprints
    PROVE  disk = TreeOf(fp)
<1>1. PICK r \in Requests :
        /\ Absent \notin ToSet(r.paths)
        /\ fp = Fingerprint(r, ChangedFiles(r, Accepted(r.paths)))
  BY DEF Fingerprints
<1>. DEFINE changed == ChangedFiles(r, Accepted(r.paths))
<1>2. \A f \in All : Shows("index", f) \/ Shows("worktree", f) \/ Shows("untracked", f) => f \in ToSet(changed)
  BY <1>1, AcceptedFiles, ChangesAreShown
<1>. HIDE DEF changed
<1>3. fp.commit = head /\ DOMAIN fp.contents = ToSet(changed) /\ \A f \in ToSet(changed) : fp.contents[f] = disk[f]
  BY <1>1 DEF Fingerprint, changed
<1>4. ASSUME NEW f \in All, f \notin ToSet(changed)
      PROVE  disk[f] = head[f]
  BY <1>2, <1>4 DEF Shows
<1>. QED BY <1>3, <1>4 DEF TreeOf, Trees

(***************************************************************************)
(* The invariants.                                                         *)
(***************************************************************************)
Fields == {"request", "accepted", "changed", "tree", "edits", "targets", "deferred", "warned",
           "met", "run", "next", "errors"}

\* A file passes in a tree: Passes, of any tree.
PassesIn(tree, f) ==
    /\ tree[f] # "gone"
    /\ tree[f] \notin {"broken", "raises"}
    /\ \A s \in Loaded(f) : tree[s] \notin {"broken", "raises", "gone"}
    /\ ~(f \in TestFiles /\ tree[f] = "wrong")
    /\ ~(f \in TestFiles /\ tree[f] # "empty" /\ \E s \in Loaded(f) : tree[s] = "wrong")

\* It does so now.
LEMMA PassesNow == \A f : Passes(f) <=> PassesIn(disk, f)
BY DEF Passes, PassesIn, Uncollectable, FailsNow

\* What the outcome of a run says of its targets in a tree.
RunTrue(run, targets, dead, tree) ==
    /\ run.returncode = 0 => \A f \in ToSet(targets) : PassesIn(tree, f)
    /\ \A f \in ToSet(targets) :
           /\ run.items[f] \in {"none", "passed", "failed"}
           /\ run.items[f] = "passed" => PassesIn(tree, f) \/ f \in dead

\* What a command knows of the tree that it fingerprinted.
Knows(k, at) ==
    /\ Fields \subseteq DOMAIN k
    /\ k.edits \in 0 .. edits
    /\ at # "idle" => /\ k.request \in Requests /\ Absent \notin ToSet(k.request.paths)
                      /\ k.accepted = Accepted(k.request.paths)
    /\ at = "strict" => k.request.mode = "full"
    /\ at \in {"select", "planned", "check", "pytest", "record"} => k.request.mode # "full"
    /\ at \notin {"idle", "changes"} /\ k.edits = edits => k.tree \in Fingerprints
    /\ at \in {"pytest", "record"} /\ k.edits = edits /\ k.request.mode = "fast" =>
           \A f \in ToSet(k.changed) : disk[f] # "broken"
    /\ at = "record" /\ k.edits = edits => k.met
    /\ at = "record" => /\ k.met \in BOOLEAN
                        /\ \A f \in ToSet(k.targets) : k.run.items[f] \in {"none", "passed", "failed"}
    /\ at = "record" /\ k.met => RunTrue(k.run, k.targets, died, TreeOf(k.tree))

\* A report of PASSED, and a row that says "passed".
ReportTrue(r) ==
    r.status = "PASSED" /\ r.steady =>
        /\ \A f \in ToSet(IF r.mode = "full" THEN layout.strict ELSE r.targets) : PassesIn(TreeOf(r.tree), f)
        /\ r.mode = "fast" => \A f \in ToSet(r.changed) : TreeOf(r.tree)[f] # "broken"
RowTrue(row, f) ==
    row.met /\ row.result = "passed" /\ f \notin died => PassesIn(TreeOf(row.tree), f)

Shape ==
    /\ DOMAIN pc = Commands /\ DOMAIN cmd = Commands /\ DOMAIN report = Commands
    /\ DOMAIN history = All /\ edits \in Nat /\ Trees

IInv ==
    /\ Shape
    /\ \A c \in Commands : Knows(cmd[c], pc[c]) /\ ReportTrue(report[c])
    /\ \A f \in All : history[f] # Absent => RowTrue(history[f], f)

(***************************************************************************)
(* pytest.                                                                 *)
(***************************************************************************)
\* A run that ends with status 0 had nothing that fails, and an item passes where the
\* file does.
LEMMA FinishedIsTrue ==
    ASSUME NEW targets
    PROVE  LET run == Finished(targets)
           IN /\ run.returncode = 0 => \A f \in ToSet(targets) : Passes(f)
              /\ \A f \in ToSet(targets) :
                     /\ run.items[f] \in {"none", "passed", "failed"}
                     /\ run.items[f] = "passed" => Passes(f)
<1>. DEFINE files == ToSet(targets)
            collects == {f \in files : disk[f] # "gone" /\ ~Uncollectable(f) /\ HoldsTests(f)}
            stops == {f \in files : disk[f] # "gone" /\ Uncollectable(f)}
            gone == {f \in files : disk[f] = "gone"}
            fails == {f \in collects : FailsNow(f)}
            run == Finished(targets)
<1>1. \A f : FailsNow(f) => HoldsTests(f)
  BY DEF FailsNow, HoldsTests
<1>2. gone = {} /\ stops = {} /\ fails = {} => \A f \in files : Passes(f)
  BY <1>1 DEF Passes
<1>3. /\ run.returncode = CASE gone # {} -> 4
                          [] gone = {} /\ stops # {} -> 2
                          [] gone = {} /\ stops = {} /\ fails # {} -> 1
                          [] gone = {} /\ stops = {} /\ collects = {} -> 5
                          [] OTHER -> 0
      /\ \A f \in files : run.items[f] = IF gone \cup stops # {} \/ f \notin collects THEN "none"
                                         ELSE IF f \in fails THEN "failed" ELSE "passed"
  BY DEF Finished
<1>4. \A f \in collects \ fails : Passes(f)
  BY DEF Passes
<1>. HIDE DEF collects, stops, gone, fails, run
<1>5. run.returncode = 0 => gone = {} /\ stops = {} /\ fails = {}
  BY <1>3
<1>6. \A f \in files : /\ run.items[f] \in {"none", "passed", "failed"}
                       /\ run.items[f] = "passed" => f \in collects \ fails
  BY <1>3
<1>. QED BY <1>2, <1>4, <1>5, <1>6 DEF run

\* What `died` becomes with a run.
DeadAfter(run) ==
    IF run.returncode = 139 THEN died \cup {f \in DOMAIN run.items : run.items[f] = "passed"} ELSE died

\* So is every run, one that times out or in which an interpreter dies included (run_pytest).
LEMMA RunsAreTrue ==
    ASSUME NEW targets, NEW run \in PytestRuns(targets)
    PROVE  RunTrue(run, targets, DeadAfter(run), disk)
<1>1. CASE run = Finished(targets)
  BY <1>1, FinishedIsTrue, PassesNow DEF RunTrue
<1>2. CASE run = TimedOut(targets)
  BY <1>2 DEF TimedOut, RunTrue
<1>3. CASE \E i \in DOMAIN targets : run \in Died(targets, i)
  <2>1. /\ run.returncode = 139 /\ DOMAIN run.items = ToSet(targets)
        /\ \A f \in ToSet(targets) : run.items[f] \in {"none", "passed", Finished(targets).items[f]}
    BY <1>3 DEF Died
  <2>2. \A f \in ToSet(targets) : run.items[f] \in {"none", "passed", "failed"}
    BY <2>1, FinishedIsTrue
  <2>. QED BY <2>1, <2>2, PassesNow DEF RunTrue, DeadAfter
<1>. QED BY <1>1, <1>2, <1>3 DEF PytestRuns

(***************************************************************************)
(* The steps.                                                              *)
(***************************************************************************)
LEMMA InitInv == Init => IInv
<1>. SUFFICES ASSUME Init PROVE IInv
  OBVIOUS
<1>1. Shape
  BY DEF Init, Shape, Trees, Original, Content
<1>2. ASSUME NEW c \in Commands PROVE Knows(cmd[c], pc[c])
  BY DEF Init, Knows, Idle, Fields
<1>3. ASSUME NEW c \in Commands PROVE ReportTrue(report[c])
  BY DEF Init, NoReport, ReportTrue
<1>4. ASSUME NEW f \in All PROVE history[f] = Absent
  BY DEF Init
<1>. QED BY <1>1, <1>2, <1>3, <1>4 DEF IInv

\* The layout stays, and no interpreter that died is forgotten.
Remembered == layout' = layout /\ died \subseteq died'

\* What was true of the tree that a fingerprint is of stays true, whatever happens to the tree.
LEMMA StillRemembered ==
    ASSUME Remembered
    PROVE  /\ \A run, targets, tree : RunTrue(run, targets, died, tree) => RunTrue(run, targets, died, tree)'
           /\ \A r : ReportTrue(r) => ReportTrue(r)'
           /\ \A row, f : RowTrue(row, f) => RowTrue(row, f)'
<1>1. \A tree, f : PassesIn(tree, f)' <=> PassesIn(tree, f)
  BY DEF Remembered, PassesIn, Loaded
<1>2. \A fp : TreeOf(fp)' = TreeOf(fp)
  BY DEF TreeOf
<1>3. ASSUME NEW run, NEW targets, NEW tree, RunTrue(run, targets, died, tree)
      PROVE  RunTrue(run, targets, died, tree)'
  BY <1>1, <1>3 DEF RunTrue, Remembered
<1>4. ASSUME NEW r, ReportTrue(r) PROVE ReportTrue(r)'
  BY <1>1, <1>2, <1>4 DEF ReportTrue, Remembered
<1>5. ASSUME NEW row, NEW f, RowTrue(row, f) PROVE RowTrue(row, f)'
  BY <1>1, <1>2, <1>5 DEF RowTrue, Remembered
<1>. QED BY <1>3, <1>4, <1>5

\* Nobody edits, stages or commits.
Unwritten == UNCHANGED <<layout, disk, index, head, edits>> /\ died \subseteq died'

\* While nobody writes, what is known of the tree stays true.
LEMMA StillTrue ==
    ASSUME Unwritten
    PROVE  /\ Remembered
           /\ \A k, at : Knows(k, at) => Knows(k, at)'
           /\ \A r : ReportTrue(r) => ReportTrue(r)'
           /\ \A row, f : RowTrue(row, f) => RowTrue(row, f)'
<1>1. Remembered
  BY DEF Unwritten, Remembered
<1>2. Fingerprints' = Fingerprints
  <2>1. \A r, accepted : ChangedFiles(r, accepted)' = ChangedFiles(r, accepted)
    BY DEF Unwritten, ChangedFiles, Shows, Original
  <2>2. \A r, changed : Fingerprint(r, changed)' = Fingerprint(r, changed)
    BY DEF Unwritten, Fingerprint
  <2>. QED BY <2>1, <2>2 DEF Fingerprints
<1>3. \A fp : TreeOf(fp)' = TreeOf(fp)
  BY DEF TreeOf
<1>4. ASSUME NEW k, NEW at, Knows(k, at) PROVE Knows(k, at)'
  <2>1. at = "record" /\ k.met => RunTrue(k.run, k.targets, died, TreeOf(k.tree))'
    BY <1>1, <1>3, <1>4, StillRemembered DEF Knows
  <2>. QED BY <1>2, <1>3, <1>4, <2>1 DEF Knows, Unwritten
<1>. QED BY <1>1, <1>4, StillRemembered

\* A step of one command.
LEMMA CommandKeeps ==
    ASSUME IInv, Unwritten, NEW c \in Commands,
           DOMAIN pc' = Commands, DOMAIN cmd' = Commands, DOMAIN report' = Commands,
           DOMAIN history' = All,
           \A d \in Commands \ {c} : pc'[d] = pc[d] /\ cmd'[d] = cmd[d] /\ report'[d] = report[d],
           Knows(cmd[c], pc[c])',
           report'[c] = report[c] \/ ReportTrue(report[c])',
           \A f \in All : history'[f] = history[f] \/ RowTrue(history[f], f)'
    PROVE  IInv'
<1>1. Shape'
  BY DEF IInv, Shape, Trees, Unwritten
<1>2. \A d \in Commands : Knows(cmd[d], pc[d])'
  BY StillTrue DEF IInv
<1>3. \A d \in Commands : ReportTrue(report[d])'
  BY StillTrue DEF IInv
<1>4. \A f \in All : history'[f] # Absent => RowTrue(history[f], f)'
  BY StillTrue DEF IInv
<1>. QED BY <1>1, <1>2, <1>3, <1>4 DEF IInv

\* The tree is edited, staged or committed.
Written ==
    /\ edits' = edits + 1 /\ Trees'
    /\ UNCHANGED <<layout, history, pc, cmd, report, died>>

\* After that no command knows the tree that it is now.
LEMMA WrittenKeeps ==
    ASSUME IInv, Written
    PROVE  IInv'
<1>1. \A n : n \in 0 .. edits => n \in 0 .. edits' /\ n # edits'
  BY DEF IInv, Shape, Written
<1>2. Remembered
  BY DEF Written, Remembered
<1>3. ASSUME NEW k, NEW at, Knows(k, at) PROVE Knows(k, at)'
  <2>1. at = "record" /\ k.met => RunTrue(k.run, k.targets, died, TreeOf(k.tree))'
    <3>1. TreeOf(k.tree)' = TreeOf(k.tree)
      BY DEF TreeOf
    <3>. QED BY <1>2, <1>3, <3>1, StillRemembered DEF Knows
  <2>2. k.edits \in 0 .. edits' /\ k.edits # edits'
    BY <1>1, <1>3 DEF Knows
  <2>. QED BY <1>3, <2>1, <2>2 DEF Knows
<1>4. Shape'
  BY DEF IInv, Shape, Trees, Written
<1>. QED BY <1>2, <1>3, <1>4, StillRemembered DEF IInv, Written

\* The developer's steps are such.
LEMMA DeveloperWrites ==
    ASSUME IInv, (\E e \in Edits : Edit(e[1], e[2])) \/ Add \/ Commit
    PROVE  Written
BY TestsAssumption DEF Edit, Add, Commit, Written, IInv, Shape, Trees

\* A terminal without a command knows nothing.
LEMMA IdleKnows == ASSUME edits \in Nat PROVE Knows(Idle, "idle")
BY DEF Knows, Idle, Fields

\* A command that ends with its report.
LEMMA EndKeeps ==
    ASSUME IInv, Unwritten, UNCHANGED history, NEW c \in Commands, End(c), NEW r,
           report' = [report EXCEPT ![c] = r], ReportTrue(r)
    PROVE  IInv'
<1>1. Knows(Idle, "idle")
  BY IdleKnows DEF IInv, Shape
<1>2. Knows(Idle, "idle")' /\ ReportTrue(r)'
  BY <1>1, StillTrue
<1>3. /\ DOMAIN pc' = Commands /\ DOMAIN cmd' = Commands /\ DOMAIN report' = Commands
      /\ DOMAIN history' = All
      /\ pc'[c] = "idle" /\ cmd'[c] = Idle /\ report'[c] = r
      /\ \A d \in Commands \ {c} : pc'[d] = pc[d] /\ cmd'[d] = cmd[d] /\ report'[d] = report[d]
  BY DEF End, IInv, Shape
<1>. QED BY <1>2, <1>3, CommandKeeps

\* A command that goes on.
LEMMA GoesOnKeeps ==
    ASSUME IInv, Unwritten, UNCHANGED <<history, report>>, NEW c \in Commands, NEW label, NEW new,
           pc' = [pc EXCEPT ![c] = label], cmd' = [cmd EXCEPT ![c] = new], Knows(new, label)'
    PROVE  IInv'
<1>1. /\ DOMAIN pc' = Commands /\ DOMAIN cmd' = Commands
      /\ pc'[c] = label /\ cmd'[c] = new
      /\ \A d \in Commands \ {c} : pc'[d] = pc[d] /\ cmd'[d] = cmd[d]
  BY DEF IInv, Shape
<1>. QED BY <1>1, CommandKeeps DEF IInv, Shape

\* A command begins.
LEMMA BeginKeeps ==
    ASSUME IInv, NEW c \in Commands, Begin(c)
    PROVE  IInv'
<1>1. Unwritten /\ UNCHANGED history /\ edits \in Nat
  BY DEF Begin, Unwritten, Developer, IInv, Shape
<1>2. PICK request \in Requests :
        LET blocked == \/ request.mode = "focused" /\ Rejected(request.paths)
                       \/ request.mode = "full" /\ layout.confidence = "none"
        IN  IF blocked
            THEN /\ report' = [report EXCEPT ![c] = [NoReport EXCEPT !.mode = request.mode,
                                                        !.status = "BLOCKED", !.exit = 2]]
                 /\ UNCHANGED <<pc, cmd>>
            ELSE /\ pc' = [pc EXCEPT ![c] = "changes"]
                 /\ cmd' = [cmd EXCEPT ![c] = [Idle EXCEPT !.request = request,
                                                  !.accepted = Accepted(request.paths)]]
                 /\ report' = [report EXCEPT ![c] = NoReport]
  BY DEF Begin
<1>a. request.mode # "focused" \/ ~Rejected(request.paths) => Absent \notin ToSet(request.paths)
  BY TestsAssumption DEF Rejected, Request, Takes, ToSet
<1>3. ReportTrue(NoReport)
  BY DEF NoReport, ReportTrue
<1>4. CASE /\ UNCHANGED <<pc, cmd>>
           /\ report' = [report EXCEPT ![c] = [NoReport EXCEPT !.mode = request.mode,
                                                        !.status = "BLOCKED", !.exit = 2]]
  <2>. DEFINE r == [NoReport EXCEPT !.mode = request.mode, !.status = "BLOCKED", !.exit = 2]
  <2>1. r.status = "BLOCKED"
    BY DEF NoReport
  <2>. HIDE DEF r
  <2>2. ReportTrue(r)'
    BY <2>1 DEF ReportTrue
  <2>3. Knows(cmd[c], pc[c])'
    BY <1>1, <1>4, StillTrue DEF IInv
  <2>. QED BY <1>1, <1>4, <2>2, <2>3, CommandKeeps DEF IInv, Shape, r
<1>5. CASE /\ request.mode # "focused" \/ ~Rejected(request.paths)
           /\ pc' = [pc EXCEPT ![c] = "changes"]
           /\ cmd' = [cmd EXCEPT ![c] = [Idle EXCEPT !.request = request,
                                                  !.accepted = Accepted(request.paths)]]
           /\ report' = [report EXCEPT ![c] = NoReport]
  <2>. DEFINE new == [Idle EXCEPT !.request = request, !.accepted = Accepted(request.paths)]
  <2>1. /\ Fields \subseteq DOMAIN new /\ new.edits = 0
        /\ new.request = request /\ new.accepted = Accepted(request.paths)
    BY DEF Idle, Fields
  <2>. HIDE DEF new
  <2>2. Knows(new, "changes")
    BY <1>1, <1>a, <1>5, <2>1 DEF Knows
  <2>3. Knows(new, "changes")'
    BY <1>1, <2>2, StillTrue
  <2>4. cmd'[c] = new /\ pc'[c] = "changes" /\ ReportTrue(report[c])'
    BY <1>1, <1>3, <1>5, StillTrue DEF IInv, Shape, new
  <2>. QED BY <1>1, <1>5, <2>4, <2>3, CommandKeeps DEF IInv, Shape
<1>. QED BY <1>2, <1>4, <1>5

\* What a command has to know before it goes on with other fields.
Keeps(k, new, set) ==
    /\ DOMAIN new = DOMAIN k
    /\ \A f \in Fields \ set : new[f] = k[f]

\* It detects the changes and identifies the tree (change_detection.py).
LEMMA DetectKeeps ==
    ASSUME IInv, NEW c \in Commands, DetectChanges(c)
    PROVE  IInv'
<1>. DEFINE k == cmd[c]
            changed == ChangedFiles(k.request, k.accepted)
            tree == Fingerprint(k.request, changed)
<1>. PICK label : label = IF k.request.mode = "full" THEN "strict" ELSE "select"
  OBVIOUS
<1>. PICK new : new = [k EXCEPT !.changed = changed, !.tree = tree, !.edits = edits]
  OBVIOUS
<1>1. /\ Unwritten /\ UNCHANGED <<history, report>> /\ edits \in Nat /\ pc[c] = "changes"
      /\ Knows(k, pc[c]) /\ c \in DOMAIN cmd
  BY DEF DetectChanges, Unwritten, Developer, IInv, Shape
<1>2. pc' = [pc EXCEPT ![c] = label] /\ cmd' = [cmd EXCEPT ![c] = new]
  BY <1>1 DEF DetectChanges
<1>3. tree \in Fingerprints
  BY <1>1 DEF Knows, Fingerprints
<1>. HIDE DEF changed, tree
<1>4. /\ Fields \subseteq DOMAIN new /\ new.request = k.request /\ new.accepted = k.accepted
      /\ new.tree = tree /\ new.edits = edits
  BY <1>1 DEF Knows, Fields
<1>5. Knows(new, label)
  BY <1>1, <1>4, <1>3 DEF Knows
<1>6. Knows(new, label)'
  BY <1>1, <1>5, StillTrue
<1>. QED BY <1>1, <1>2, <1>6, GoesOnKeeps

\* It builds the plan from what it detected (planning.py).
LEMMA BuildKeeps ==
    ASSUME IInv, NEW c \in Commands, BuildPlan(c)
    PROVE  IInv'
<1>. DEFINE k == cmd[c]
            selection == Selection(k.request, k.changed, k.accepted)
            targets == Targets(k.request, selection, k.accepted)
            deferred == selection.deferred
            warned == selection.warned
<1>. PICK label : label = IF k.request.mode = "plan" THEN "planned" ELSE "check"
  OBVIOUS
<1>. PICK new : new = [k EXCEPT !.targets = targets, !.deferred = deferred, !.warned = warned]
  OBVIOUS
<1>1. /\ Unwritten /\ UNCHANGED <<history, report>> /\ pc[c] = "select"
      /\ Knows(k, "select") /\ c \in DOMAIN cmd
  BY DEF BuildPlan, Unwritten, Developer, IInv, Shape
<1>2. pc' = [pc EXCEPT ![c] = label] /\ cmd' = [cmd EXCEPT ![c] = new]
  BY <1>1 DEF BuildPlan
<1>. HIDE DEF targets, deferred, warned
<1>3. /\ /\ Fields \subseteq DOMAIN new /\ new.request = k.request /\ new.accepted = k.accepted
      /\ new.tree = k.tree /\ new.edits = k.edits
  BY <1>1 DEF Knows, Fields
<1>4. Knows(new, label)
  BY <1>1, <1>3 DEF Knows
<1>5. Knows(new, label)'
  BY <1>1, <1>4, StillTrue
<1>. QED BY <1>1, <1>2, <1>5, GoesOnKeeps

\* A fast run goes on only if every changed file parses (_run_selected).
LEMMA CheckKeeps ==
    ASSUME IInv, NEW c \in Commands, Check(c)
    PROVE  IInv'
<1>. DEFINE k == cmd[c]
<1>1. /\ Unwritten /\ UNCHANGED history /\ pc[c] = "check"
      /\ Knows(k, "check") /\ c \in DOMAIN cmd
  BY DEF Check, Unwritten, Developer, IInv, Shape
<1>2. ~CompileFails(c) /\ k.request.mode = "fast" => \A f \in ToSet(k.changed) : disk[f] # "broken"
  BY DEF CompileFails
<1>3. ASSUME NEW status, NEW exit, NEW errors, Report(c, status, exit, errors), End(c),
             status = "PASSED" => ~CompileFails(c) /\ k.targets = <<>>
      PROVE  IInv'
  <2>. DEFINE r == [mode |-> k.request.mode, status |-> status, exit |-> exit, targets |-> k.targets,
                    changed |-> k.changed, tree |-> k.tree, steady |-> k.edits = edits, errors |-> errors]
  <2>1. report' = [report EXCEPT ![c] = r]
    BY <1>3 DEF Report
  <2>2. k.edits = edits => disk = TreeOf(k.tree)
    BY <1>1, FingerprintIdentifies DEF Knows, IInv, Shape
  <2>3. ToSet(<<>>) = {}
    BY DEF ToSet
  <2>4. status = "PASSED" => k.targets = <<>> /\ (k.request.mode = "fast" => \A f \in ToSet(k.changed) : disk[f] # "broken")
    BY <1>2, <1>3
  <2>5. k.request.mode # "full"
    BY <1>1 DEF Knows
  <2>6. ReportTrue(r)
    BY <2>2, <2>3, <2>4, <2>5 DEF ReportTrue
  <2>. HIDE DEF r
  <2>. QED BY <1>1, <1>3, <2>1, <2>6, EndKeeps
<1>4. CASE /\ ~CompileFails(c) /\ pc' = [pc EXCEPT ![c] = "pytest"] /\ UNCHANGED report
           /\ cmd' = [cmd EXCEPT ![c].errors = ImportErrors(c)]
  <2>. DEFINE errors == ImportErrors(c)
  <2>. PICK new : new = [k EXCEPT !.errors = errors]
    OBVIOUS
  <2>1. cmd' = [cmd EXCEPT ![c] = new]
    BY <1>1, <1>4
  <2>. HIDE DEF errors
  <2>2. /\ Fields \subseteq DOMAIN new /\ new.request = k.request /\ new.accepted = k.accepted
        /\ new.tree = k.tree /\ new.edits = k.edits /\ new.changed = k.changed
    BY <1>1 DEF Knows, Fields
  <2>3. Knows(new, "pytest")
    BY <1>1, <1>2, <1>4, <2>2 DEF Knows
  <2>4. Knows(new, "pytest")'
    BY <1>1, <2>3, StillTrue
  <2>. QED BY <1>1, <1>4, <2>1, <2>4, GoesOnKeeps
<1>. QED BY <1>3, <1>4 DEF Check

\* It runs pytest on its targets (execution.py).
LEMMA RunKeeps ==
    ASSUME IInv, NEW c \in Commands, RunPytest(c)
    PROVE  IInv'
<1>. DEFINE k == cmd[c]
<1>1. /\ UNCHANGED <<layout, disk, index, head, edits, history, report>> /\ pc[c] = "pytest"
      /\ pc' = [pc EXCEPT ![c] = "record"]
      /\ Knows(k, "pytest") /\ c \in DOMAIN cmd
  BY DEF RunPytest, Developer, IInv, Shape
<1>2. PICK run \in PytestRuns(k.targets) :
        /\ cmd' = [cmd EXCEPT ![c].run = run, ![c].met = cmd[c].tree \in Fingerprints,
                    ![c].errors = @ \cup (IF run.collected THEN {} ELSE {"zero"})
                                    \cup (IF run.returncode = 124 THEN {"timeout"} ELSE {})]
        /\ died' = DeadAfter(run)
  BY DEF RunPytest, DeadAfter
<1>3. Unwritten
  BY <1>1, <1>2 DEF Unwritten, DeadAfter
<1>. DEFINE errors == k.errors \cup (IF run.collected THEN {} ELSE {"zero"})
                                    \cup (IF run.returncode = 124 THEN {"timeout"} ELSE {})
            met == k.tree \in Fingerprints
<1>. PICK new : new = [k EXCEPT !.run = run, !.met = met, !.errors = errors]
  OBVIOUS
<1>4. cmd' = [cmd EXCEPT ![c] = new]
  BY <1>1, <1>2
<1>. HIDE DEF errors, met
<1>5. /\ Fields \subseteq DOMAIN new /\ new.request = k.request /\ new.accepted = k.accepted
      /\ new.tree = k.tree /\ new.edits = k.edits /\ new.changed = k.changed
      /\ new.targets = k.targets /\ new.run = run /\ new.met = met
  BY <1>1 DEF Knows, Fields
<1>6. RunTrue(run, new.targets, died', disk)
  BY <1>2, <1>5, RunsAreTrue
<1>7. met => RunTrue(run, new.targets, died', TreeOf(k.tree))
  BY <1>6, FingerprintIdentifies DEF met, IInv, Shape
<1>8. \A tree, f : PassesIn(tree, f)' <=> PassesIn(tree, f)
  BY <1>3 DEF Unwritten, PassesIn, Loaded
<1>9. TreeOf(new.tree)' = TreeOf(new.tree)
  BY DEF TreeOf
<1>10. met => RunTrue(run, new.targets, died, TreeOf(new.tree))'
  <2>1. met => RunTrue(run, new.targets, died', TreeOf(new.tree))
    BY <1>5, <1>7
  <2>. QED BY <1>8, <1>9, <2>1 DEF RunTrue
<1>11. Knows(new, "pytest")
  BY <1>1, <1>5 DEF Knows
<1>12. Knows(new, "pytest")'
  BY <1>3, <1>11, StillTrue
<1>13. new.edits = edits' => met
  BY <1>1, <1>5 DEF Knows, met
<1>14. \A f \in ToSet(new.targets) : run.items[f] \in {"none", "passed", "failed"}
  BY <1>6 DEF RunTrue
<1>15. met \in BOOLEAN
  BY DEF met
<1>16. Knows(new, "record")'
  BY <1>5, <1>10, <1>12, <1>13, <1>14, <1>15 DEF Knows
<1>. QED BY <1>1, <1>3, <1>4, <1>16, GoesOnKeeps

\* It records one file after the other, beside other commands (history.py).
LEMMA RecordKeeps ==
    ASSUME IInv, NEW c \in Commands, RecordResult(c)
    PROVE  IInv'
<1>. DEFINE k == cmd[c]
<1>. PICK f : f = k.targets[k.next]
  OBVIOUS
<1>. PICK row : row = [result |-> RowResult(k.run, f), tree |-> k.tree, met |-> k.met]
  OBVIOUS
<1>. PICK new : new = [k EXCEPT !.next = @ + 1]
  OBVIOUS
<1>1. /\ Unwritten /\ UNCHANGED <<pc, report>> /\ pc[c] = "record"
      /\ Knows(k, "record") /\ c \in DOMAIN cmd /\ k.next \in DOMAIN k.targets
      /\ history' = [history EXCEPT ![f] = row]
  BY DEF RecordResult, Unwritten, Developer, IInv, Shape
<1>2. cmd' = [cmd EXCEPT ![c] = new]
  BY <1>1 DEF RecordResult
<1>3. f \in ToSet(k.targets)
  BY <1>1 DEF ToSet
<1>4. k.met => RunTrue(k.run, k.targets, died, TreeOf(k.tree))
  BY <1>1 DEF Knows
<1>5. k.run.items[f] \in {"none", "passed", "failed"} /\ RowResult(k.run, f) = "passed" =>
          k.run.items[f] = "passed" \/ k.run.returncode = 0
  BY DEF RowResult
<1>6. RowTrue(row, f)
  BY <1>1, <1>3, <1>4, <1>5 DEF RowTrue, RunTrue, Knows
<1>7. RowTrue(row, f)'
  BY <1>1, <1>6, StillTrue
<1>8. /\ Fields \subseteq DOMAIN new /\ new.request = k.request /\ new.accepted = k.accepted
      /\ new.tree = k.tree /\ new.edits = k.edits /\ new.changed = k.changed
      /\ new.targets = k.targets /\ new.run = k.run /\ new.met = k.met
  BY <1>1 DEF Knows, Fields
<1>9. Knows(new, "record")
  BY <1>1, <1>8 DEF Knows
<1>10. Knows(new, "record")'
  BY <1>1, <1>9, StillTrue
<1>11. \A g \in All : history'[g] = history[g] \/ RowTrue(history[g], g)'
  BY <1>1, <1>7 DEF IInv, Shape
<1>12. /\ cmd'[c] = new /\ pc'[c] = "record" /\ DOMAIN cmd' = Commands /\ DOMAIN history' = All
       /\ \A d \in Commands \ {c} : cmd'[d] = cmd[d]
  BY <1>1, <1>2 DEF IInv, Shape
<1>. QED BY <1>1, <1>10, <1>11, <1>12, CommandKeeps DEF IInv, Shape

\* It reports what the exit status and its errors say (_run_selected).
LEMMA FinishKeeps ==
    ASSUME IInv, NEW c \in Commands, Finish(c)
    PROVE  IInv'
<1>. DEFINE k == cmd[c]
            exit == ExitCode(k.run)
            status == Status(exit, k.errors)
            r == [mode |-> k.request.mode, status |-> status, exit |-> exit, targets |-> k.targets,
                  changed |-> k.changed, tree |-> k.tree, steady |-> k.edits = edits, errors |-> k.errors]
<1>1. /\ Unwritten /\ UNCHANGED history /\ pc[c] = "record" /\ Knows(k, "record") /\ End(c)
      /\ report' = [report EXCEPT ![c] = r]
  BY DEF Finish, Report, Unwritten, Developer, IInv
<1>2. status = "PASSED" => exit = 0
  BY DEF Status
<1>3. exit = 0 => k.run.returncode = 0
  BY DEF ExitCode
<1>. HIDE DEF status, exit
<1>4. k.edits = edits => disk = TreeOf(k.tree) /\ RunTrue(k.run, k.targets, died, TreeOf(k.tree))
  BY <1>1, FingerprintIdentifies DEF Knows, IInv, Shape
<1>5. k.edits = edits /\ k.request.mode = "fast" => \A f \in ToSet(k.changed) : disk[f] # "broken"
  BY <1>1 DEF Knows
<1>6. k.request.mode # "full"
  BY <1>1 DEF Knows
<1>7. ReportTrue(r)
  BY <1>2, <1>3, <1>4, <1>5, <1>6 DEF ReportTrue, RunTrue
<1>. HIDE DEF r
<1>. QED BY <1>1, <1>7, EndKeeps

\* test-full runs the strict command and reports its exit status.
LEMMA StrictKeeps ==
    ASSUME IInv, NEW c \in Commands, RunStrict(c)
    PROVE  IInv'
<1>. DEFINE k == cmd[c]
<1>1. Unwritten /\ UNCHANGED history /\ pc[c] = "strict" /\ Knows(k, "strict") /\ End(c)
  BY DEF RunStrict, Unwritten, Developer, IInv
<1>2. PICK run \in PytestRuns(layout.strict) :
        LET errors == IF run.returncode = 124 THEN {"timeout"} ELSE {} IN
        Report(c, Status(run.returncode, errors), run.returncode, errors)
  BY DEF RunStrict
<1>. DEFINE errors == IF run.returncode = 124 THEN {"timeout"} ELSE {}
            status == Status(run.returncode, errors)
            r == [mode |-> k.request.mode, status |-> status, exit |-> run.returncode,
                  targets |-> k.targets, changed |-> k.changed, tree |-> k.tree, steady |-> k.edits = edits, errors |-> errors]
<1>3. report' = [report EXCEPT ![c] = r]
  BY <1>2 DEF Report
<1>4. status = "PASSED" => run.returncode = 0
  BY DEF Status
<1>5. run.returncode = 0 => \A f \in ToSet(layout.strict) : PassesIn(disk, f)
  BY RunsAreTrue DEF RunTrue
<1>6. k.edits = edits => disk = TreeOf(k.tree)
  BY <1>1, FingerprintIdentifies DEF Knows, IInv, Shape
<1>. HIDE DEF status, errors
<1>7. ReportTrue(r)
  BY <1>1, <1>4, <1>5, <1>6 DEF ReportTrue, Knows
<1>. HIDE DEF r
<1>. QED BY <1>1, <1>3, <1>7, EndKeeps

\* test-plan reports without running anything.
LEMMA ShowKeeps ==
    ASSUME IInv, NEW c \in Commands, ShowPlan(c)
    PROVE  IInv'
<1>. DEFINE k == cmd[c]
            r == [mode |-> k.request.mode, status |-> "planned", exit |-> 0, targets |-> k.targets,
                  changed |-> k.changed, tree |-> k.tree, steady |-> k.edits = edits, errors |-> {}]
<1>1. /\ Unwritten /\ UNCHANGED history /\ pc[c] = "planned" /\ Knows(k, "planned") /\ End(c)
      /\ report' = [report EXCEPT ![c] = r]
  BY DEF ShowPlan, Report, Unwritten, Developer, IInv
<1>2. ReportTrue(r)
  BY <1>1 DEF ReportTrue, Knows
<1>. HIDE DEF r
<1>. QED BY <1>1, <1>2, EndKeeps

\* A killed command reports nothing.
LEMMA KillKeeps ==
    ASSUME IInv, NEW c \in Commands, Kill(c)
    PROVE  IInv'
<1>1. Unwritten /\ UNCHANGED history /\ UNCHANGED report /\ End(c)
  BY DEF Kill, Unwritten, Developer
<1>2. Knows(Idle, "idle")'
  BY <1>1, IdleKnows, StillTrue DEF IInv, Shape
<1>. QED BY <1>1, <1>2, GoesOnKeeps DEF End

\* The invariant is inductive: every command, edit, staging and commit keeps it.
LEMMA StepInv == IInv /\ [Next]_vars => IInv'
<1>. SUFFICES ASSUME IInv, [Next]_vars PROVE IInv'
  OBVIOUS
<1>1. CASE (\E e \in Edits : Edit(e[1], e[2])) \/ Add \/ Commit
  BY <1>1, DeveloperWrites, WrittenKeeps
<1>2. ASSUME NEW c \in Commands,
             \/ Begin(c) \/ DetectChanges(c) \/ BuildPlan(c) \/ ShowPlan(c) \/ Check(c)
             \/ RunPytest(c) \/ RecordResult(c) \/ Finish(c) \/ RunStrict(c) \/ Kill(c)
      PROVE  IInv'
  BY <1>2, BeginKeeps, DetectKeeps, BuildKeeps, ShowKeeps, CheckKeeps, RunKeeps, RecordKeeps,
     FinishKeeps, StrictKeeps, KillKeeps
<1>3. CASE UNCHANGED vars
  <2>1. Unwritten /\ UNCHANGED <<pc, cmd, report, history>>
    BY <1>3 DEF vars, Unwritten
  <2>. QED BY <2>1, StillTrue DEF IInv, Shape, Trees, Unwritten
<1>. QED BY <1>1, <1>2, <1>3 DEF Next

(***************************************************************************)
(* The selection of a fast run.                                            *)
(***************************************************************************)
\* Ordering the selected files neither drops nor adds one (_order_selected).
LEMMA Ordered ==
    ASSUME NEW chosen \in SUBSET All, NEW category
    PROVE  /\ OrderSelected(chosen, category) \in Seq(All)
           /\ ToSet(OrderSelected(chosen, category)) = chosen
<1>. DEFINE e(r) == Sorted({f \in chosen : Rank(f, category[f]) = r - 1})
            ss == [r \in 1 .. 8 |-> e(r)]
<1>1. \A r : e(r) \in Seq(All) /\ ToSet(e(r)) = {f \in chosen : Rank(f, category[f]) = r - 1}
  BY SortedFiles
<1>2. OrderSelected(chosen, category) = FlattenSeq(ss)
  BY Zenon DEF OrderSelected
<1>3. \A f \in chosen : \E r \in 1 .. 8 : Rank(f, category[f]) = r - 1
  <2>1. \A f : Rank(f, category[f]) \in {0, 3, 4, 5, 6, 7}
    BY DEF Rank
  <2>2. \A n \in {0, 3, 4, 5, 6, 7} : n + 1 \in 1 .. 8 /\ n = (n + 1) - 1
    OBVIOUS
  <2>. QED BY <2>1, <2>2, Zenon
<1>. HIDE DEF e
<1>4. ss \in Seq(Seq(All)) /\ DOMAIN ss = 1 .. 8 /\ \A r \in 1 .. 8 : ss[r] = e(r)
  BY <1>1
<1>. HIDE DEF ss
<1>5. /\ FlattenSeq(ss) \in Seq(All)
      /\ ToSet(FlattenSeq(ss)) = UNION {ToSet(ss[i]) : i \in DOMAIN ss}
  BY <1>4, Flattened, Zenon
<1>6. UNION {ToSet(ss[i]) : i \in DOMAIN ss} = chosen
  BY <1>1, <1>3, <1>4
<1>. QED BY <1>2, <1>5, <1>6

Matched == [category : {"direct", "dependency"}, safety : BOOLEAN]
Reasoned == [category : {"direct", "dependency", "explicit", "safety"}, safety : BOOLEAN]

\* A changed source gives reasons for the tests it is linked to, and for no other.
LEMMA Matches ==
    ASSUME NEW t \in TestIndex, NEW s \in SourceIndex
    PROVE  MatchesOf(s, t) \in Seq(Matched) /\ (MatchesOf(s, t) # <<>> <=> Linked(t, s))
<1>. DEFINE via == {d \in Dependents(s) : Touches(t, d)}
            a == If(t \in layout.named[s], Reason("direct", s \in layout.sensitive))
            b == If(s \in Imports(t), Reason("direct", s \in layout.sensitive))
            d == If(via # {}, Reason("dependency", (via \cup {s}) \cap layout.sensitive # {}))
<1>1. /\ Reason("direct", s \in layout.sensitive) \in Matched
      /\ Reason("dependency", (via \cup {s}) \cap layout.sensitive # {}) \in Matched
  BY DEF Reason, Matched
<1>2. a \in Seq(Matched) /\ (a # <<>> <=> t \in layout.named[s])
  BY <1>1 DEF If
<1>3. b \in Seq(Matched) /\ (b # <<>> <=> s \in Imports(t))
  BY <1>1 DEF If
<1>4. d \in Seq(Matched) /\ (d # <<>> <=> via # {})
  BY <1>1 DEF If
<1>5. MatchesOf(s, t) = a \o b \o d
  BY DEF MatchesOf
<1>6. Linked(t, s) <=> t \in layout.named[s] \/ s \in Imports(t) \/ via # {}
  BY DEF Linked, Touches
<1>. HIDE DEF a, b, d, via
<1>7. a \o b \in Seq(Matched) /\ (a \o b # <<>> <=> a # <<>> \/ b # <<>>)
  BY <1>2, <1>3, JoinedTwo
<1>8. (a \o b) \o d \in Seq(Matched) /\ ((a \o b) \o d # <<>> <=> a \o b # <<>> \/ d # <<>>)
  BY <1>4, <1>7, JoinedTwo
<1>. QED BY <1>2, <1>3, <1>4, <1>5, <1>6, <1>7, <1>8

\* All the changed sources together.
AllMatches(t, changed) ==
    FlattenSeq([i \in DOMAIN changed |-> IF changed[i] \in SourceIndex
                                         THEN MatchesOf(changed[i], t) ELSE <<>>])
IsLinked(t, changed) == \E s \in ToSet(changed) \cap SourceIndex : Linked(t, s)
IsMapped(t, changed) == \E f \in ToSet(changed) : t \in layout.mapped[f]
IsSafety(t) == t \in layout.always \/ t \in layout.gated \cap TestIndex

\* They are reasons for a test exactly when one of them is linked to it.
LEMMA ChangedMatches ==
    ASSUME NEW t \in TestIndex, NEW changed \in Seq(All)
    PROVE  /\ AllMatches(t, changed) \in Seq(Matched)
           /\ AllMatches(t, changed) # <<>> <=> IsLinked(t, changed)
<1>. DEFINE e(i) == IF changed[i] \in SourceIndex THEN MatchesOf(changed[i], t) ELSE <<>>
            ss == [i \in DOMAIN changed |-> e(i)]
            Links(s) == s \in SourceIndex /\ Linked(t, s)
<1>1. ASSUME NEW i \in DOMAIN changed
      PROVE  e(i) \in Seq(Matched) /\ (e(i) # <<>> <=> Links(changed[i]))
  <2>1. CASE changed[i] \in SourceIndex
    BY <2>1, Matches
  <2>2. CASE changed[i] \notin SourceIndex
    BY <2>2
  <2>. QED BY <2>1, <2>2
<1>2. AllMatches(t, changed) = FlattenSeq(ss)
  BY Zenon DEF AllMatches
<1>. HIDE DEF e
<1>3. /\ ss \in Seq(Seq(Matched)) /\ DOMAIN ss = DOMAIN changed
      /\ \A i \in DOMAIN changed : ss[i] = e(i)
  BY <1>1
<1>. HIDE DEF ss
<1>4. /\ FlattenSeq(ss) \in Seq(Matched)
      /\ ToSet(FlattenSeq(ss)) = UNION {ToSet(ss[i]) : i \in DOMAIN ss}
  BY <1>3, Flattened, Zenon
<1>5. \A i \in DOMAIN ss : ToSet(ss[i]) # {} <=> Links(changed[i])
  BY <1>1, <1>3, NoElements
<1>6. ToSet(FlattenSeq(ss)) # {} <=> \E i \in DOMAIN changed : Links(changed[i])
  <2>. DEFINE u(i) == ToSet(ss[i])
  <2>1. ToSet(FlattenSeq(ss)) = UNION {u(i) : i \in DOMAIN changed}
    BY <1>3, <1>4
  <2>2. \A i \in DOMAIN changed : u(i) # {} <=> Links(changed[i])
    BY <1>3, <1>5
  <2>. HIDE DEF u
  <2>. QED BY <2>1, <2>2
<1>7. FlattenSeq(ss) # <<>> <=> \E i \in DOMAIN changed : Links(changed[i])
  BY <1>4, <1>6, NoElements
<1>8. IsLinked(t, changed) <=> \E i \in DOMAIN changed : Links(changed[i])
  BY DEF IsLinked, ToSet
<1>. QED BY <1>2, <1>4, <1>7, <1>8

ReasonsOf(t, changed, request) == ReasonsFor(t, changed, request) \o SafetyFor(t)

\* The reasons for a test in a run without a feature: there are some if a change links or
\* maps it or it is a safety test, and the first one is that of a link if there is one.
LEMMA Reasons ==
    ASSUME NEW t, NEW changed \in Seq(All), NEW request, ~request.feature
    PROVE  LET reasons == ReasonsOf(t, changed, request)
           IN  /\ reasons \in Seq(Reasoned)
               /\ reasons # <<>> <=>
                      IsLinked(t, changed) \/ IsMapped(t, changed) \/ IsSafety(t)
               /\ IsLinked(t, changed) => Head(reasons).category \in {"direct", "dependency"}
               /\ reasons # <<>> => \/ Head(reasons).category \in {"direct", "dependency", "safety"}
                                    \/ IsMapped(t, changed)
               /\ IsSafety(t) => \E i \in DOMAIN reasons : reasons[i].safety
               /\ reasons # <<>> => Head(reasons) \in Reasoned
<1>. DEFINE m == IF t \in TestIndex THEN AllMatches(t, changed) ELSE <<>>
            f == IF t \in TestIndex THEN If(request.feature /\ t \in layout.feature, Reason("feature", FALSE)) ELSE <<>>
            mapping == {g \in ToSet(changed) : t \in layout.mapped[g]}
            e == If(mapping # {}, Reason("explicit", mapping \cap layout.sensitive # {}))
            p == SafetyFor(t)
<1>1. m \in Seq(Matched) /\ (m # <<>> <=> IsLinked(t, changed))
  <2>1. CASE t \in TestIndex
    BY <2>1, ChangedMatches
  <2>2. CASE t \notin TestIndex
    BY <2>2 DEF IsLinked, Linked
  <2>. QED BY <2>1, <2>2
<1>2. f = <<>>
  BY DEF If
<1>3. e \in Seq(Reasoned) /\ (e # <<>> <=> IsMapped(t, changed))
  <2>1. Reason("explicit", mapping \cap layout.sensitive # {}) \in Reasoned
    BY DEF Reason, Reasoned
  <2>2. mapping # {} <=> IsMapped(t, changed)
    BY DEF IsMapped
  <2>. QED BY <2>1, <2>2 DEF If
<1>4. /\ p \in Seq(Reasoned) /\ (p # <<>> <=> IsSafety(t))
      /\ p # <<>> => 1 \in DOMAIN p /\ p[1].safety /\ Head(p).category = "safety"
  <2>1. Reason("safety", TRUE) \in Reasoned /\ Reason("safety", TRUE).safety
        /\ Reason("safety", TRUE).category = "safety"
    BY DEF Reason, Reasoned
  <2>2. p = IF IsSafety(t) THEN <<Reason("safety", TRUE)>> ELSE <<>>
    BY DEF SafetyFor, If, IsSafety
  <2>. DEFINE r == Reason("safety", TRUE)
  <2>. HIDE DEF r, p
  <2>3. <<r>> \in Seq(Reasoned) /\ <<r>> # <<>> /\ 1 \in DOMAIN <<r>> /\ <<r>>[1] = r /\ Head(<<r>>) = r
    <3>1. r \in Reasoned
      BY <2>1 DEF r
    <3>. QED BY <3>1
  <2>4. p = IF IsSafety(t) THEN <<r>> ELSE <<>>
    BY <2>2 DEF r
  <2>5. r.safety /\ r.category = "safety"
    BY <2>1 DEF r
  <2>6. CASE IsSafety(t)
    BY <2>3, <2>4, <2>5, <2>6, Zenon
  <2>7. CASE ~IsSafety(t)
    BY <2>4, <2>7
  <2>. QED BY <2>6, <2>7
<1>5. ReasonsOf(t, changed, request) = (m \o e) \o p
  <2>1. ReasonsFor(t, changed, request) = (IF t \in TestIndex THEN m \o f ELSE <<>>) \o e
    BY Zenon DEF ReasonsFor, AllMatches
  <2>2. (IF t \in TestIndex THEN m \o f ELSE <<>>) = m
    <3>1. CASE t \in TestIndex
      <4>. HIDE DEF m, f
      <4>. QED BY <1>1, <1>2, <3>1
    <3>2. CASE t \notin TestIndex
      BY <3>2
    <3>. QED BY <3>1, <3>2
  <2>. QED BY <2>1, <2>2 DEF ReasonsOf
<1>6. m \in Seq(Reasoned) /\ (m # <<>> => Head(m).category \in {"direct", "dependency"})
  <2>. HIDE DEF m
  <2>1. Matched \subseteq Reasoned /\ \A r \in Matched : r.category \in {"direct", "dependency"}
    BY DEF Matched, Reasoned
  <2>. QED BY <1>1, <2>1
<1>7. e # <<>> => IsMapped(t, changed)
  BY <1>3
<1>. HIDE DEF m, f, e, p
<1>8. /\ m \o e \in Seq(Reasoned) /\ (m \o e # <<>> <=> m # <<>> \/ e # <<>>)
      /\ m # <<>> => Head(m \o e) = Head(m)
      /\ m = <<>> => m \o e = e
  BY <1>3, <1>6, JoinedTwo
<1>. DEFINE h == m \o e
            rs == h \o p
<1>9. h \in Seq(Reasoned)
  BY <1>8
<1>. HIDE DEF h
<1>10. /\ rs \in Seq(Reasoned) /\ (rs # <<>> <=> h # <<>> \/ p # <<>>)
       /\ h # <<>> => Head(rs) = Head(h)
       /\ h = <<>> => rs = p
  BY <1>4, <1>9, JoinedTwo
<1>11. p # <<>> => \E i \in DOMAIN rs : rs[i].safety
  <2>1. p # <<>> => Len(h) + 1 \in DOMAIN rs /\ rs[Len(h) + 1] = p[1]
    BY <1>4, <1>9
  <2>. QED BY <1>4, <2>1
<1>12. rs # <<>> => Head(rs) \in Reasoned
  BY <1>10
<1>13. IsLinked(t, changed) => Head(rs).category \in {"direct", "dependency"}
  BY <1>1, <1>6, <1>8, <1>10 DEF h
<1>14. rs # <<>> => \/ Head(rs).category \in {"direct", "dependency", "safety"}
                    \/ IsMapped(t, changed)
  BY <1>3, <1>4, <1>6, <1>8, <1>10 DEF h
<1>15. rs # <<>> <=> IsLinked(t, changed) \/ IsMapped(t, changed) \/ IsSafety(t)
  BY <1>1, <1>3, <1>4, <1>8, <1>10 DEF h
<1>16. ReasonsOf(t, changed, request) = rs
  BY <1>5 DEF h
<1>17. IsSafety(t) => \E i \in DOMAIN rs : rs[i].safety
  BY <1>4, <1>11
<1>. HIDE DEF rs
<1>. QED BY <1>10, <1>12, <1>13, <1>14, <1>15, <1>16, <1>17

\* What FastRunsTheChange says of a command.
RightTargets(k) ==
    LET changed == ToSet(k.changed)
        linked == {t \in TestFiles : \E s \in changed \cap SourceIndex : Linked(t, s)}
        mapped == UNION {layout.mapped[f] : f \in changed}
        safety == layout.always \cup (layout.gated \cap TestIndex)
        targets == ToSet(k.targets)
    IN  /\ (linked \ layout.integration) \cup safety \subseteq targets
        /\ targets \subseteq linked \cup mapped \cup safety
        /\ TestIndex \ (targets \cup k.deferred) \subseteq mapped \cup layout.integration

\* The plan of a fast run is right for the tree it is built from (build_plan).
LEMMA SelectionIsRight ==
    ASSUME layout \in Layout, NEW changed \in Seq(All),
           NEW request, request.mode = "fast", ~request.feature, request.node = Absent,
           NEW k, k.changed = changed,
           k.targets = Targets(request, Selection(request, changed, <<>>), <<>>),
           k.deferred = Selection(request, changed, <<>>).deferred
    PROVE  RightTargets(k)
<1>. DEFINE reasons == [t \in TestFiles |-> ReasonsFor(t, changed, request) \o SafetyFor(t)]
            matched == {t \in TestFiles : reasons[t] # <<>>}
            of(categories) == {t \in matched : Category(t, reasons[t]) \in categories}
            fast == of({"direct", "dependency", "safety"})
                    \cup {t \in matched : \E i \in DOMAIN reasons[t] : reasons[t][i].safety}
            focused == fast \cup of({"feature", "explicit", "integration"})
                            \cup ({request.node} \ {Absent}) \cup ToSet(<<>>)
            selection == Selection(request, changed, <<>>)
<1>1. selection.fast = fast /\ selection.deferred = TestIndex \ (fast \cup focused)
  BY DEF Selection
<1>2. focused = fast \cup of({"feature", "explicit", "integration"})
  <2>1. {request.node} \ {Absent} = {} /\ ToSet(<<>>) = {}
    BY DEF ToSet
  <2>. HIDE DEF fast, of
  <2>. QED BY <2>1
<1>3. ASSUME NEW t \in TestFiles
      PROVE  /\ reasons[t] # <<>> <=> IsLinked(t, changed) \/ IsMapped(t, changed) \/ IsSafety(t)
             /\ IsLinked(t, changed) => Head(reasons[t]).category \in {"direct", "dependency"}
             /\ reasons[t] # <<>> => \/ Head(reasons[t]).category \in {"direct", "dependency", "safety"}
                                     \/ IsMapped(t, changed)
             /\ IsSafety(t) => \E i \in DOMAIN reasons[t] : reasons[t][i].safety
  <2>1. reasons[t] = ReasonsOf(t, changed, request)
    BY Zenon DEF ReasonsOf
  <2>. HIDE DEF reasons
  <2>. QED BY <2>1, Reasons
<1>4. matched \subseteq TestFiles /\ fast \subseteq matched /\ TestFiles \subseteq All
  BY TestsAssumption
<1>5. ToSet(k.targets) = fast
  <2>1. k.targets = OrderSelected(selection.fast, selection.category)
    BY DEF Targets
  <2>2. fast \in SUBSET All
    BY <1>4
  <2>. HIDE DEF fast, selection
  <2>. QED BY <1>1, <2>1, <2>2, Ordered
<1>6. k.deferred = TestIndex \ (fast \cup focused)
  BY <1>1
<1>. HIDE DEF reasons
<1>7. \A t \in TestFiles : IsLinked(t, changed) /\ t \notin layout.integration => t \in fast
  <2>. SUFFICES ASSUME NEW t \in TestFiles, IsLinked(t, changed), t \notin layout.integration
                PROVE  t \in of({"direct", "dependency", "safety"})
    OBVIOUS
  <2>1. t \in matched /\ Category(t, reasons[t]) = Head(reasons[t]).category
    BY <1>3 DEF Category
  <2>. QED BY <1>3, <2>1
<1>8. \A t \in TestFiles : IsSafety(t) => t \in fast
  BY <1>3
<1>9. \A t \in fast : IsLinked(t, changed) \/ IsMapped(t, changed) \/ IsSafety(t)
  BY <1>3
<1>10. \A t \in focused \ fast : IsMapped(t, changed) \/ t \in layout.integration
  <2>. SUFFICES ASSUME NEW t \in of({"feature", "explicit", "integration"}), t \notin layout.integration
                PROVE  IsMapped(t, changed)
    BY <1>2
  <2>1. t \in matched /\ t \in TestFiles /\ Category(t, reasons[t]) = Head(reasons[t]).category
        /\ Category(t, reasons[t]) \in {"feature", "explicit", "integration"}
    BY DEF Category
  <2>. QED BY <1>3, <2>1
<1>11. TestIndex \subseteq TestFiles /\ layout.always \subseteq TestFiles
  BY DEF TestIndex, Layout
<1>. HIDE DEF fast, focused, selection
<1>. QED BY <1>4, <1>5, <1>6, <1>7, <1>8, <1>9, <1>10, <1>11
         DEF RightTargets, IsLinked, IsMapped, IsSafety

(***************************************************************************)
(* What a command has planned.                                             *)
(***************************************************************************)
\* The request of a command and what it has detected, and what a fast run has planned.
Planned(k, at) ==
    /\ Fields \subseteq DOMAIN k
    /\ at # "idle" => k.request \in Requests
    /\ at # "idle" /\ k.request.mode = "fast" => k.accepted = <<>>
    /\ at = "changes" => k.accepted \in Seq(All)
    /\ at \in {"select", "check", "pytest", "record"} => k.changed \in Seq(All)
    /\ at \in {"check", "pytest", "record"} /\ k.edits = edits /\ k.request.mode = "fast" =>
           RightTargets(k)

PlanInv ==
    /\ IInv /\ layout \in Layouts
    /\ \A c \in Commands : Planned(cmd[c], pc[c])

\* Initially nobody has planned anything.
LEMMA InitPlan == Init => PlanInv
<1>1. ASSUME Init, NEW c \in Commands PROVE Planned(cmd[c], pc[c])
  BY <1>1 DEF Init, Planned, Idle, Fields
<1>. QED BY <1>1, InitInv DEF Init, PlanInv

\* While nobody writes, a plan stays right.
LEMMA StillPlanned ==
    ASSUME Unwritten
    PROVE  \A k, at : Planned(k, at) => Planned(k, at)'
<1>1. TestIndex' = TestIndex /\ SourceIndex' = SourceIndex
  BY DEF Unwritten, TestIndex, SourceIndex
<1>2. \A f : Imports(f)' = Imports(f)
  BY DEF Unwritten, Imports, Parses
<1>3. \A t, s : Touches(t, s)' <=> Touches(t, s)
  BY <1>2 DEF Unwritten, Touches
<1>4. \A s : Dependents(s)' = Dependents(s)
  BY <1>1, <1>2 DEF Dependents
<1>5. \A t, s : Linked(t, s)' <=> Linked(t, s)
  BY <1>1, <1>3, <1>4 DEF Linked
<1>6. \A k : RightTargets(k)' <=> RightTargets(k)
  BY <1>1, <1>5 DEF RightTargets, Unwritten
<1>. QED BY <1>6 DEF Planned, Unwritten

\* A step of one command that does not change what the others have planned.
LEMMA CommandPlans ==
    ASSUME PlanInv, Unwritten, NEW c \in Commands,
           \A d \in Commands \ {c} : pc'[d] = pc[d] /\ cmd'[d] = cmd[d],
           Planned(cmd[c], pc[c])'
    PROVE  \A d \in Commands : Planned(cmd[d], pc[d])'
BY StillPlanned DEF PlanInv

\* A command that goes on with other fields.
LEMMA GoesOnPlans ==
    ASSUME PlanInv, Unwritten, NEW c \in Commands, NEW label, NEW new,
           pc' = [pc EXCEPT ![c] = label], cmd' = [cmd EXCEPT ![c] = new], Planned(new, label)
    PROVE  \A d \in Commands : Planned(cmd[d], pc[d])'
<1>1. /\ pc'[c] = label /\ cmd'[c] = new
      /\ \A d \in Commands \ {c} : pc'[d] = pc[d] /\ cmd'[d] = cmd[d]
  BY DEF PlanInv, IInv, Shape
<1>2. Planned(new, label)'
  BY StillPlanned
<1>. QED BY <1>1, <1>2, CommandPlans

\* A command that ends has planned nothing.
LEMMA EndPlans ==
    ASSUME PlanInv, Unwritten, NEW c \in Commands, End(c)
    PROVE  \A d \in Commands : Planned(cmd[d], pc[d])'
<1>1. Planned(Idle, "idle")
  BY DEF Planned, Idle, Fields
<1>. QED BY <1>1, GoesOnPlans DEF End

\* A command that begins has its request, and a fast run is given no files.
LEMMA BeginPlans ==
    ASSUME PlanInv, NEW c \in Commands, Begin(c)
    PROVE  \A d \in Commands : Planned(cmd[d], pc[d])'
<1>1. Unwritten /\ DOMAIN pc = Commands /\ DOMAIN cmd = Commands
  BY DEF Begin, Unwritten, Developer, PlanInv, IInv, Shape
<1>2. PICK request \in Requests :
        \/ UNCHANGED <<pc, cmd>>
        \/ /\ request.mode = "focused" => ~Rejected(request.paths)
           /\ pc' = [pc EXCEPT ![c] = "changes"]
           /\ cmd' = [cmd EXCEPT ![c] = [Idle EXCEPT !.request = request,
                                            !.accepted = Accepted(request.paths)]]
  BY DEF Begin
<1>3. CASE UNCHANGED <<pc, cmd>>
  BY <1>1, <1>3, StillPlanned DEF PlanInv
<1>4. CASE /\ request.mode = "focused" => ~Rejected(request.paths)
           /\ pc' = [pc EXCEPT ![c] = "changes"]
           /\ cmd' = [cmd EXCEPT ![c] = [Idle EXCEPT !.request = request,
                                            !.accepted = Accepted(request.paths)]]
  <2>. DEFINE accepted == Accepted(request.paths)
  <2>. PICK new : new = [Idle EXCEPT !.request = request, !.accepted = accepted]
    OBVIOUS
  <2>1. request.paths \in Seq(All \cup {Absent})
        /\ (request.mode # "focused" => request.paths = <<>>)
    BY TestsAssumption DEF Request, Takes
  <2>2. request.paths \in Seq(All)
    <3>1. CASE request.mode = "focused"
      <4>1. \A i \in DOMAIN request.paths : request.paths[i] # Absent
        BY <1>4, <3>1 DEF Rejected
      <4>. QED BY <2>1, <4>1
    <3>2. CASE request.mode # "focused"
      BY <2>1, <3>2
    <3>. QED BY <3>1, <3>2
  <2>3. accepted \in Seq(All) /\ (request.mode = "fast" => accepted = <<>>)
    BY <2>1, <2>2, Mentioned DEF Accepted
  <2>. HIDE DEF accepted
  <2>4. new.request = request /\ new.accepted = accepted /\ Fields \subseteq DOMAIN new
    BY DEF Idle, Fields
  <2>5. Planned(new, "changes")'
    BY <2>3, <2>4 DEF Planned
  <2>6. /\ cmd'[c] = new /\ pc'[c] = "changes"
        /\ \A d \in Commands \ {c} : pc'[d] = pc[d] /\ cmd'[d] = cmd[d]
    BY <1>1, <1>4 DEF accepted
  <2>. QED BY <1>1, <2>5, <2>6, StillPlanned DEF PlanInv
<1>. QED BY <1>2, <1>3, <1>4

\* It detects the changes (change_detection.py).
LEMMA DetectPlans ==
    ASSUME PlanInv, NEW c \in Commands, DetectChanges(c)
    PROVE  \A d \in Commands : Planned(cmd[d], pc[d])'
<1>. DEFINE k == cmd[c]
            changed == ChangedFiles(k.request, k.accepted)
            tree == Fingerprint(k.request, changed)
<1>. PICK label : label = IF k.request.mode = "full" THEN "strict" ELSE "select"
  OBVIOUS
<1>. PICK new : new = [k EXCEPT !.changed = changed, !.tree = tree, !.edits = edits]
  OBVIOUS
<1>1. Unwritten /\ pc[c] = "changes" /\ Planned(k, "changes") /\ c \in DOMAIN cmd
  BY DEF DetectChanges, Unwritten, Developer, PlanInv, IInv, Shape
<1>2. pc' = [pc EXCEPT ![c] = label] /\ cmd' = [cmd EXCEPT ![c] = new]
  BY <1>1 DEF DetectChanges
<1>3. changed \in Seq(All)
  BY <1>1, ChangesAreShown DEF Planned
<1>. HIDE DEF changed
<1>4. /\ Fields \subseteq DOMAIN new /\ new.request = k.request /\ new.accepted = k.accepted
      /\ new.changed = changed
  BY <1>1 DEF Planned, Fields
<1>5. Planned(new, label)
  BY <1>1, <1>3, <1>4 DEF Planned
<1>. QED BY <1>1, <1>2, <1>5, GoesOnPlans

\* It builds the plan: a fast run has neither a feature nor a node nor files of its own.
LEMMA BuildPlans ==
    ASSUME PlanInv, NEW c \in Commands, BuildPlan(c)
    PROVE  \A d \in Commands : Planned(cmd[d], pc[d])'
<1>. DEFINE k == cmd[c]
            selection == Selection(k.request, k.changed, k.accepted)
            targets == Targets(k.request, selection, k.accepted)
            deferred == selection.deferred
            warned == selection.warned
<1>. PICK label : label = IF k.request.mode = "plan" THEN "planned" ELSE "check"
  OBVIOUS
<1>. PICK new : new = [k EXCEPT !.targets = targets, !.deferred = deferred, !.warned = warned]
  OBVIOUS
<1>1. Unwritten /\ pc[c] = "select" /\ Planned(k, "select") /\ c \in DOMAIN cmd
  BY DEF BuildPlan, Unwritten, Developer, PlanInv, IInv, Shape
<1>2. pc' = [pc EXCEPT ![c] = label] /\ cmd' = [cmd EXCEPT ![c] = new]
  BY <1>1 DEF BuildPlan
<1>. HIDE DEF targets, deferred, warned
<1>3. /\ Fields \subseteq DOMAIN new /\ new.request = k.request /\ new.accepted = k.accepted
      /\ new.changed = k.changed /\ new.edits = k.edits
      /\ new.targets = targets /\ new.deferred = deferred
  BY <1>1 DEF Planned, Fields
<1>4. k.request \in Requests /\ k.changed \in Seq(All) /\ layout \in Layout
  BY <1>1, TestsAssumption DEF Planned, PlanInv
<1>5. k.request.mode = "fast" => RightTargets(new)
  <2>. SUFFICES ASSUME k.request.mode = "fast" PROVE RightTargets(new)
    OBVIOUS
  <2>1. ~k.request.feature /\ k.request.node = Absent
    BY <1>4, TestsAssumption DEF Takes
  <2>2. k.accepted = <<>>
    BY <1>1 DEF Planned
  <2>3. new.targets = Targets(k.request, Selection(k.request, k.changed, <<>>), <<>>)
        /\ new.deferred = Selection(k.request, k.changed, <<>>).deferred
    BY <1>3, <2>2 DEF targets, deferred
  <2>4. new.changed = k.changed
    BY <1>3
  <2>. HIDE DEF k
  <2>. QED BY <1>4, <2>1, <2>3, <2>4, SelectionIsRight
<1>6. Planned(new, label)
  BY <1>1, <1>3, <1>5 DEF Planned
<1>. QED BY <1>1, <1>2, <1>6, GoesOnPlans

\* What comes after the plan leaves it as it is.
LEMMA SamePlan ==
    ASSUME NEW k, NEW at \in {"check", "pytest", "record"}, Planned(k, at),
           NEW new, Fields \subseteq DOMAIN new,
           \A f \in Fields \ {"errors", "run", "next", "met"} : new[f] = k[f],
           NEW label \in {"pytest", "record"}
    PROVE  Planned(new, label)
<1>1. /\ new.request = k.request /\ new.accepted = k.accepted /\ new.changed = k.changed
      /\ new.edits = k.edits /\ new.targets = k.targets /\ new.deferred = k.deferred
  BY DEF Fields
<1>2. RightTargets(k) => RightTargets(new)
  BY <1>1 DEF RightTargets
<1>. QED BY <1>1, <1>2 DEF Planned

\* It compiles and imports what changed (_run_selected).
LEMMA CheckPlans ==
    ASSUME PlanInv, NEW c \in Commands, Check(c)
    PROVE  \A d \in Commands : Planned(cmd[d], pc[d])'
<1>1. Unwritten /\ pc[c] = "check" /\ Planned(cmd[c], "check") /\ c \in DOMAIN cmd
  BY DEF Check, Unwritten, Developer, PlanInv, IInv, Shape
<1>2. CASE End(c)
  BY <1>1, <1>2, EndPlans
<1>3. CASE /\ pc' = [pc EXCEPT ![c] = "pytest"]
           /\ cmd' = [cmd EXCEPT ![c].errors = ImportErrors(c)]
  <2>. DEFINE errors == ImportErrors(c)
  <2>. PICK new : new = [cmd[c] EXCEPT !.errors = errors]
    OBVIOUS
  <2>1. cmd' = [cmd EXCEPT ![c] = new]
    BY <1>1, <1>3
  <2>. HIDE DEF errors
  <2>2. Fields \subseteq DOMAIN new
        /\ \A f \in Fields \ {"errors", "run", "next", "met"} : new[f] = cmd[c][f]
    BY <1>1 DEF Planned, Fields
  <2>3. Planned(new, "pytest")
    BY <1>1, <2>2, SamePlan
  <2>. QED BY <1>1, <1>3, <2>1, <2>3, GoesOnPlans
<1>. QED BY <1>2, <1>3 DEF Check

\* It runs pytest (execution.py).
LEMMA RunPlans ==
    ASSUME PlanInv, NEW c \in Commands, RunPytest(c)
    PROVE  \A d \in Commands : Planned(cmd[d], pc[d])'
<1>1. /\ Unwritten /\ pc[c] = "pytest" /\ Planned(cmd[c], "pytest") /\ c \in DOMAIN cmd
      /\ pc' = [pc EXCEPT ![c] = "record"]
  BY DEF RunPytest, Unwritten, Developer, PlanInv, IInv, Shape
<1>2. PICK run :
        cmd' = [cmd EXCEPT ![c].run = run, ![c].met = cmd[c].tree \in Fingerprints,
                 ![c].errors = @ \cup (IF run.collected THEN {} ELSE {"zero"})
                                 \cup (IF run.returncode = 124 THEN {"timeout"} ELSE {})]
  BY DEF RunPytest
<1>. DEFINE errors == cmd[c].errors \cup (IF run.collected THEN {} ELSE {"zero"})
                                    \cup (IF run.returncode = 124 THEN {"timeout"} ELSE {})
            met == cmd[c].tree \in Fingerprints
<1>. PICK new : new = [cmd[c] EXCEPT !.run = run, !.met = met, !.errors = errors]
  OBVIOUS
<1>3. cmd' = [cmd EXCEPT ![c] = new]
  BY <1>1, <1>2
<1>. HIDE DEF errors, met
<1>4. Fields \subseteq DOMAIN new
      /\ \A f \in Fields \ {"errors", "run", "next", "met"} : new[f] = cmd[c][f]
  BY <1>1 DEF Planned, Fields
<1>5. Planned(new, "record")
  BY <1>1, <1>4, SamePlan
<1>. QED BY <1>1, <1>3, <1>5, GoesOnPlans

\* It records the next file (history.py).
LEMMA RecordPlans ==
    ASSUME PlanInv, NEW c \in Commands, RecordResult(c)
    PROVE  \A d \in Commands : Planned(cmd[d], pc[d])'
<1>1. /\ Unwritten /\ UNCHANGED pc /\ pc[c] = "record" /\ Planned(cmd[c], "record")
      /\ DOMAIN cmd = Commands /\ cmd' = [cmd EXCEPT ![c].next = @ + 1]
  BY DEF RecordResult, Unwritten, Developer, PlanInv, IInv, Shape
<1>. PICK new : new = [cmd[c] EXCEPT !.next = @ + 1]
  OBVIOUS
<1>2. cmd'[c] = new /\ \A d \in Commands \ {c} : cmd'[d] = cmd[d]
  BY <1>1
<1>3. Fields \subseteq DOMAIN new
      /\ \A f \in Fields \ {"errors", "run", "next", "met"} : new[f] = cmd[c][f]
  BY <1>1 DEF Planned, Fields
<1>4. Planned(new, "record")
  BY <1>1, <1>3, SamePlan
<1>5. Planned(new, "record")'
  BY <1>1, <1>4, StillPlanned
<1>. QED BY <1>1, <1>2, <1>5, CommandPlans

\* After an edit, a staging or a commit no plan is of the tree as it is.
LEMMA WrittenPlans ==
    ASSUME PlanInv, Written
    PROVE  \A d \in Commands : Planned(cmd[d], pc[d])'
<1>1. \A d \in Commands : cmd[d].edits \in 0 .. edits /\ edits \in Nat
  BY DEF PlanInv, IInv, Knows, Shape
<1>2. \A d \in Commands : cmd[d].edits # edits'
  BY <1>1 DEF Written
<1>. QED BY <1>2 DEF PlanInv, Planned, Written

\* The invariant is inductive.
LEMMA StepPlan == PlanInv /\ [Next]_vars => PlanInv'
<1>. SUFFICES ASSUME PlanInv, [Next]_vars PROVE PlanInv'
  OBVIOUS
<1>1. IInv'
  BY StepInv DEF PlanInv
<1>2. layout' = layout
  BY DEF Next, vars, Developer, Edit, Add, Commit, Begin, DetectChanges, BuildPlan, ShowPlan, Check,
         RunPytest, RecordResult, Finish, RunStrict, Kill
<1>3. CASE (\E e \in Edits : Edit(e[1], e[2])) \/ Add \/ Commit
  BY <1>1, <1>2, <1>3, DeveloperWrites, WrittenPlans DEF PlanInv
<1>4. ASSUME NEW c \in Commands,
             \/ Begin(c) \/ DetectChanges(c) \/ BuildPlan(c) \/ ShowPlan(c) \/ Check(c)
             \/ RunPytest(c) \/ RecordResult(c) \/ Finish(c) \/ RunStrict(c) \/ Kill(c)
      PROVE  \A d \in Commands : Planned(cmd[d], pc[d])'
  <2>1. CASE ShowPlan(c) \/ Finish(c) \/ RunStrict(c) \/ Kill(c)
    <3>1. Unwritten /\ End(c)
      BY <2>1 DEF ShowPlan, Finish, RunStrict, Kill, Unwritten, Developer
    <3>. QED BY <3>1, EndPlans
  <2>. QED BY <1>4, <2>1, BeginPlans, DetectPlans, BuildPlans, CheckPlans, RunPlans, RecordPlans
<1>5. CASE UNCHANGED vars
  <2>1. Unwritten /\ UNCHANGED <<pc, cmd>>
    BY <1>5 DEF vars, Unwritten
  <2>2. \A d \in Commands : Planned(cmd[d], pc[d])'
    BY <2>1, StillPlanned DEF PlanInv
  <2>. QED BY <1>1, <1>2, <2>2 DEF PlanInv
<1>. QED BY <1>1, <1>2, <1>3, <1>4, <1>5 DEF Next, PlanInv

(***************************************************************************)
(* Types.                                                                  *)
(***************************************************************************)
Labels == {"idle", "changes", "select", "planned", "check", "pytest", "record", "strict"}
Codes == {0, 1, 2, 4, 5, 124, 139}

RowTyped(row) == row.result \in {"passed", "failed"} /\ row.met \in BOOLEAN
TreeTyped ==
    /\ layout \in Layouts
    /\ disk \in [All -> Content]
    /\ index \in [All -> Content] /\ head \in [All -> Content]
    /\ edits \in 0 .. MaxEdits /\ runs \in 0 .. MaxRuns /\ faults \in 0 .. MaxFaults
    /\ died \subseteq TestFiles
    /\ \A f \in All : history[f] = Absent \/ RowTyped(history[f])

\* A command: what it is given to run, how far it has recorded that, and how its run ended.
Typed(k, at) ==
    /\ at \in Labels
    /\ (at = "idle") = (k = Idle)
    /\ k.targets \in Seq(All) /\ ToSet(k.changed) \subseteq All
    /\ at \in {"changes", "select"} => k.accepted \in Seq(All)
    /\ k.next \in 1 .. Len(k.targets) + 1 /\ (at # "record" => k.next = 1)
    /\ at = "record" => k.run.returncode \in Codes
    /\ at = "record" => \A f \in ToSet(k.targets) : k.run.items[f] \in {"none", "passed", "failed"}

TypeInv ==
    /\ PlanInv /\ TreeTyped
    /\ pc \in [Commands -> Labels]
    /\ \A c \in Commands : Typed(cmd[c], pc[c]) /\ report[c].exit \in Codes

\* The types hold initially.
LEMMA TypeInit == Init => TypeInv
<1>. SUFFICES ASSUME Init PROVE TypeInv
  OBVIOUS
<1>1. TreeTyped
  BY TestsAssumption DEF Init, TreeTyped, Content, Original
<1>2. Typed(Idle, "idle")
  <2>1. /\ Idle.targets = <<>> /\ Idle.changed = <<>> /\ Idle.next = 1
    BY DEF Idle
  <2>2. ToSet(<<>>) = {} /\ Len(<<>>) = 0 /\ <<>> \in Seq(All)
    BY DEF ToSet
  <2>. QED BY <2>1, <2>2 DEF Typed, Labels
<1>3. ASSUME NEW c \in Commands
      PROVE  Typed(cmd[c], pc[c]) /\ report[c].exit \in Codes
  BY <1>2 DEF Init, NoReport, Codes
<1>4. pc \in [Commands -> Labels]
  BY DEF Init, Labels
<1>. QED BY <1>1, <1>3, <1>4, InitPlan DEF TypeInv

\* How a run may end: with a fault only if there may be one, and the interpreter dies
\* among tests that passed only in a test file (run_pytest).
LEMMA RunsEnd ==
    ASSUME NEW targets, NEW run \in PytestRuns(targets)
    PROVE  /\ run.returncode \in Codes
           /\ run.returncode \in {124, 139} => faults # MaxFaults
           /\ run.returncode = 139 =>
                  \A f \in DOMAIN run.items : run.items[f] = "passed" => f \in TestFiles
<1>1. Finished(targets).returncode \in {0, 1, 2, 4, 5}
  BY DEF Finished
<1>2. ASSUME NEW f \in ToSet(targets), Finished(targets).items[f] = "passed"
      PROVE  HoldsTests(f)
  BY <1>2 DEF Finished
<1>3. CASE run = Finished(targets)
  BY <1>1, <1>3 DEF Codes
<1>4. CASE run = TimedOut(targets) /\ faults # MaxFaults
  BY <1>4 DEF TimedOut, Codes
<1>5. CASE /\ faults # MaxFaults
           /\ \E i \in DOMAIN targets : HoldsTests(targets[i]) /\ run \in Died(targets, i)
  <2>1. PICK i \in DOMAIN targets : HoldsTests(targets[i]) /\ run \in Died(targets, i)
    BY <1>5
  <2>2. /\ run.returncode = 139 /\ DOMAIN run.items = ToSet(targets)
        /\ \A f \in ToSet(targets) : run.items[f] = "passed" =>
              f = targets[i] \/ Finished(targets).items[f] = "passed"
    BY <2>1 DEF Died
  <2>. QED BY <1>2, <1>5, <2>1, <2>2 DEF Codes, HoldsTests
<1>. QED BY <1>3, <1>4, <1>5 DEF PytestRuns

\* The tree, the counters and the history keep their types.
LEMMA TreeStep ==
    ASSUME TypeInv, [Next]_vars
    PROVE  TreeTyped'
<1>1. MaxEdits \in Nat /\ MaxRuns \in Nat /\ MaxFaults \in Nat
      /\ edits \in Nat /\ runs \in Nat /\ faults \in Nat
      /\ edits <= MaxEdits /\ runs <= MaxRuns /\ faults <= MaxFaults
  BY TestsAssumption DEF TypeInv, TreeTyped
<1>2. ASSUME NEW e \in Edits, Edit(e[1], e[2]) PROVE TreeTyped'
  <2>1. e[1] \in All /\ e[2] \in Content
    BY TestsAssumption
  <2>2. disk' \in [All -> Content] /\ edits' \in 0 .. MaxEdits
    BY <1>1, <1>2, <2>1 DEF Edit, TypeInv, TreeTyped
  <2>3. UNCHANGED <<layout, index, head, runs, faults, died, history>>
    BY <1>2 DEF Edit
  <2>. QED BY <2>2, <2>3 DEF TypeInv, TreeTyped
<1>3. ASSUME Add \/ Commit PROVE TreeTyped'
  BY <1>1, <1>3 DEF Add, Commit, TypeInv, TreeTyped
<1>4. ASSUME NEW c \in Commands, Begin(c) PROVE TreeTyped'
  BY <1>1, <1>4 DEF Begin, Developer, TypeInv, TreeTyped
<1>5. ASSUME NEW c \in Commands, DetectChanges(c) \/ BuildPlan(c) \/ ShowPlan(c) \/ Finish(c)
      PROVE  TreeTyped'
  BY <1>5 DEF DetectChanges, BuildPlan, ShowPlan, Finish, Developer, TypeInv, TreeTyped
<1>6. ASSUME NEW c \in Commands, Check(c) \/ Kill(c) PROVE TreeTyped'
  <2>1. UNCHANGED <<layout, disk, index, head, edits, history, died, runs>>
        /\ (faults' = faults \/ (faults' = faults + 1 /\ faults < MaxFaults))
    BY <1>6 DEF Check, Kill, Developer
  <2>. QED BY <1>1, <2>1 DEF TypeInv, TreeTyped
<1>7. ASSUME NEW c \in Commands, RunPytest(c) PROVE TreeTyped'
  <2>1. PICK run \in PytestRuns(cmd[c].targets) :
          /\ faults' = IF run.returncode \in {124, 139} THEN faults + 1 ELSE faults
          /\ died' = IF run.returncode = 139
                     THEN died \cup {f \in DOMAIN run.items : run.items[f] = "passed"} ELSE died
    BY <1>7 DEF RunPytest
  <2>2. faults' \in 0 .. MaxFaults
    BY <1>1, <2>1, RunsEnd
  <2>3. died' \subseteq TestFiles
    BY <2>1, RunsEnd DEF TypeInv, TreeTyped
  <2>4. UNCHANGED <<layout, disk, index, head, edits, history, runs>>
    BY <1>7 DEF RunPytest, Developer
  <2>. QED BY <2>2, <2>3, <2>4 DEF TypeInv, TreeTyped
<1>8. ASSUME NEW c \in Commands, RunStrict(c) PROVE TreeTyped'
  <2>1. PICK run \in PytestRuns(layout.strict) :
          faults' = IF run.returncode \in {124, 139} THEN faults + 1 ELSE faults
    BY <1>8 DEF RunStrict
  <2>2. faults' \in 0 .. MaxFaults
    BY <1>1, <2>1, RunsEnd
  <2>3. UNCHANGED <<layout, disk, index, head, edits, history, died, runs>>
    BY <1>8 DEF RunStrict, Developer
  <2>. QED BY <2>2, <2>3 DEF TypeInv, TreeTyped
<1>9. ASSUME NEW c \in Commands, RecordResult(c) PROVE TreeTyped'
  <2>. DEFINE k == cmd[c]
              f == k.targets[k.next]
              row == [result |-> RowResult(k.run, f), tree |-> k.tree, met |-> k.met]
  <2>1. /\ pc[c] = "record" /\ Typed(k, "record") /\ Knows(k, "record")
        /\ k.next \in DOMAIN k.targets /\ DOMAIN history = All
        /\ history' = [history EXCEPT ![f] = row]
    BY <1>9 DEF RecordResult, TypeInv, PlanInv, IInv, Shape
  <2>2. f \in ToSet(k.targets)
    BY <2>1 DEF ToSet
  <2>3. RowResult(k.run, f) \in {"passed", "failed"}
    BY <2>1, <2>2 DEF Typed, RowResult
  <2>4. k.met \in BOOLEAN
    BY <2>1 DEF Knows
  <2>5. RowTyped(row)
    BY <2>3, <2>4 DEF RowTyped
  <2>. HIDE DEF row, f
  <2>6. \A g \in All : history'[g] = Absent \/ RowTyped(history'[g])
    BY <2>1, <2>5 DEF TypeInv, TreeTyped
  <2>7. UNCHANGED <<layout, disk, index, head, edits, died, runs, faults>>
    BY <1>9 DEF RecordResult, Developer
  <2>. QED BY <2>6, <2>7 DEF TypeInv, TreeTyped
<1>10. CASE UNCHANGED vars
  BY <1>10 DEF vars, TypeInv, TreeTyped
<1>. QED BY <1>2, <1>3, <1>4, <1>5, <1>6, <1>7, <1>8, <1>9, <1>10 DEF Next

\* What is given to pytest are files of the repository.
LEMMA TargetsAreFiles ==
    ASSUME NEW request \in Requests, NEW changed, NEW accepted \in Seq(All)
    PROVE  Targets(request, Selection(request, changed, accepted), accepted) \in Seq(All)
<1>. DEFINE selection == Selection(request, changed, accepted)
<1>1. /\ \A t \in selection.fast : t \in TestFiles
      /\ \A t \in selection.focused :
            t \in TestFiles \/ t \in {request.node} \ {Absent} \/ t \in ToSet(accepted)
  BY DEF Selection
<1>2. ToSet(accepted) \subseteq All /\ {request.node} \ {Absent} \subseteq All /\ TestFiles \subseteq All
  BY TestsAssumption DEF Request, ToSet
<1>3. selection.fast \in SUBSET All /\ selection.focused \in SUBSET All
  BY <1>1, <1>2
<1>. HIDE DEF selection
<1>4. /\ OrderSelected(selection.fast, selection.category) \in Seq(All)
      /\ OrderSelected(IF selection.focused # {} THEN selection.focused ELSE selection.fast,
                       selection.category) \in Seq(All)
  BY <1>3, Ordered
<1>5. Targets(request, selection, accepted) \in Seq(All)
  BY <1>4 DEF Targets
<1>. QED BY <1>5 DEF selection

\* A command that has its request is not the idle one.
LEMMA Busy ==
    ASSUME NEW k, k.request \in Requests
    PROVE  k # Idle
BY TestsAssumption DEF Idle

CommandsTyped ==
    /\ pc \in [Commands -> Labels]
    /\ \A c \in Commands : Typed(cmd[c], pc[c]) /\ report[c].exit \in Codes

\* A command goes on.
LEMMA GoesOnTyped ==
    ASSUME TypeInv, NEW c \in Commands, NEW label, NEW new, Typed(new, label), UNCHANGED report,
           pc' = [pc EXCEPT ![c] = label], cmd' = [cmd EXCEPT ![c] = new]
    PROVE  CommandsTyped'
<1>1. DOMAIN cmd = Commands /\ label \in Labels
  BY DEF TypeInv, PlanInv, IInv, Shape, Typed
<1>. QED BY <1>1 DEF TypeInv, CommandsTyped

\* A command ends, with or without a report.
LEMMA EndTyped ==
    ASSUME TypeInv, NEW c \in Commands, End(c), NEW r,
           UNCHANGED report \/ (report' = [report EXCEPT ![c] = r] /\ r.exit \in Codes)
    PROVE  CommandsTyped'
<1>1. Typed(Idle, "idle")
  <2>1. /\ Idle.targets = <<>> /\ Idle.changed = <<>> /\ Idle.next = 1
    BY DEF Idle
  <2>2. ToSet(<<>>) = {} /\ Len(<<>>) = 0 /\ <<>> \in Seq(All)
    BY DEF ToSet
  <2>. QED BY <2>1, <2>2 DEF Typed, Labels
<1>2. \A d \in Commands : report'[d].exit \in Codes
  BY DEF TypeInv, PlanInv, IInv, Shape
<1>3. DOMAIN cmd = Commands /\ "idle" \in Labels
  BY DEF TypeInv, PlanInv, IInv, Shape, Labels
<1>. QED BY <1>1, <1>2, <1>3 DEF TypeInv, CommandsTyped, End

\* A report has its exit status.
LEMMA ReportTyped ==
    ASSUME TypeInv, NEW c \in Commands, End(c), NEW status, NEW exit \in Codes, NEW errors,
           Report(c, status, exit, errors)
    PROVE  CommandsTyped'
<1>1. PICK r : report' = [report EXCEPT ![c] = r] /\ r.exit = exit
  <2>. DEFINE r == [mode |-> cmd[c].request.mode, status |-> status, exit |-> exit,
                    targets |-> cmd[c].targets, changed |-> cmd[c].changed,
                    tree |-> cmd[c].tree, steady |-> cmd[c].edits = edits, errors |-> errors]
  <2>1. report' = [report EXCEPT ![c] = r] /\ r.exit = exit
    BY DEF Report
  <2>. HIDE DEF r
  <2>. QED BY <2>1
<1>. QED BY <1>1, EndTyped

\* A command begins, or is refused (test_focused, test_full).
LEMMA BeginTyped ==
    ASSUME TypeInv, NEW c \in Commands, Begin(c), Planned(cmd[c], pc[c])'
    PROVE  CommandsTyped'
<1>1. PICK request \in Requests :
        \/ /\ report' = [report EXCEPT ![c] = [NoReport EXCEPT !.mode = request.mode,
                                                  !.status = "BLOCKED", !.exit = 2]]
           /\ UNCHANGED <<pc, cmd>>
        \/ /\ pc' = [pc EXCEPT ![c] = "changes"]
           /\ cmd' = [cmd EXCEPT ![c] = [Idle EXCEPT !.request = request,
                                            !.accepted = Accepted(request.paths)]]
           /\ report' = [report EXCEPT ![c] = NoReport]
  BY DEF Begin
<1>2. DOMAIN cmd = Commands /\ DOMAIN report = Commands
  BY DEF TypeInv, PlanInv, IInv, Shape
<1>3. \A d \in Commands : report'[d].exit \in Codes
  <2>1. /\ NoReport.exit \in Codes
        /\ [NoReport EXCEPT !.mode = request.mode, !.status = "BLOCKED", !.exit = 2].exit \in Codes
    BY DEF NoReport, Codes
  <2>2. PICK r : report' = [report EXCEPT ![c] = r] /\ r.exit \in Codes
    BY <1>1, <2>1, Zenon
  <2>. QED BY <1>2, <2>2 DEF TypeInv
<1>4. CASE UNCHANGED <<pc, cmd>>
  BY <1>3, <1>4 DEF TypeInv, CommandsTyped
<1>5. CASE /\ pc' = [pc EXCEPT ![c] = "changes"]
           /\ cmd' = [cmd EXCEPT ![c] = [Idle EXCEPT !.request = request,
                                            !.accepted = Accepted(request.paths)]]
  <2>. DEFINE accepted == Accepted(request.paths)
  <2>. PICK new : new = [Idle EXCEPT !.request = request, !.accepted = accepted]
    OBVIOUS
  <2>1. cmd'[c] = new /\ pc'[c] = "changes" /\ \A d \in Commands \ {c} : cmd'[d] = cmd[d]
    BY <1>2, <1>5 DEF TypeInv
  <2>. HIDE DEF accepted
  <2>2. /\ new.targets = <<>> /\ new.changed = <<>> /\ new.next = 1 /\ new.request = request
        /\ new.accepted = accepted
    BY DEF Idle
  <2>3. ToSet(<<>>) = {} /\ Len(<<>>) = 0 /\ <<>> \in Seq(All)
    BY DEF ToSet
  <2>4. new # Idle
    BY <2>2, Busy
  <2>5. new.accepted \in Seq(All)
    BY <2>1 DEF Planned
  <2>6. Typed(new, "changes")
    <3>1. /\ new.targets \in Seq(All) /\ ToSet(new.changed) \subseteq All
          /\ new.next \in 1 .. Len(new.targets) + 1 /\ new.next = 1
      <4>1. new.targets \in Seq(All) /\ Len(new.targets) = 0 /\ ToSet(new.changed) = {}
        BY <2>2, <2>3, Zenon
      <4>. QED BY <2>2, <4>1
    <3>. QED BY <2>4, <2>5, <3>1 DEF Typed, Labels
  <2>7. pc' \in [Commands -> Labels]
    BY <1>5 DEF TypeInv, Labels
  <2>. QED BY <1>3, <1>5, <2>1, <2>6, <2>7 DEF TypeInv, CommandsTyped
<1>. QED BY <1>1, <1>4, <1>5

\* It detects the changes.
LEMMA DetectTyped ==
    ASSUME TypeInv, NEW c \in Commands, DetectChanges(c)
    PROVE  CommandsTyped'
<1>. DEFINE k == cmd[c]
            changed == ChangedFiles(k.request, k.accepted)
            tree == Fingerprint(k.request, changed)
<1>. PICK label : label = IF k.request.mode = "full" THEN "strict" ELSE "select"
  OBVIOUS
<1>. PICK new : new = [k EXCEPT !.changed = changed, !.tree = tree, !.edits = edits]
  OBVIOUS
<1>1. /\ pc[c] = "changes" /\ Planned(k, "changes") /\ Typed(k, "changes") /\ c \in DOMAIN cmd
      /\ UNCHANGED report
  BY DEF DetectChanges, TypeInv, PlanInv, IInv, Shape
<1>2. pc' = [pc EXCEPT ![c] = label] /\ cmd' = [cmd EXCEPT ![c] = new]
  BY <1>1 DEF DetectChanges
<1>3. changed \in Seq(All)
  BY <1>1, ChangesAreShown DEF Planned
<1>. HIDE DEF changed
<1>4. /\ new.request = k.request /\ new.accepted = k.accepted /\ new.changed = changed
      /\ new.targets = k.targets /\ new.next = k.next
  BY <1>1 DEF Planned, Fields
<1>5. new # Idle
  BY <1>1, <1>4, Busy DEF Planned
<1>6. ToSet(changed) \subseteq All
  BY <1>3 DEF ToSet
<1>7. Typed(new, label)
  BY <1>1, <1>4, <1>5, <1>6 DEF Typed, Labels
<1>. QED BY <1>1, <1>2, <1>7, GoesOnTyped

\* It builds the plan.
LEMMA BuildTyped ==
    ASSUME TypeInv, NEW c \in Commands, BuildPlan(c)
    PROVE  CommandsTyped'
<1>. DEFINE k == cmd[c]
            selection == Selection(k.request, k.changed, k.accepted)
            targets == Targets(k.request, selection, k.accepted)
            deferred == selection.deferred
            warned == selection.warned
<1>. PICK label : label = IF k.request.mode = "plan" THEN "planned" ELSE "check"
  OBVIOUS
<1>. PICK new : new = [k EXCEPT !.targets = targets, !.deferred = deferred, !.warned = warned]
  OBVIOUS
<1>1. /\ pc[c] = "select" /\ Planned(k, "select") /\ Typed(k, "select") /\ c \in DOMAIN cmd
      /\ UNCHANGED report
  BY DEF BuildPlan, TypeInv, PlanInv, IInv, Shape
<1>2. pc' = [pc EXCEPT ![c] = label] /\ cmd' = [cmd EXCEPT ![c] = new]
  BY <1>1 DEF BuildPlan
<1>3. targets \in Seq(All)
  BY <1>1, TargetsAreFiles DEF Planned, Typed
<1>. HIDE DEF targets, deferred, warned
<1>4. /\ new.request = k.request /\ new.changed = k.changed
      /\ new.targets = targets /\ new.next = k.next
  BY <1>1 DEF Planned, Fields
<1>5. new # Idle
  BY <1>1, <1>4, Busy DEF Planned
<1>6. Typed(new, label)
  BY <1>1, <1>3, <1>4, <1>5 DEF Typed, Labels
<1>. QED BY <1>1, <1>2, <1>6, GoesOnTyped

\* It compiles and imports what changed.
LEMMA CheckTyped ==
    ASSUME TypeInv, NEW c \in Commands, Check(c)
    PROVE  CommandsTyped'
<1>1. /\ pc[c] = "check" /\ Planned(cmd[c], "check") /\ Typed(cmd[c], "check") /\ c \in DOMAIN cmd
  BY DEF Check, TypeInv, PlanInv, IInv, Shape
<1>2. ASSUME NEW status, NEW exit \in {0, 1}, NEW errors, Report(c, status, exit, errors), End(c)
      PROVE  CommandsTyped'
  BY <1>2, ReportTyped DEF Codes
<1>3. CASE /\ pc' = [pc EXCEPT ![c] = "pytest"]
           /\ cmd' = [cmd EXCEPT ![c].errors = ImportErrors(c)]
           /\ UNCHANGED report
  <2>. DEFINE errors == ImportErrors(c)
  <2>. PICK new : new = [cmd[c] EXCEPT !.errors = errors]
    OBVIOUS
  <2>1. cmd' = [cmd EXCEPT ![c] = new]
    BY <1>1, <1>3
  <2>. HIDE DEF errors
  <2>2. /\ new.request = cmd[c].request /\ new.changed = cmd[c].changed
        /\ new.targets = cmd[c].targets /\ new.next = cmd[c].next
    BY <1>1 DEF Planned, Fields
  <2>3. new # Idle
    BY <1>1, <2>2, Busy DEF Planned
  <2>4. Typed(new, "pytest")
    BY <1>1, <2>2, <2>3 DEF Typed, Labels
  <2>. QED BY <1>3, <2>1, <2>4, GoesOnTyped
<1>. QED BY <1>2, <1>3 DEF Check

\* It runs pytest.
LEMMA RunTyped ==
    ASSUME TypeInv, NEW c \in Commands, RunPytest(c)
    PROVE  CommandsTyped'
<1>1. /\ pc[c] = "pytest" /\ Planned(cmd[c], "pytest") /\ Typed(cmd[c], "pytest") /\ c \in DOMAIN cmd
      /\ UNCHANGED report /\ pc' = [pc EXCEPT ![c] = "record"]
  BY DEF RunPytest, TypeInv, PlanInv, IInv, Shape
<1>2. PICK run \in PytestRuns(cmd[c].targets) :
        cmd' = [cmd EXCEPT ![c].run = run, ![c].met = cmd[c].tree \in Fingerprints,
                 ![c].errors = @ \cup (IF run.collected THEN {} ELSE {"zero"})
                                 \cup (IF run.returncode = 124 THEN {"timeout"} ELSE {})]
  BY DEF RunPytest
<1>. DEFINE errors == cmd[c].errors \cup (IF run.collected THEN {} ELSE {"zero"})
                                    \cup (IF run.returncode = 124 THEN {"timeout"} ELSE {})
            met == cmd[c].tree \in Fingerprints
<1>. PICK new : new = [cmd[c] EXCEPT !.run = run, !.met = met, !.errors = errors]
  OBVIOUS
<1>3. cmd' = [cmd EXCEPT ![c] = new]
  BY <1>1, <1>2
<1>. HIDE DEF errors, met
<1>4. /\ new.request = cmd[c].request /\ new.changed = cmd[c].changed /\ new.run = run
      /\ new.targets = cmd[c].targets /\ new.next = cmd[c].next
  BY <1>1 DEF Planned, Fields
<1>5. new # Idle
  BY <1>1, <1>4, Busy DEF Planned
<1>6. /\ run.returncode \in Codes
      /\ \A f \in ToSet(cmd[c].targets) : run.items[f] \in {"none", "passed", "failed"}
  BY RunsEnd, RunsAreTrue DEF RunTrue
<1>7. Typed(new, "record")
  BY <1>1, <1>4, <1>5, <1>6 DEF Typed, Labels
<1>. QED BY <1>1, <1>3, <1>7, GoesOnTyped

\* It records the next file.
LEMMA RecordTyped ==
    ASSUME TypeInv, NEW c \in Commands, RecordResult(c)
    PROVE  CommandsTyped'
<1>1. /\ pc[c] = "record" /\ Planned(cmd[c], "record") /\ Typed(cmd[c], "record")
      /\ DOMAIN cmd = Commands /\ cmd[c].next \in DOMAIN cmd[c].targets
      /\ UNCHANGED <<pc, report>> /\ cmd' = [cmd EXCEPT ![c].next = @ + 1]
  BY DEF RecordResult, TypeInv, PlanInv, IInv, Shape
<1>. PICK new : new = [cmd[c] EXCEPT !.next = @ + 1]
  OBVIOUS
<1>2. cmd'[c] = new /\ \A d \in Commands \ {c} : cmd'[d] = cmd[d]
  BY <1>1
<1>3. /\ new.request = cmd[c].request /\ new.changed = cmd[c].changed /\ new.run = cmd[c].run
      /\ new.targets = cmd[c].targets /\ new.next = cmd[c].next + 1
  BY <1>1 DEF Planned, Fields
<1>4. new # Idle
  BY <1>1, <1>3, Busy DEF Planned
<1>5. cmd[c].next + 1 \in 1 .. Len(cmd[c].targets) + 1
  BY <1>1 DEF Typed
<1>6. Typed(new, "record")
  BY <1>1, <1>3, <1>4, <1>5 DEF Typed, Labels
<1>. QED BY <1>1, <1>2, <1>6 DEF TypeInv, CommandsTyped

\* The type invariant is inductive.
LEMMA TypeStep == TypeInv /\ [Next]_vars => TypeInv'
<1>. SUFFICES ASSUME TypeInv, [Next]_vars PROVE TypeInv'
  OBVIOUS
<1>1. PlanInv' /\ TreeTyped'
  BY StepPlan, TreeStep DEF TypeInv
<1>2. CASE (\E e \in Edits : Edit(e[1], e[2])) \/ Add \/ Commit \/ UNCHANGED vars
  <2>1. UNCHANGED <<pc, cmd, report>>
    BY <1>2 DEF Edit, Add, Commit, vars
  <2>. QED BY <1>1, <2>1 DEF TypeInv
<1>3. ASSUME NEW c \in Commands,
             \/ Begin(c) \/ DetectChanges(c) \/ BuildPlan(c) \/ ShowPlan(c) \/ Check(c)
             \/ RunPytest(c) \/ RecordResult(c) \/ Finish(c) \/ RunStrict(c) \/ Kill(c)
      PROVE  CommandsTyped'
  <2>1. CASE Begin(c)
    BY <1>1, <2>1, BeginTyped DEF PlanInv
  <2>2. CASE ShowPlan(c)
    <3>1. Report(c, "planned", 0, {}) /\ End(c) /\ 0 \in Codes
      BY <2>2 DEF ShowPlan, Codes
    <3>. QED BY <3>1, ReportTyped
  <2>3. CASE Finish(c)
    <3>1. pc[c] = "record" /\ ExitCode(cmd[c].run) \in Codes
      BY <2>3 DEF Finish, TypeInv, Typed, ExitCode, Codes
    <3>. QED BY <2>3, <3>1, ReportTyped DEF Finish
  <2>4. CASE RunStrict(c)
    <3>1. PICK run \in PytestRuns(layout.strict) :
            LET errors == IF run.returncode = 124 THEN {"timeout"} ELSE {} IN
            Report(c, Status(run.returncode, errors), run.returncode, errors)
      BY <2>4 DEF RunStrict
    <3>2. run.returncode \in Codes
      BY RunsEnd
    <3>. QED BY <2>4, <3>1, <3>2, ReportTyped DEF RunStrict
  <2>5. CASE Kill(c)
    BY <2>5, EndTyped DEF Kill
  <2>. QED BY <1>3, <2>1, <2>2, <2>3, <2>4, <2>5, DetectTyped, BuildTyped, CheckTyped,
           RunTyped, RecordTyped
<1>4. CommandsTyped' => TypeInv'
  BY <1>1 DEF CommandsTyped, TypeInv
<1>. QED BY <1>2, <1>3, <1>4 DEF Next

(***************************************************************************)
(* The theorems.                                                           *)
(***************************************************************************)
\* A report of PASSED, of a command during which nobody edited, is right whenever the tree has
\* the fingerprint of the report, whatever is edited and restored, staged, committed, killed or
\* run beside it before and after (_run_selected, test_full).
THEOREM PassedMeansPasses == Spec => []PassedIsSound
<1>1. IInv => PassedIsSound
  <2>. SUFFICES ASSUME IInv, NEW c \in Commands,
                       report[c].status = "PASSED", report[c].steady, report[c].tree \in Fingerprints
                PROVE  /\ \A f \in ToSet(IF report[c].mode = "full" THEN layout.strict ELSE report[c].targets) : Passes(f)
                       /\ report[c].mode = "fast" => \A f \in ToSet(report[c].changed) : disk[f] # "broken"
    BY DEF PassedIsSound
  <2>1. disk = TreeOf(report[c].tree)
    BY FingerprintIdentifies DEF IInv, Shape
  <2>2. ReportTrue(report[c])
    BY DEF IInv
  <2>. QED BY <2>1, <2>2, PassesNow DEF ReportTrue
<1>. QED BY <1>1, InitInv, StepInv, PTL DEF Spec

\* Whenever the tree has the fingerprint of a row that says "passed", the file passes, if pytest
\* met the tree that was fingerprinted and no interpreter died among its tests, however the
\* commands that record at once, the runs that are killed or time out, and the edits that are
\* undone, follow each other (_record_file_history).
THEOREM RowsAreEarned == Spec => []PassedRowsAreEarned
<1>1. IInv => PassedRowsAreEarned
  <2>. SUFFICES ASSUME IInv, NEW f \in All,
                       history[f] # Absent, history[f].result = "passed", history[f].met,
                       history[f].tree \in Fingerprints, f \notin died
                PROVE  Passes(f)
    BY DEF PassedRowsAreEarned
  <2>1. disk = TreeOf(history[f].tree)
    BY FingerprintIdentifies DEF IInv, Shape
  <2>2. RowTrue(history[f], f)
    BY DEF IInv
  <2>. QED BY <2>1, <2>2, PassesNow DEF RowTrue
<1>. QED BY <1>1, InitInv, StepInv, PTL DEF Spec

\* A fast run runs what it has to run: every test that is linked to a changed source which is still
\* there, but the integration tests, every safety test, and nothing that no change and no rule of the profile calls for, for
\* every repository and every order in which its files change (build_plan, MappingResult.add).
THEOREM FastSelects == Spec => []FastRunsTheChange
<1>1. PlanInv => FastRunsTheChange
  BY DEF PlanInv, Planned, RightTargets, HasPlan, FastRunsTheChange
<1>. QED BY <1>1, InitPlan, StepPlan, PTL DEF Spec

\* The variables have their types for every repository, command line, edit and fault.
THEOREM TypeCorrect == Spec => []TypeOK
<1>1. TypeInv => TypeOK
  <2>1. ASSUME NEW c \in Commands, Typed(cmd[c], pc[c])
        PROVE  ToSet(cmd[c].targets) \subseteq All
    BY <2>1 DEF Typed, ToSet
  <2>. QED BY <2>1 DEF TypeInv, TreeTyped, RowTyped, Typed, Labels, Codes, TypeOK
<1>. QED BY <1>1, TypeInit, TypeStep, PTL DEF Spec
===============================================================================
