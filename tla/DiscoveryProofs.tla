------------------------- MODULE DiscoveryProofs -------------------------
(***************************************************************************)
(* Theorems about Discovery, for every tree, every source and any number   *)
(* of changes to the tree during the walk:                                 *)
(*   - the walk stays within its limits (DiscoveryTypeCorrect);            *)
(*   - a file of a snapshot can be opened again (ReopenSafety);            *)
(*   - no file that lay in its place is missed (NothingIsMissed);          *)
(*   - none is in a snapshot twice (EachFileOnce);                         *)
(*   - in a tree nobody touches a snapshot is exactly what the source is     *)
(*     configured for (QuietWalkExact).                                      *)
(***************************************************************************)
EXTENDS Discovery, FiniteSetTheorems, SequenceTheorems, WellFoundedInduction, TLAPS

Directories == Paths \cup {Root}
Rules == [dir : Directories, recursive : BOOLEAN, names : SUBSET (Names \ Odd)]

-----------------------------------------------------------------------------
(***************************************************************************)
(* Paths.                                                                  *)
(***************************************************************************)

\* A path is a sequence of names.
LEMMA PathsAreSequences ==
  /\ \A p \in Paths : p \in Seq(Names) /\ Len(p) \in Nat \ {0}
  /\ \A d \in Directories : d \in Seq(Names) /\ Len(d) \in Nat
<1>1. ASSUME NEW p \in Paths PROVE p \in Seq(Names) /\ Len(p) \in Nat \ {0}
  BY DEF Paths
<1>2. Root \in Seq(Names) /\ Len(Root) = 0
  BY DEF Root
<1>3. ASSUME NEW d \in Directories PROVE d \in Seq(Names) /\ Len(d) \in Nat
  <2>1. CASE d \in Paths
    BY <1>1, <2>1
  <2>2. CASE d = Root
    BY <1>2, <2>2
  <2> QED
    BY <2>1, <2>2 DEF Directories
<1> QED
  BY <1>1, <1>3

\* An entry of a directory lies under it, and under what that lies under.
LEMMA EntriesLieUnder ==
  ASSUME NEW d \in Seq(Names), NEW e \in Seq(Names), NEW n, Append(e, n) \in Seq(Names),
         e = d \/ Under(d, e)
  PROVE  /\ Under(d, Append(e, n))
         /\ Len(Append(e, n)) = Len(e) + 1
         /\ Last(Append(e, n)) = n
  BY DEF Under, Last

\* The path itself is one of its beginnings, and so is what it lies under.
LEMMA Beginnings ==
  ASSUME NEW p \in Paths
  PROVE  /\ \E n \in 1..Len(p) : SubSeq(p, 1, n) = p
         /\ \A d \in Paths : Under(d, p) => \E n \in 1..Len(p) : SubSeq(p, 1, n) = d
<1>1. p \in Seq(Names) /\ Len(p) \in Nat \ {0}
  BY PathsAreSequences
<1>2. SubSeq(p, 1, Len(p)) = p
  BY <1>1
<1>3. ASSUME NEW d \in Paths, Under(d, p)
      PROVE  \E n \in 1..Len(p) : SubSeq(p, 1, n) = d
  <2>1. Len(d) \in Nat \ {0}
    BY PathsAreSequences
  <2>2. SubSeq(p, 1, Len(d)) = d /\ Len(d) \in 1..Len(p)
    BY <1>1, <1>3, <2>1 DEF Under
  <2> QED
    BY <2>2
<1>4. Len(p) \in 1..Len(p)
  BY <1>1
<1> QED
  BY <1>2, <1>3, <1>4

\* What is renamed to a place under q has q for a beginning.
LEMMA MovedBeginnings ==
  ASSUME NEW q \in Paths, NEW t \in Seq(Names), NEW p \in Paths, p = q \o t
  PROVE  \E n \in 1..Len(p) : SubSeq(p, 1, n) = q
<1>1. q \in Seq(Names) /\ Len(q) \in Nat \ {0}
  BY PathsAreSequences
<1>2. SubSeq(q \o t, 1, Len(q)) = q /\ Len(q \o t) = Len(q) + Len(t) /\ Len(t) \in Nat
  BY <1>1
<1>3. SubSeq(p, 1, Len(q)) = q
  BY <1>2
<1>4. Len(q) \in 1..Len(p)
  BY <1>1, <1>2
<1> QED
  BY <1>3, <1>4

\* Maps of files.
LEMMA MapsOfFiles ==
  /\ \A f, p, file :
       /\ DOMAIN With(f, p, file) = DOMAIN f \cup {p}
       /\ With(f, p, file)[p] = file
       /\ \A q \in DOMAIN f : q # p => With(f, p, file)[q] = f[q]
  /\ \A f, g :
       /\ DOMAIN Merged(f, g) = DOMAIN f \cup DOMAIN g
       /\ \A q \in DOMAIN f : Merged(f, g)[q] = f[q]
       /\ \A q \in DOMAIN g : q \notin DOMAIN f => Merged(f, g)[q] = g[q]
  BY DEF With, Merged

-----------------------------------------------------------------------------
(***************************************************************************)
(* Type correctness.                                                       *)
(***************************************************************************)

\* The opens give what they promise.
LEMMA OpensAreTyped ==
  ASSUME TypeOK, NEW p
  PROVE  /\ RegularAt(p) # {} =>
              /\ p \in Paths /\ fs[p] # None /\ fs[p].type = "file"
              /\ FileAt(p) = [id |-> fs[p].id, size |-> fs[p].size]
         /\ DirectoryAt(p) => p \in Directories
  BY DEF TypeOK, RegularAt, FileAt, Exists, DirectoryAt, Directories

\* The rules of a source start in directories.
LEMMA RuleDirectories ==
  ASSUME TypeOK
  PROVE  /\ Len(source.rules) \in Nat
         /\ \A i \in 1..Len(source.rules) : i \in DOMAIN source.rules /\ source.rules[i].dir \in Directories
<1>1. source \in [explicit : Seq(Paths), rules : Seq(Rules)]
  BY SourcesAssumption DEF TypeOK, Directories, Rules
<1>2. source.rules \in Seq(Rules)
  BY <1>1
<1>3. \A i \in 1..Len(source.rules) : source.rules[i] \in Rules
  BY <1>2
<1> QED
  BY <1>2, <1>3 DEF Rules

\* The walk starts within its limits, and no step of it leaves them.
LEMMA TypeInit == Init => TypeOK
<1> SUFFICES ASSUME Init PROVE TypeOK
  OBVIOUS
<1>1. fs \in [Paths -> Nodes \cup {None}] /\ made \in Nat
  BY TreesAssumption DEF Init, Nodes, NodesBefore
<1>2. source.explicit \in Seq(Paths) /\ Len(source.rules) \in Nat
  BY SourcesAssumption DEF Init
<1>3. /\ DOMAIN explicit = {} /\ DOMAIN files = {}
  BY DEF Init, Empty
<1>4. IsFiniteSet({}) /\ Cardinality({}) = 0
  BY FS_EmptySet
<1> QED
  BY <1>1, <1>2, <1>3, <1>4, LimitsAssumption DEF Init, TypeOK, Root

LEMMA TypeStep == TypeOK /\ Step /\ UNCHANGED world => TypeOK'
<1> SUFFICES ASSUME TypeOK, Step, UNCHANGED world PROVE TypeOK'
  OBVIOUS
<1> USE DEF world
<1>0. Len(source.rules) \in Nat
  BY RuleDirectories
<1>1. ASSUME NEW code, Fail(code) PROVE TypeOK'
  BY <1>1 DEF TypeOK, Fail, Return, counts
<1>2. CASE OpenExplicit
  <2>1. CASE RegularAt(Head(todo)) = {}
    BY <1>1, <1>2, <2>1 DEF OpenExplicit
  <2>2. CASE RegularAt(Head(todo)) # {}
    <3>1. Head(todo) \in Paths
      BY <2>2, OpensAreTyped
    <3>2. DOMAIN explicit' = DOMAIN explicit \cup {Head(todo)}
      BY <1>2, <2>2 DEF OpenExplicit, With
    <3>3. Tail(todo) \in Seq(Paths)
      BY <1>2 DEF OpenExplicit, TypeOK
    <3> QED
      BY <1>2, <2>2, <3>1, <3>2, <3>3 DEF OpenExplicit, TypeOK, counts
  <2> QED
    BY <2>1, <2>2
<1>3. CASE NextRule
  <2>1. rule + 1 \in 1..Len(source.rules)
    BY <1>0, <1>3 DEF NextRule, TypeOK
  <2>2. source.rules[rule + 1].dir \in Directories
    BY <2>1, RuleDirectories
  <2> QED
    BY <1>0, <1>3, <2>1, <2>2 DEF NextRule, TypeOK, counts, Directories
<1>4. CASE OpenDirectory
  <2>1. CASE seenDirs >= MaxDirectories \/ ~DirectoryAt(Head(pending))
    BY <1>1, <1>4, <2>1 DEF OpenDirectory
  <2>2. CASE ~(seenDirs >= MaxDirectories) /\ DirectoryAt(Head(pending))
    <3>1. Head(pending) \in Directories /\ Tail(pending) \in Seq(Directories)
      BY <1>4 DEF OpenDirectory, TypeOK, Directories
    <3>2. seenDirs' \in 0..MaxDirectories
      BY <1>4, <2>2, LimitsAssumption DEF OpenDirectory, TypeOK
    <3>3. dir'.path = Head(pending)
      BY <1>4, <2>2 DEF OpenDirectory
    <3> QED
      BY <1>4, <2>2, <3>1, <3>2, <3>3 DEF OpenDirectory, TypeOK, Directories
  <2> QED
    BY <2>1, <2>2
<1>5. CASE ReadDirectory
  <2>1. (\E code : Fail(code))
          \/ /\ phase' = "entries" /\ children' = <<>>
             /\ UNCHANGED <<todo, explicit, rule, pending, dir, files, seenDirs, answer>>
    BY <1>5 DEF ReadDirectory
  <2>2. CASE /\ phase' = "entries" /\ children' = <<>>
             /\ UNCHANGED <<todo, explicit, rule, pending, dir, files, seenDirs, answer>>
    BY <2>2 DEF TypeOK
  <2> QED
    BY <1>1, <2>1, <2>2
<1>6. CASE Entry
  <2> DEFINE p == Append(dir.path, Head(listing).name)
  <2>1. \/ \E code : Fail(code)
        \/ PassOver
        \/ Child(p) /\ DirectoryAt(p)
        \/ Record(p) /\ (p \in DOMAIN files \/ RegularAt(p) # {})
    BY <1>6 DEF Entry
  <2> HIDE DEF p
  <2>2. CASE PassOver
    BY <2>2 DEF PassOver, TypeOK, counts
  <2>3. CASE Child(p) /\ DirectoryAt(p)
    <3>1. p \in Directories
      BY <2>3, OpensAreTyped
    <3> QED
      BY <2>3, <3>1 DEF Child, TypeOK, counts, Directories
  <2>4. CASE Record(p) /\ p \in DOMAIN files
    BY <1>1, <2>4 DEF Record, TypeOK, counts
  <2>5. CASE Record(p) /\ p \notin DOMAIN files /\ RegularAt(p) # {}
    <3>1. CASE Cardinality(DOMAIN files) >= MaxFiles
      BY <1>1, <2>5, <3>1 DEF Record
    <3>2. CASE ~(Cardinality(DOMAIN files) >= MaxFiles)
      <4>1. DOMAIN files' = DOMAIN files \cup {p}
        BY <2>5, <3>2 DEF Record, With
      <4>2. p \in Paths
        BY <2>5, OpensAreTyped
      <4>3. IsFiniteSet(DOMAIN files') /\ Cardinality(DOMAIN files') = Cardinality(DOMAIN files) + 1
        BY <2>5, <4>1, FS_AddElement DEF TypeOK
      <4>4. Cardinality(DOMAIN files) \in Nat
        BY FS_CardinalityType DEF TypeOK
      <4>5. Cardinality(DOMAIN files') <= MaxFiles
        BY <3>2, <4>3, <4>4, LimitsAssumption
      <4> QED
        BY <2>5, <3>2, <4>1, <4>2, <4>3, <4>5 DEF Record, TypeOK, counts
    <3> QED
      BY <3>1, <3>2
  <2> QED
    BY <1>1, <2>1, <2>2, <2>3, <2>4, <2>5
<1>7. CASE EndDirectory
  <2>1. children \o pending \in Seq(Directories)
    BY DEF TypeOK, Directories
  <2> QED
    BY <1>7, <2>1 DEF EndDirectory, Deeper, TypeOK, counts, Directories
<1>8. CASE Finish
  <2>1. (\E code : Fail(code))
          \/ /\ phase' = "done"
             /\ UNCHANGED <<todo, explicit, rule, pending, dir, listing, children, files, counts>>
    BY <1>8 DEF Finish, Return
  <2> QED
    BY <1>1, <2>1 DEF TypeOK, counts
<1> QED
  BY <1>2, <1>3, <1>4, <1>5, <1>6, <1>7, <1>8 DEF Step

\* What other programs do to a path that is still left alone afterwards: it was
\* left alone before, and what lay there still does, perhaps longer.
LEMMA LeftAloneKeeps ==
  ASSUME TypeOK, Environment
  PROVE  /\ fs' \in [Paths -> Nodes \cup {None}] /\ made' \in Nat
         /\ UNCHANGED <<source, typed, walk>>
         /\ \A p \in Paths : LeftAlone(p)' =>
              /\ LeftAlone(p)
              /\ fs'[p] # None <=> fs[p] # None
              /\ fs[p] # None =>
                   /\ fs'[p].type = fs[p].type /\ fs'[p].id = fs[p].id
                   /\ fs'[p].size >= fs[p].size
<1>1. PICK a \in Touchable :
        \/ \E type \in {"file", "dir", "link"} : Create(a, type)
        \/ Delete(a)
        \/ \E b \in Touchable : Rename(a, b)
        \/ Grow(a)
  BY DEF Environment
<1>a. a \in Paths
  BY TouchableAssumption
<1> DEFINE Goal == /\ fs' \in [Paths -> Nodes \cup {None}] /\ made' \in Nat
                   /\ UNCHANGED <<source, typed, walk>>
                   /\ \A p \in Paths : LeftAlone(p)' =>
                        /\ LeftAlone(p)
                        /\ fs'[p] # None <=> fs[p] # None
                        /\ fs[p] # None =>
                             /\ fs'[p].type = fs[p].type /\ fs'[p].id = fs[p].id
                             /\ fs'[p].size >= fs[p].size
<1>b. fs \in [Paths -> Nodes \cup {None}] /\ made \in Nat
  BY DEF TypeOK
<1>c. \A x \in Nodes : x.size \in Nat /\ x.id \in Nat /\ x.type \in Types
  BY DEF Nodes
<1>d. ASSUME NEW S, Others(S)
      PROVE  /\ UNCHANGED <<source, typed, walk>>
             /\ \A p \in Paths : LeftAlone(p)' =>
                  LeftAlone(p) /\ \A n \in 1..Len(p) : SubSeq(p, 1, n) \notin S
  BY <1>d DEF Others, LeftAlone
<1>e. ASSUME Others({a})
      PROVE  \A p \in Paths : LeftAlone(p)' => LeftAlone(p) /\ p # a
  <2>1. ASSUME NEW p \in Paths, LeftAlone(p)' PROVE LeftAlone(p) /\ p # a
    <3>1. LeftAlone(p) /\ \A n \in 1..Len(p) : SubSeq(p, 1, n) \notin {a}
      BY <1>d, <1>e, <2>1
    <3>2. \E n \in 1..Len(p) : SubSeq(p, 1, n) = p
      BY Beginnings
    <3> QED
      BY <3>1, <3>2
  <2> QED
    BY <2>1
<1>2. ASSUME NEW type \in {"file", "dir", "link"}, Create(a, type) PROVE Goal
  <2>1. Others({a}) /\ fs' = [fs EXCEPT ![a] = [type |-> type, id |-> made, size |-> 0]] /\ made' = made + 1
    BY <1>2 DEF Create
  <2>2. [type |-> type, id |-> made, size |-> 0] \in Nodes
    BY <1>b DEF Nodes, Types
  <2>3. \A p \in Paths : LeftAlone(p)' => LeftAlone(p) /\ p # a
    BY <1>e, <2>1
  <2> QED
    BY <1>a, <1>b, <1>c, <1>d, <2>1, <2>2, <2>3
<1>3. ASSUME Delete(a) PROVE Goal
  <2>1. Others({a}) /\ fs' = [fs EXCEPT ![a] = None] /\ made' = made
    BY <1>3 DEF Delete
  <2>2. \A p \in Paths : LeftAlone(p)' => LeftAlone(p) /\ p # a
    BY <1>e, <2>1
  <2> QED
    BY <1>a, <1>b, <1>c, <1>d, <2>1, <2>2
<1>4. ASSUME NEW b \in Touchable, Rename(a, b) PROVE Goal
  <2> DEFINE moved == {a} \cup {x \in Paths : Under(a, x)}
             place == [x \in moved |-> b \o SubSeq(x, Len(a) + 1, Len(x))]
             Source(x) == CHOOSE y \in moved : place[y] = x
  <2>1. /\ Others({a, b}) /\ made' = made
        /\ fs' = [x \in Paths |-> IF x \in Range(place) THEN fs[Source(x)]
                                  ELSE IF x \in moved THEN None ELSE fs[x]]
    BY <1>4 DEF Rename
  <2>2. moved \subseteq Paths /\ b \in Paths
    BY <1>a, TouchableAssumption
  <2>3. Range(place) = {place[x] : x \in moved}
    BY DEF Range
  <2>4. \A x \in Range(place) : Source(x) \in moved
    BY <2>3
  <2>5. ASSUME NEW p \in Paths, LeftAlone(p)' PROVE fs'[p] = fs[p]
    <3>1. \A n \in 1..Len(p) : SubSeq(p, 1, n) # a /\ SubSeq(p, 1, n) # b
      BY <1>d, <2>1, <2>5
    <3>2. p \notin moved
      BY <1>a, <3>1, Beginnings
    <3>3. p \notin Range(place)
      <4> SUFFICES ASSUME NEW x \in moved, p = place[x] PROVE FALSE
        BY <2>3
      <4>1. PICK t : t = SubSeq(x, Len(a) + 1, Len(x))
        OBVIOUS
      <4>2. p = b \o t
        BY <4>1
      <4> HIDE DEF moved, place, Source
      <4>3. t \in Seq(Names)
        <5>1. x \in Seq(Names) /\ Len(a) \in Nat
          BY <1>a, <2>2, PathsAreSequences
        <5> QED
          BY <4>1, <5>1
      <4>4. \E n \in 1..Len(p) : SubSeq(p, 1, n) = b
        BY ONLY p \in Paths, <2>2, <4>2, <4>3, MovedBeginnings
      <4> QED
        BY <3>1, <4>4
    <3> HIDE DEF moved, place, Source
    <3> QED
      BY <2>1, <3>2, <3>3
  <2>6. fs' \in [Paths -> Nodes \cup {None}]
    <3> HIDE DEF moved, place, Source
    <3> QED
      BY <1>b, <2>1, <2>2, <2>4
  <2> HIDE DEF moved, place, Source
  <2> QED
    BY <1>b, <1>c, <1>d, <2>1, <2>5, <2>6
<1>5. ASSUME Grow(a) PROVE Goal
  <2>1. /\ Others({}) /\ made' = made
        /\ fs[a] # None /\ fs[a].type = "file"
        /\ fs' = [fs EXCEPT ![a] = [fs[a] EXCEPT !.size = fs[a].size + 1]]
    BY <1>5 DEF Grow, Exists
  <2>2. fs[a] \in Nodes
    BY <1>a, <1>b, <2>1
  <2>3. LET g == [fs[a] EXCEPT !.size = fs[a].size + 1]
        IN  g \in Nodes /\ g.type = fs[a].type /\ g.id = fs[a].id /\ g.size = fs[a].size + 1
    BY <2>2 DEF Nodes
  <2> QED
    BY <1>a, <1>b, <1>c, <1>d, <2>1, <2>2, <2>3, TreesAssumption
<1> QED
  BY <1>1, <1>2, <1>3, <1>4, <1>5

\* The walk stays within its limits, and what it holds are paths below the root.
THEOREM DiscoveryTypeCorrect == Spec => []TypeOK
<1>1. TypeOK /\ [Next]_vars => TypeOK'
  <2> SUFFICES ASSUME TypeOK, [Next]_vars PROVE TypeOK'
    OBVIOUS
  <2>1. CASE Step /\ UNCHANGED world
    BY <2>1, TypeStep
  <2>2. CASE Environment
    BY <2>2, LeftAloneKeeps DEF TypeOK, walk, counts
  <2>3. CASE UNCHANGED vars
    BY <2>3 DEF TypeOK, vars, world, walk, counts
  <2> QED
    BY <2>1, <2>2, <2>3 DEF Next
<1> QED
  BY <1>1, TypeInit, PTL DEF Spec

-----------------------------------------------------------------------------
(***************************************************************************)
(* Files of a snapshot open again.                                         *)
(***************************************************************************)

\* A directory the current rule leads to, by itself or below its own.
Walked(d) ==
  /\ d \in Directories
  /\ rule \in 1..Len(source.rules)
  /\ \/ d = source.rules[rule].dir
     \/ source.rules[rule].recursive /\ Under(source.rules[rule].dir, d)

\* What open_snapshot_file asks of the file at p with the noted identity and size.
StillThere(p, file) ==
  /\ fs[p] # None /\ fs[p].type = "file"
  /\ fs[p].id = file.id /\ file.size <= fs[p].size

\* The files noted in f are configured, and those that were left alone are still
\* there.
Reopen(f) ==
  \A p \in DOMAIN f : /\ p \in Paths
                      /\ PathIsConfigured(p)
                      /\ f[p].size \in Nat
                      /\ LeftAlone(p) => StillThere(p, f[p])

TodoConfigured == \A i \in 1..Len(todo) : PathIsConfigured(todo[i])
PendingWalked == \A i \in 1..Len(pending) : Walked(pending[i])
ChildrenWalked == \A i \in 1..Len(children) : Walked(children[i])
DirWalked == phase \in {"read", "entries"} => Walked(dir.path)
NoChildrenYet == phase \in {"explicit", "walk"} => children = <<>>
AnswerReopens == Succeeded => Reopen(answer.files)

DInv ==
  /\ TypeOK
  /\ TodoConfigured /\ PendingWalked /\ ChildrenWalked /\ DirWalked /\ NoChildrenYet
  /\ Reopen(explicit) /\ Reopen(files)
  /\ AnswerReopens

\* A file that is opened is there.
LEMMA OpenedIsThere ==
  ASSUME TypeOK, NEW p, RegularAt(p) # {}
  PROVE  p \in Paths /\ FileAt(p).size \in Nat /\ StillThere(p, FileAt(p))
<1>1. /\ p \in Paths /\ fs[p] # None /\ fs[p].type = "file"
      /\ FileAt(p) = [id |-> fs[p].id, size |-> fs[p].size]
  BY OpensAreTyped
<1>2. fs[p] \in Nodes
  BY <1>1 DEF TypeOK
<1>3. fs[p].size \in Nat
  BY <1>2 DEF Nodes
<1> QED
  BY <1>1, <1>3 DEF StillThere

\* A file in a directory the rule leads to, with a name the rule matches, is
\* configured.
LEMMA WalkedFilesAreConfigured ==
  ASSUME DInv, NEW e, e = dir.path, Walked(e), NEW n, Append(e, n) \in Paths, Matches(Append(e, n))
  PROVE  PathIsConfigured(Append(e, n))
<1> DEFINE p == Append(e, n)
           d == source.rules[rule].dir
<1>1. rule \in DOMAIN source.rules /\ d \in Directories
  BY RuleDirectories DEF DInv, Walked
<1>2. e \in Seq(Names) /\ d \in Seq(Names) /\ p \in Seq(Names)
  BY <1>1, PathsAreSequences DEF Walked
<1>3. e = d \/ Under(d, e)
  BY DEF Walked
<1>4. Under(d, p) /\ Len(p) = Len(e) + 1
  BY <1>2, <1>3, EntriesLieUnder
<1>5. source.rules[rule].recursive \/ Len(p) = Len(d) + 1
  BY <1>4 DEF Walked
<1>6. Last(p) \in source.rules[rule].names
  BY DEF Matches
<1> HIDE DEF p, d
<1>7. Allows(source.rules[rule], p)
  BY <1>4, <1>5, <1>6 DEF Allows, d
<1> QED
  BY <1>1, <1>7 DEF PathIsConfigured, p

\* A directory in a directory a recursive rule leads to is one the rule leads to.
LEMMA WalkedDirectoriesAreWalked ==
  ASSUME DInv, NEW e, Walked(e), NEW n, Append(e, n) \in Directories, Recursive
  PROVE  Walked(Append(e, n))
<1> DEFINE d == source.rules[rule].dir
<1>1. d \in Directories
  BY RuleDirectories DEF DInv, Walked
<1>2. e \in Seq(Names) /\ d \in Seq(Names) /\ Append(e, n) \in Seq(Names)
  BY <1>1, PathsAreSequences DEF Walked
<1>3. e = d \/ Under(d, e)
  BY DEF Walked
<1>4. Under(d, Append(e, n))
  BY <1>2, <1>3, EntriesLieUnder
<1> QED
  BY <1>4 DEF Walked, Recursive

\* One more file that is there and configured does no harm.
LEMMA ReopenWith ==
  ASSUME NEW f, Reopen(f), NEW p \in Paths, PathIsConfigured(p), NEW file,
         file.size \in Nat, StillThere(p, file)
  PROVE  Reopen(With(f, p, file))
  BY DEF Reopen, With

\* Two maps of such files are merged to one.
LEMMA ReopenMerged ==
  ASSUME NEW f, Reopen(f), NEW g, Reopen(g)
  PROVE  Reopen(Merged(f, g))
  BY DEF Reopen, Merged

\* A walk starts with nothing found; no step of it, and nothing other programs do,
\* makes it hold a file that would not open again.
LEMMA ReopenInit == Init => DInv
<1> SUFFICES ASSUME Init PROVE DInv
  OBVIOUS
<1>1. TypeOK
  BY TypeInit
<1>2. \A i \in 1..Len(todo) : PathIsConfigured(todo[i])
  BY SourcesAssumption DEF Init, PathIsConfigured
<1>3. DOMAIN explicit = {} /\ DOMAIN files = {}
  BY DEF Init, Empty
<1>4. Len(pending) = 0 /\ Len(children) = 0
  BY DEF Init
<1> QED
  BY <1>1, <1>2, <1>3, <1>4
     DEF Init, DInv, TodoConfigured, PendingWalked, ChildrenWalked, DirWalked, NoChildrenYet,
         Reopen, AnswerReopens, Succeeded, Done

\* Only the walk moves: what is configured, left alone and there stays so.
LEMMA WorldStays ==
  ASSUME UNCHANGED world
  PROVE  /\ \A p : PathIsConfigured(p)' <=> PathIsConfigured(p)
         /\ \A p : LeftAlone(p)' <=> LeftAlone(p)
         /\ \A p, file : StillThere(p, file)' <=> StillThere(p, file)
         /\ rule' = rule => \A d : Walked(d)' <=> Walked(d)
<1>1. source' = source /\ fs' = fs /\ touched' = touched
  BY DEF world
<1> QED
  BY <1>1 DEF PathIsConfigured, LeftAlone, StillThere, Walked, Allows, Under

\* What holds of a walk that does not move on with its files, of one that stops
\* without files, and of a queue of directories.
LEMMA FilesStay ==
  ASSUME DInv, UNCHANGED world
  PROVE  /\ explicit' = explicit => Reopen(explicit)'
         /\ files' = files => Reopen(files)'
         /\ todo' = todo => TodoConfigured'
         /\ rule' = rule /\ pending' = pending => PendingWalked'
         /\ rule' = rule /\ children' = children => ChildrenWalked'
  BY WorldStays DEF DInv, Reopen, TodoConfigured, PendingWalked, ChildrenWalked

LEMMA ReopenStep == DInv /\ Step /\ UNCHANGED world => DInv'
<1> SUFFICES ASSUME DInv, Step, UNCHANGED world PROVE DInv'
  OBVIOUS
<1>0. TypeOK'
  BY TypeStep DEF DInv
<1>1. phase # "done"
  BY DEF Step, OpenExplicit, NextRule, OpenDirectory, ReadDirectory, Entry, EndDirectory, Finish
<1>2. ASSUME NEW code, Fail(code) PROVE DInv'
  <2>1. /\ phase' = "done" /\ answer' = [error |-> code]
        /\ UNCHANGED <<todo, explicit, rule, pending, children, files>>
    BY <1>2 DEF Fail, Return
  <2>2. ~Succeeded'
    BY <2>1 DEF Succeeded
  <2> QED
    BY <1>0, <2>1, <2>2, FilesStay DEF DInv, DirWalked, NoChildrenYet, AnswerReopens
<1>3. ASSUME phase' # "done" PROVE AnswerReopens'
  BY <1>3 DEF AnswerReopens, Succeeded, Done
<1>4. CASE OpenExplicit
  <2>1. CASE RegularAt(Head(todo)) = {}
    BY <1>2, <1>4, <2>1 DEF OpenExplicit
  <2>2. CASE RegularAt(Head(todo)) # {}
    <3>1. /\ explicit' = With(explicit, Head(todo), FileAt(Head(todo)))
          /\ todo' = Tail(todo) /\ todo # <<>>
          /\ UNCHANGED <<phase, rule, pending, dir, children, files>>
      BY <1>4, <2>2 DEF OpenExplicit
    <3>2. todo \in Seq(Paths)
      BY DEF DInv, TypeOK
    <3>3. PathIsConfigured(Head(todo))
      BY <3>1, <3>2 DEF DInv, TodoConfigured
    <3>4. Reopen(With(explicit, Head(todo), FileAt(Head(todo))))
      BY <2>2, <3>3, OpenedIsThere, ReopenWith DEF DInv
    <3>5. Reopen(explicit)'
      BY <3>1, <3>4, WorldStays DEF Reopen
    <3>6. \A i \in 1..Len(Tail(todo)) : PathIsConfigured(Tail(todo)[i])
      BY <3>1, <3>2 DEF DInv, TodoConfigured
    <3>7. TodoConfigured'
      BY <3>1, <3>6, WorldStays DEF TodoConfigured
    <3>8. phase' # "done" /\ DirWalked' /\ NoChildrenYet'
      BY <1>1, <3>1, WorldStays DEF DInv, DirWalked, NoChildrenYet
    <3> QED
      BY <1>0, <1>3, <3>1, <3>5, <3>7, <3>8, FilesStay DEF DInv
  <2> QED
    BY <2>1, <2>2
<1>5. CASE NextRule
  <2>1. /\ phase' = "walk" /\ rule' = rule + 1
        /\ pending' = <<source.rules[rule + 1].dir>>
        /\ UNCHANGED <<todo, explicit, children, files>>
        /\ phase \in {"explicit", "walk"}
    BY <1>5 DEF NextRule
  <2>2. Len(children') = 0
    BY <2>1 DEF DInv, NoChildrenYet
  <2>3. rule' \in 1..Len(source'.rules)
    BY <1>5, <2>1, RuleDirectories DEF TypeOK, NextRule, DInv, world
  <2>4. PICK d : d = source.rules[rule + 1].dir
    OBVIOUS
  <2>5. PendingWalked'
    <3>1. pending' = <<d>> /\ d = source'.rules[rule'].dir
      BY <2>1, <2>4 DEF world
    <3>2. pending'[1] = d /\ Len(pending') = 1
      BY <3>1
    <3>3. d \in Directories
      BY <1>5, <2>4, RuleDirectories DEF DInv, TypeOK, NextRule
    <3>4. Walked(d)'
      <4>1. (d = source.rules[rule].dir)'
        BY <3>1
      <4>2. (rule \in 1..Len(source.rules))'
        BY <2>3
      <4> QED
        BY <3>3, <4>1, <4>2 DEF Walked
    <3>5. ASSUME NEW i \in 1..Len(pending') PROVE Walked(pending[i])'
      <4>1. i = 1
        BY <3>2
      <4>2. pending'[i] = d
        BY <3>2, <4>1
      <4> QED
        BY <3>4, <4>2 DEF Walked
    <3> QED
      BY <3>5 DEF PendingWalked
  <2> QED
    BY <1>0, <1>3, <2>1, <2>2, <2>5, FilesStay
       DEF DInv, ChildrenWalked, DirWalked, NoChildrenYet
<1>6. CASE OpenDirectory
  <2>1. CASE seenDirs >= MaxDirectories \/ ~DirectoryAt(Head(pending))
    BY <1>2, <1>6, <2>1 DEF OpenDirectory
  <2>2. CASE ~(seenDirs >= MaxDirectories) /\ DirectoryAt(Head(pending))
    <3>1. /\ phase = "walk" /\ phase' = "read" /\ pending # <<>>
          /\ dir'.path = Head(pending) /\ pending' = Tail(pending)
          /\ UNCHANGED <<todo, explicit, rule, children, files>>
      BY <1>6, <2>2 DEF OpenDirectory
    <3>2. pending \in Seq(Directories)
      BY DEF DInv, TypeOK, Directories
    <3>3. /\ Walked(Head(pending))
          /\ \A i \in 1..Len(Tail(pending)) : Walked(Tail(pending)[i])
      BY <3>1, <3>2 DEF DInv, PendingWalked
    <3>4. DirWalked' /\ PendingWalked'
      BY <3>1, <3>3, WorldStays DEF DirWalked, PendingWalked
    <3> QED
      BY <1>0, <1>3, <3>1, <3>4, FilesStay DEF DInv, NoChildrenYet
  <2> QED
    BY <2>1, <2>2
<1>7. CASE ReadDirectory
  <2>1. (\E code : Fail(code))
          \/ /\ phase = "read" /\ phase' = "entries" /\ children' = <<>>
             /\ UNCHANGED <<todo, explicit, rule, pending, dir, files>>
    BY <1>7 DEF ReadDirectory
  <2>2. CASE /\ phase = "read" /\ phase' = "entries" /\ children' = <<>>
             /\ UNCHANGED <<todo, explicit, rule, pending, dir, files>>
    <3>1. Len(children') = 0
      BY <2>2
    <3>2. DirWalked'
      BY <2>2, WorldStays DEF DInv, DirWalked
    <3> QED
      BY <1>0, <1>3, <2>2, <3>1, <3>2, FilesStay DEF DInv, ChildrenWalked, NoChildrenYet
  <2> QED
    BY <1>2, <2>1, <2>2
<1>8. CASE Entry
  <2> DEFINE p == Append(dir.path, Head(listing).name)
  <2>1. phase = "entries"
    BY <1>8 DEF Entry
  <2>2. \/ \E code : Fail(code)
        \/ PassOver
        \/ Child(p) /\ DirectoryAt(p) /\ Recursive
        \/ Record(p) /\ Matches(p) /\ (p \in DOMAIN files \/ RegularAt(p) # {})
    BY <1>8 DEF Entry
  <2>3. Walked(dir.path)
    BY <2>1 DEF DInv, DirWalked
  <2>4. ASSUME UNCHANGED <<phase, rule, dir>> PROVE phase' # "done" /\ DirWalked' /\ NoChildrenYet'
    BY <2>1, <2>4, WorldStays DEF DInv, DirWalked, NoChildrenYet
  <2>5. CASE PassOver
    BY <1>0, <1>3, <2>4, <2>5, FilesStay DEF PassOver, DInv
  <2>6. CASE Child(p) /\ DirectoryAt(p) /\ Recursive
    <3>1. Walked(p)
      BY <2>3, <2>6, OpensAreTyped, WalkedDirectoriesAreWalked DEF DInv
    <3> HIDE DEF p
    <3>2. /\ children' = Append(children, p)
          /\ UNCHANGED <<phase, todo, explicit, rule, pending, dir, files>>
      BY <2>6 DEF Child
    <3>3. children \in Seq(Directories)
      BY DEF DInv, TypeOK, Directories
    <3>4. \A i \in 1..Len(Append(children, p)) : Walked(Append(children, p)[i])
      BY <3>1, <3>3 DEF DInv, ChildrenWalked
    <3>5. ChildrenWalked'
      BY <3>2, <3>4, WorldStays DEF ChildrenWalked
    <3> QED
      BY <1>0, <1>3, <2>4, <3>2, <3>5, FilesStay DEF DInv
  <2>7. CASE Record(p) /\ Matches(p) /\ p \in DOMAIN files
    BY <1>0, <1>2, <1>3, <2>4, <2>7, FilesStay DEF Record, DInv
  <2>8. CASE Record(p) /\ Matches(p) /\ p \notin DOMAIN files /\ RegularAt(p) # {}
    <3>1. p \in Paths /\ FileAt(p).size \in Nat /\ StillThere(p, FileAt(p))
      BY <2>8, OpenedIsThere DEF DInv
    <3>2. PathIsConfigured(p)
      BY <2>3, <2>8, <3>1, WalkedFilesAreConfigured
    <3> HIDE DEF p
    <3>3. CASE Cardinality(DOMAIN files) >= MaxFiles
      BY <1>2, <2>8, <3>3 DEF Record
    <3>4. CASE ~(Cardinality(DOMAIN files) >= MaxFiles)
      <4>1. /\ files' = With(files, p, FileAt(p))
            /\ UNCHANGED <<phase, todo, explicit, rule, pending, dir, children>>
        BY <2>8, <3>4 DEF Record
      <4>2. Reopen(With(files, p, FileAt(p)))
        BY <3>1, <3>2, ReopenWith DEF DInv
      <4>3. Reopen(files)'
        BY <4>1, <4>2, WorldStays DEF Reopen
      <4> QED
        BY <1>0, <1>3, <2>4, <4>1, <4>3, FilesStay DEF DInv
    <3> QED
      BY <3>3, <3>4
  <2> QED
    BY <1>2, <2>2, <2>5, <2>6, <2>7, <2>8
<1>9. CASE EndDirectory
  <2>1. /\ pending' = children \o pending /\ children' = <<>> /\ phase' = "walk"
        /\ UNCHANGED <<todo, explicit, rule, files>>
    BY <1>9 DEF EndDirectory, Deeper
  <2>2. children \in Seq(Directories) /\ pending \in Seq(Directories)
    BY DEF DInv, TypeOK, Directories
  <2>3. \A i \in 1..Len(children \o pending) : Walked((children \o pending)[i])
    BY <2>2 DEF DInv, ChildrenWalked, PendingWalked
  <2>4. PendingWalked'
    BY <2>1, <2>3, WorldStays DEF PendingWalked
  <2>5. Len(children') = 0
    BY <2>1
  <2> QED
    BY <1>0, <1>3, <2>1, <2>4, <2>5, FilesStay DEF DInv, ChildrenWalked, DirWalked, NoChildrenYet
<1>10. CASE Finish
  <2>1. \/ \E code : Fail(code)
        \/ /\ phase' = "done" /\ answer' = [files |-> Merged(explicit, files)]
           /\ UNCHANGED <<todo, explicit, rule, pending, children, files>>
    BY <1>10 DEF Finish, Return
  <2>2. CASE /\ phase' = "done" /\ answer' = [files |-> Merged(explicit, files)]
             /\ UNCHANGED <<todo, explicit, rule, pending, children, files>>
    <3>1. Reopen(Merged(explicit, files))
      BY ReopenMerged DEF DInv
    <3>2. answer'.files = Merged(explicit, files)
      BY <2>2
    <3>3. AnswerReopens'
      BY <3>1, <3>2, WorldStays DEF AnswerReopens, Reopen
    <3> QED
      BY <1>0, <2>2, <3>3, FilesStay DEF DInv, DirWalked, NoChildrenYet
  <2> QED
    BY <1>2, <2>1, <2>2
<1> QED
  BY <1>4, <1>5, <1>6, <1>7, <1>8, <1>9, <1>10 DEF Step

LEMMA ReopenOthers == DInv /\ Environment => DInv'
<1> SUFFICES ASSUME DInv, Environment PROVE DInv'
  OBVIOUS
<1>1. TypeOK /\ TypeOK'
  BY LeftAloneKeeps DEF DInv, TypeOK, walk, counts
<1>2. UNCHANGED <<source, phase, todo, explicit, rule, pending, dir, children, files, answer>>
  BY <1>1, LeftAloneKeeps DEF walk
<1>3. /\ \A p : PathIsConfigured(p)' <=> PathIsConfigured(p)
      /\ \A d : Walked(d)' <=> Walked(d)
  BY <1>2 DEF PathIsConfigured, Walked, Allows, Under
<1>4. ASSUME NEW p \in Paths, NEW file, file.size \in Nat, LeftAlone(p)',
             LeftAlone(p) => StillThere(p, file)
      PROVE  StillThere(p, file)'
  <2>1. StillThere(p, file)
    BY <1>1, <1>4, LeftAloneKeeps
  <2>2. /\ fs'[p] # None /\ fs'[p].type = "file"
        /\ fs'[p].id = fs[p].id /\ fs'[p].size >= fs[p].size
    BY <1>1, <1>4, <2>1, LeftAloneKeeps DEF StillThere
  <2>3. fs[p].size \in Nat /\ fs'[p].size \in Nat
    <3>1. fs[p] \in Nodes /\ fs'[p] \in Nodes
      BY <1>1, <2>1, <2>2 DEF TypeOK, StillThere
    <3> QED
      BY <3>1 DEF Nodes
  <2> QED
    BY <1>4, <2>1, <2>2, <2>3 DEF StillThere
<1>5. Reopen(explicit)' /\ Reopen(files)'
  BY <1>2, <1>3, <1>4, LeftAloneKeeps DEF DInv, Reopen
<1>6. AnswerReopens'
  <2> SUFFICES ASSUME Succeeded' PROVE Reopen(answer.files)'
    BY DEF AnswerReopens
  <2>1. Reopen(answer.files)
    BY <1>2 DEF DInv, AnswerReopens, Succeeded, Done
  <2> QED
    BY <1>2, <1>3, <1>4, <2>1 DEF Reopen
<1>7. TodoConfigured' /\ PendingWalked' /\ ChildrenWalked'
  BY <1>2, <1>3 DEF DInv, TodoConfigured, PendingWalked, ChildrenWalked
<1>8. DirWalked' /\ NoChildrenYet'
  BY <1>2, <1>3 DEF DInv, DirWalked, NoChildrenYet
<1> QED
  BY <1>1, <1>5, <1>6, <1>7, <1>8 DEF DInv

LEMMA ReopenUnchanged == DInv /\ UNCHANGED vars => DInv'
<1> SUFFICES ASSUME DInv, UNCHANGED vars PROVE DInv'
  OBVIOUS
<1>1. UNCHANGED <<world, phase, todo, explicit, rule, pending, dir, children, files, answer>>
  BY DEF vars, walk
<1>2. TypeOK'
  BY DEF DInv, TypeOK, vars, world, walk, counts
<1>3. AnswerReopens'
  BY <1>1, WorldStays DEF DInv, AnswerReopens, Succeeded, Done, Reopen
<1>4. DirWalked' /\ NoChildrenYet'
  BY <1>1, WorldStays DEF DInv, DirWalked, NoChildrenYet
<1> QED
  BY <1>1, <1>2, <1>3, <1>4, FilesStay DEF DInv

\* Every file of a snapshot can be opened again as long as nobody touches it, and
\* none is ever refused as not configured.
THEOREM ReopenSafety == Spec => []SnapshotsReopen
<1>1. DInv /\ [Next]_vars => DInv'
  <2> SUFFICES ASSUME DInv, [Next]_vars PROVE DInv'
    OBVIOUS
  <2>1. CASE Step /\ UNCHANGED world
    BY <2>1, ReopenStep
  <2>2. CASE Environment
    BY <2>2, ReopenOthers
  <2>3. CASE UNCHANGED vars
    BY <2>3, ReopenUnchanged
  <2> QED
    BY <2>1, <2>2, <2>3 DEF Next
<1>2. DInv => SnapshotsReopen
  <2> SUFFICES ASSUME DInv, Succeeded, NEW p \in DOMAIN answer.files
               PROVE  /\ OpenSnapshot(p) # "PathNotConfigured"
                      /\ LeftAlone(p) => OpenSnapshot(p) = "Opened"
    BY DEF SnapshotsReopen, Found
  <2>1. /\ p \in Paths /\ PathIsConfigured(p)
        /\ LeftAlone(p) => StillThere(p, answer.files[p])
        /\ answer.files[p].size \in Nat
    BY DEF DInv, AnswerReopens, Reopen
  <2>2. OpenSnapshot(p) # "PathNotConfigured"
    BY <2>1 DEF OpenSnapshot
  <2>3. ASSUME LeftAlone(p) PROVE OpenSnapshot(p) = "Opened"
    <3>1. StillThere(p, answer.files[p])
      BY <2>1, <2>3
    <3>2. RegularAt(p) # {}
      BY <2>1, <3>1 DEF StillThere, RegularAt, Exists
    <3>3. FileAt(p) = [id |-> fs[p].id, size |-> fs[p].size]
      BY <3>2, OpensAreTyped DEF DInv
    <3>4. fs[p].size \in Nat
      <4>1. fs[p] \in Nodes
        BY <2>1, <3>1 DEF DInv, TypeOK, StillThere
      <4> QED
        BY <4>1 DEF Nodes
    <3>5. FileAt(p).id = answer.files[p].id /\ ~(FileAt(p).size < answer.files[p].size)
      BY <2>1, <3>1, <3>3, <3>4 DEF StillThere
    <3> QED
      BY <2>1, <3>2, <3>5 DEF OpenSnapshot
  <2> QED
    BY <2>2, <2>3
<1> QED
  BY <1>1, <1>2, ReopenInit, PTL DEF Spec

-----------------------------------------------------------------------------
(***************************************************************************)
(* Paths that begin with others, and names joined to them.                 *)
(***************************************************************************)

\* A beginning of a beginning is a beginning.
LEMMA BeginningOfBeginning ==
  ASSUME NEW S, NEW x \in Seq(S), NEW m \in 0..Len(x), NEW n \in 0..m
  PROVE  SubSeq(SubSeq(x, 1, m), 1, n) = SubSeq(x, 1, n)
  OBVIOUS

\* Sequences of one length with the same elements are the same.
LEMMA SameSequence ==
  ASSUME NEW S, NEW v \in Seq(S), NEW w \in Seq(S), Len(v) = Len(w), \A i \in 1..Len(v) : v[i] = w[i]
  PROVE  v = w
  OBVIOUS

\* A sequence is its beginning and the rest.
LEMMA JoinedAgain ==
  ASSUME NEW S, NEW x \in Seq(S), NEW n \in 0..Len(x)
  PROVE  /\ x = SubSeq(x, 1, n) \o SubSeq(x, n + 1, Len(x))
         /\ SubSeq(x, n + 1, Len(x)) \in Seq(S) /\ Len(SubSeq(x, n + 1, Len(x))) = Len(x) - n
<1>1. PICK l \in Nat : l = Len(x) /\ n <= l /\ n \in Nat
  OBVIOUS
<1>2. /\ 1 \in 1..(l + 1) /\ n \in (1 - 1)..l /\ l \in n..l
  BY <1>1
<1>3. SubSeq(x, 1, n) \o SubSeq(x, n + 1, l) = SubSeq(x, 1, l)
  BY <1>1, <1>2, ConcatAdjacentSubSeq
<1>4. SubSeq(x, 1, l) = x
  BY <1>1
<1>5. \A i \in (n + 1)..l : x[i] \in S
  BY <1>1
<1>6. SubSeq(x, n + 1, l) \in Seq(S) /\ Len(SubSeq(x, n + 1, l)) = IF n + 1 <= l THEN l - (n + 1) + 1 ELSE 0
  <2>1. n + 1 \in Int /\ l \in Int
    BY <1>1
  <2> QED
    BY <1>5, <2>1, SubSeqProperties
<1>7. (IF n + 1 <= l THEN l - (n + 1) + 1 ELSE 0) = l - n
  BY <1>1
<1> QED
  BY <1>1, <1>3, <1>4, <1>6, <1>7

\* The beginnings of a path are paths.
LEMMA BeginningsArePaths ==
  ASSUME NEW p \in Paths, NEW n \in 1..Len(p)
  PROVE  SubSeq(p, 1, n) \in Paths /\ Len(SubSeq(p, 1, n)) = n
<1>1. PICK m \in 1..Depth : p \in [1..m -> Names]
  BY DEF Paths
<1>2. p \in Seq(Names) /\ Len(p) = m /\ n \in 1..m
  BY <1>1, NamesAssumption
<1>3. SubSeq(p, 1, n) \in [1..n -> Names] /\ Len(SubSeq(p, 1, n)) = n
  <2>1. 1 \in Int /\ n \in Int /\ (\A i \in 1..n : p[i] \in Names) /\ n \in Nat
    BY <1>2
  <2>2. SubSeq(p, 1, n) \in Seq(Names) /\ Len(SubSeq(p, 1, n)) = IF 1 <= n THEN n - 1 + 1 ELSE 0
    BY <2>1, SubSeqProperties
  <2>3. Len(SubSeq(p, 1, n)) = n
    BY <1>2, <2>2
  <2>4. PICK v \in Seq(Names) : v = SubSeq(p, 1, n) /\ Len(v) = n
    BY <2>2, <2>3
  <2>5. v \in [1..n -> Names]
    <3>1. v \in [1..Len(v) -> Names]
      BY <2>4, LenProperties
    <3> QED
      BY <2>4, <3>1
  <2> QED
    BY <2>4, <2>5
<1>4. n \in 1..Depth
  BY <1>2, NamesAssumption
<1> QED
  BY <1>3, <1>4 DEF Paths

\* Names joined to a path.
Joined(d, t) == d \o t

\* What joining gives, that it is associative, that it can be undone, and that
\* joining nothing changes nothing.
LEMMA JoinedTyped ==
  ASSUME NEW d \in Seq(Names), NEW t \in Seq(Names)
  PROVE  /\ Joined(d, t) \in Seq(Names)
         /\ Len(Joined(d, t)) = Len(d) + Len(t)
         /\ Len(d) \in Nat /\ Len(t) \in Nat
         /\ t # <<>> => Len(t) # 0
  BY ConcatProperties, EmptySeq DEF Joined

LEMMA JoinedTwice ==
  ASSUME NEW d \in Seq(Names), NEW s \in Seq(Names), NEW t \in Seq(Names)
  PROVE  Joined(Joined(d, s), t) = Joined(d, Joined(s, t))
  BY ConcatAssociative DEF Joined

LEMMA JoinedOnce ==
  ASSUME NEW d \in Seq(Names), NEW s \in Seq(Names), NEW t \in Seq(Names), Joined(d, s) = Joined(d, t)
  PROVE  s = t
  BY ConcatSimplifications DEF Joined

LEMMA JoinedNothing ==
  \E e \in Seq(Names) : e = <<>> /\ \A d \in Seq(Names) : Joined(d, e) = d
<1>1. <<>> \in Seq(Names) /\ \A d \in Seq(Names) : Joined(d, <<>>) = d
  BY ConcatEmptySeq, EmptySeq DEF Joined
<1>2. PICK e : e = <<>>
  OBVIOUS
<1>3. e \in Seq(Names) /\ \A d \in Seq(Names) : Joined(d, e) = d
  BY <1>1, <1>2
<1> QED
  BY <1>2, <1>3

\* What lies under a path is the path and more names.
LEMMA UnderIsMore ==
  ASSUME NEW d \in Seq(Names), NEW x \in Seq(Names)
  PROVE  /\ Under(d, x) => \E t \in Seq(Names) : x = Joined(d, t) /\ t # <<>>
         /\ \A t \in Seq(Names) :
              x = Joined(d, t) =>
                (x = d \/ Under(d, x)) /\ Len(x) >= Len(d) /\ (Len(x) = Len(d) => x = d)
<1>1. ASSUME Under(d, x) PROVE \E t \in Seq(Names) : x = Joined(d, t) /\ t # <<>>
  <2>0. Len(x) \in Nat /\ Len(d) \in Nat
    OBVIOUS
  <2>1. PICK l \in Nat, n \in Nat : l = Len(x) /\ n = Len(d) /\ l > n
    BY <1>1, <2>0 DEF Under
  <2>2. n \in 0..l
    BY <2>1
  <2>3. PICK t \in Seq(Names) : t = SubSeq(x, n + 1, l) /\ x = Joined(SubSeq(x, 1, n), t) /\ Len(t) = l - n
    BY <2>1, <2>2, JoinedAgain DEF Joined
  <2>4. Len(t) > 0
    BY <2>1, <2>3
  <2>5. t # <<>>
    BY <2>4
  <2>6. SubSeq(x, 1, n) = d
    BY <1>1, <2>1 DEF Under
  <2> QED
    BY <2>3, <2>5, <2>6
<1>2. ASSUME NEW t \in Seq(Names), x = Joined(d, t)
      PROVE  (x = d \/ Under(d, x)) /\ Len(x) >= Len(d) /\ (Len(x) = Len(d) => x = d)
  <2>1. Len(x) = Len(d) + Len(t) /\ Len(t) \in Nat /\ Len(d) \in Nat
    BY <1>2, JoinedTyped
  <2>2. CASE t = <<>>
    <3>1. x = d
      BY <1>2, <2>2, JoinedNothing
    <3> QED
      BY <2>1, <3>1
  <2>3. CASE t # <<>>
    <3>1. Len(t) > 0
      BY <2>3
    <3>2. SubSeq(x, 1, Len(d)) = d
      BY <1>2 DEF Joined
    <3>3. Len(x) > Len(d)
      BY <2>1, <3>1
    <3>4. Len(x) # Len(d) /\ Len(x) >= Len(d)
      BY <2>1, <3>3
    <3> QED
      BY <3>2, <3>3, <3>4 DEF Under
  <2> QED
    BY <2>1, <2>2, <2>3
<1> QED
  BY <1>1, <1>2

\* The entry of the directory d on the way to p.
LEMMA OnTheWay ==
  ASSUME NEW p \in Paths, NEW d \in Directories, Under(d, p)
  PROVE  LET w == SubSeq(p, 1, Len(d) + 1)
         IN  /\ Len(d) + 1 \in DOMAIN p /\ p[Len(d) + 1] \in Names
             /\ w \in Paths /\ Len(w) = Len(d) + 1 /\ w = Append(d, p[Len(d) + 1])
             /\ Len(p) = Len(d) + 1 => w = p
             /\ Len(p) # Len(d) + 1 => Under(w, p)
<1>1. PICK l \in Nat, m \in Nat : /\ l = Len(p) /\ m = Len(d) /\ l > m
                               /\ p \in Seq(Names) /\ d \in Seq(Names) /\ SubSeq(p, 1, m) = d
  <2>1. Len(p) \in Nat /\ Len(d) \in Nat /\ p \in Seq(Names) /\ d \in Seq(Names)
    BY PathsAreSequences
  <2> QED
    BY <2>1 DEF Under
<1>2. m + 1 \in 1..l
  BY <1>1
<1>3. m + 1 \in DOMAIN p /\ p[m + 1] \in Names
  BY <1>1, <1>2
<1>4. PICK w \in Paths : w = SubSeq(p, 1, m + 1) /\ Len(w) = m + 1
  BY <1>1, <1>2, BeginningsArePaths
<1>5. w = Append(d, p[m + 1])
  <2>1. w \in Seq(Names) /\ Append(d, p[m + 1]) \in Seq(Names)
    BY <1>1, <1>3, PathsAreSequences
  <2>2. Len(Append(d, p[m + 1])) = m + 1
    BY <1>1, <1>3
  <2>3. ASSUME NEW i \in 1..(m + 1) PROVE w[i] = Append(d, p[m + 1])[i]
    <3>1. w[i] = p[i]
      BY <1>1, <1>2, <1>4
    <3>2. CASE i = m + 1
      BY <1>1, <1>3, <3>1, <3>2
    <3>3. CASE i # m + 1
      <4>1. i \in 1..m
        BY <1>1, <3>3
      <4>2. d[i] = p[i]
        BY <1>1, <4>1
      <4> QED
        BY <1>1, <1>3, <3>1, <4>1, <4>2
    <3> QED
      BY <3>2, <3>3
  <2> QED
    BY <1>4, <2>1, <2>2, <2>3, SameSequence
<1>6. l = m + 1 => w = p
  <2>1. SubSeq(p, 1, l) = p
    BY <1>1
  <2> QED
    BY <1>4, <2>1
<1>7. l # m + 1 => Under(w, p)
  <2>1. l # m + 1 => l > m + 1
    BY <1>1
  <2> QED
    BY <1>1, <1>4, <2>1 DEF Under
<1> QED
  BY <1>1, <1>3, <1>4, <1>5, <1>6, <1>7

-----------------------------------------------------------------------------
(***************************************************************************)
(* Trees and what a rename makes of them.                                  *)
(***************************************************************************)

\* What a rename moves, where it puts it, and the tree it leaves.
Behind(p, x) == SubSeq(x, Len(p) + 1, Len(x))
Moved(p) == {p} \cup {x \in Paths : Under(p, x)}
Place(p, q) == [x \in Moved(p) |-> Joined(q, Behind(p, x))]
Renamed(tree, p, q) ==
  [x \in Paths |-> IF x \in Range(Place(p, q)) THEN tree[CHOOSE y \in Moved(p) : Place(p, q)[y] = x]
                   ELSE IF x \in Moved(p) THEN None ELSE tree[x]]

\* What is moved is p and more names, and comes to lie at q and these names.
LEMMA PlacesAreJoined ==
  ASSUME NEW p \in Paths, NEW q \in Paths
  PROVE  /\ \A y \in Moved(p) :
              /\ y \in Paths
              /\ \E t \in Seq(Names) : y = Joined(p, t) /\ Place(p, q)[y] = Joined(q, t)
         /\ \A t \in Seq(Names) :
              Joined(p, t) \in Paths =>
                Joined(p, t) \in Moved(p) /\ Place(p, q)[Joined(p, t)] = Joined(q, t)
<1>1. p \in Seq(Names) /\ q \in Seq(Names) /\ Len(p) \in Nat \ {0}
  BY PathsAreSequences
<1>2. ASSUME NEW t \in Seq(Names), Joined(p, t) \in Paths
      PROVE  Joined(p, t) \in Moved(p) /\ Behind(p, Joined(p, t)) = t
  <2>1. PICK y \in Seq(Names) : y = Joined(p, t) /\ y \in Paths
    BY <1>2, PathsAreSequences
  <2>2. y = p \/ Under(p, y)
    BY <1>1, <2>1, UnderIsMore
  <2>3. Len(p) \in 0..Len(y)
    <3>1. Len(y) = Len(p) + Len(t) /\ Len(t) \in Nat
      BY <1>1, <2>1, JoinedTyped
    <3> QED
      BY <1>1, <3>1
  <2>4. y = Joined(SubSeq(y, 1, Len(p)), Behind(p, y)) /\ Behind(p, y) \in Seq(Names)
    BY <2>1, <2>3, JoinedAgain DEF Behind, Joined
  <2>5. SubSeq(y, 1, Len(p)) = p
    BY <1>1, <2>1, <2>2 DEF Under
  <2>6. Joined(p, t) = Joined(p, Behind(p, y))
    BY <2>1, <2>4, <2>5
  <2>7. Behind(p, y) = t
    BY <1>1, <2>4, <2>6, JoinedOnce
  <2> QED
    BY <2>1, <2>2, <2>7 DEF Moved
<1>3. ASSUME NEW y \in Moved(p)
      PROVE  y \in Paths /\ \E t \in Seq(Names) : y = Joined(p, t) /\ Place(p, q)[y] = Joined(q, t)
  <2>1. y \in Paths /\ (y = p \/ Under(p, y))
    BY <1>3 DEF Moved
  <2>2. \E t \in Seq(Names) : y = Joined(p, t)
    <3>1. y \in Seq(Names)
      BY <2>1, PathsAreSequences
    <3>2. CASE y = p
      <4>1. PICK e \in Seq(Names) : Joined(p, e) = p
        BY <1>1, JoinedNothing
      <4> QED
        BY <3>2, <4>1
    <3>3. CASE Under(p, y)
      BY <1>1, <3>1, <3>3, UnderIsMore
    <3> QED
      BY <2>1, <3>2, <3>3
  <2>3. PICK t \in Seq(Names) : y = Joined(p, t)
    BY <2>2
  <2>4. Behind(p, y) = t
    BY <1>2, <2>1, <2>3
  <2> QED
    BY <2>1, <2>3, <2>4 DEF Place
<1> QED
  BY <1>2, <1>3 DEF Place

\* What lay at p and t lands at x. The tree a rename leaves: what lay at p and below
\* now lies at q, nothing lies at p, all else stays.
Lands(p, q, x, t) == t \in Seq(Names) /\ x = Joined(q, t) /\ Joined(p, t) \in Paths

LEMMA RenamedTree ==
  ASSUME NEW tree, NEW p \in Paths, NEW q \in Paths, NEW x \in Paths
  PROVE  \/ \E t : Lands(p, q, x, t) /\ Renamed(tree, p, q)[x] = tree[Joined(p, t)]
         \/ (\A t : ~Lands(p, q, x, t)) /\ x \in Moved(p) /\ Renamed(tree, p, q)[x] = None
         \/ (\A t : ~Lands(p, q, x, t)) /\ x \notin Moved(p) /\ Renamed(tree, p, q)[x] = tree[x]
<1> DEFINE place == Place(p, q)
           origin(y) == CHOOSE z \in Moved(p) : place[z] = y
<1>1. Range(place) = {place[y] : y \in Moved(p)}
  BY DEF Range, Place
<1>2. Renamed(tree, p, q)[x] = IF x \in Range(place) THEN tree[origin(x)]
                               ELSE IF x \in Moved(p) THEN None ELSE tree[x]
  BY DEF Renamed
<1>3. CASE x \in Range(place)
  <2>1. PICK y : y = origin(x)
    OBVIOUS
  <2>2. y \in Moved(p) /\ place[y] = x
    BY <1>1, <1>3, <2>1
  <2>3. PICK t \in Seq(Names) : y = Joined(p, t) /\ place[y] = Joined(q, t) /\ y \in Paths
    BY <2>2, PlacesAreJoined
  <2>4. Lands(p, q, x, t)
    BY <2>2, <2>3 DEF Lands
  <2> HIDE DEF place, origin
  <2> QED
    BY <1>2, <1>3, <2>1, <2>3, <2>4
<1>4. CASE x \notin Range(place)
  <2>1. ASSUME NEW t, Lands(p, q, x, t) PROVE FALSE
    <3>1. Joined(p, t) \in Moved(p) /\ place[Joined(p, t)] = x
      BY <2>1, PlacesAreJoined DEF Lands
    <3> QED
      BY <1>1, <1>4, <3>1
  <2> HIDE DEF place, origin
  <2> QED
    BY <1>2, <1>4, <2>1
<1> QED
  BY <1>3, <1>4

\* Above what a path leads to there are directories.
LEMMA AboveAreDirectories ==
  ASSUME NEW tree, InDirectories(tree), NEW x \in Paths, tree[x] # None, NEW y \in Paths, Under(y, x)
  PROVE  tree[y] # None /\ tree[y].type = "dir"
<1>1. Len(x) \in Nat /\ Len(y) \in Nat \ {0} /\ Len(x) > Len(y) /\ SubSeq(x, 1, Len(y)) = y
  BY PathsAreSequences DEF Under
<1>2. Len(y) \in 1..(Len(x) - 1)
  BY <1>1
<1> QED
  BY <1>1, <1>2 DEF InDirectories

\* InDirectories, said with Under.
LEMMA InDirectoriesIf ==
  ASSUME NEW tree,
         \A x, y \in Paths : tree[x] # None /\ Under(y, x) => tree[y] # None /\ tree[y].type = "dir"
  PROVE  InDirectories(tree)
<1> SUFFICES ASSUME NEW x \in Paths, tree[x] # None, NEW n \in 1..(Len(x) - 1)
             PROVE  tree[SubSeq(x, 1, n)] # None /\ tree[SubSeq(x, 1, n)].type = "dir"
  BY DEF InDirectories
<1>1. Len(x) \in Nat
  BY PathsAreSequences
<1>2. n \in 1..Len(x) /\ Len(x) > n
  BY <1>1
<1>3. PICK y \in Paths : y = SubSeq(x, 1, n) /\ Len(y) = n
  BY <1>2, BeginningsArePaths
<1>4. Under(y, x)
  BY <1>2, <1>3 DEF Under
<1> QED
  BY <1>3, <1>4

\* What is under a path that is under another is under the other, and of two paths
\* that one path is under one is under the other.
LEMMA UnderUnder ==
  ASSUME NEW x \in Seq(Names), NEW y \in Seq(Names), NEW z \in Seq(Names)
  PROVE  /\ Under(z, y) /\ Under(y, x) => Under(z, x)
         /\ (Under(y, x) \/ y = x) /\ (Under(z, x) \/ z = x) => (Under(z, y) \/ z = y \/ Under(y, z))
         /\ ~Under(x, x)
<1>1. PICK l \in Nat, m \in Nat, k \in Nat : l = Len(x) /\ m = Len(y) /\ k = Len(z)
  <2>1. Len(x) \in Nat /\ Len(y) \in Nat /\ Len(z) \in Nat
    OBVIOUS
  <2> QED
    BY <2>1
<1>2. SubSeq(x, 1, l) = x
  BY <1>1
<1>3. ASSUME NEW i \in Nat, NEW j \in Nat, i <= j, j <= l
      PROVE  SubSeq(SubSeq(x, 1, j), 1, i) = SubSeq(x, 1, i)
  <2>1. j \in 0..Len(x) /\ i \in 0..j
    BY <1>1, <1>3
  <2> QED
    BY <2>1, BeginningOfBeginning
<1>4. ASSUME Under(z, y), Under(y, x) PROVE Under(z, x)
  <2>1. l > m /\ m > k /\ SubSeq(x, 1, m) = y /\ SubSeq(y, 1, k) = z
    BY <1>1, <1>4 DEF Under
  <2>2. SubSeq(x, 1, k) = z
    BY <1>3, <2>1
  <2> QED
    BY <1>1, <2>1, <2>2 DEF Under
<1>5. ASSUME Under(y, x) \/ y = x, Under(z, x) \/ z = x PROVE Under(z, y) \/ z = y \/ Under(y, z)
  <2>1. l >= m /\ SubSeq(x, 1, m) = y /\ l >= k /\ SubSeq(x, 1, k) = z
    BY <1>1, <1>2, <1>5 DEF Under
  <2>2. CASE k < m
    <3>1. SubSeq(y, 1, k) = z
      BY <1>3, <2>1, <2>2
    <3> QED
      BY <1>1, <2>2, <3>1 DEF Under
  <2>3. CASE m < k
    <3>1. SubSeq(z, 1, m) = y
      BY <1>3, <2>1, <2>3
    <3> QED
      BY <1>1, <2>3, <3>1 DEF Under
  <2>4. CASE m = k
    BY <2>1, <2>4
  <2> QED
    BY <1>1, <2>2, <2>3, <2>4
<1>6. ~Under(x, x)
  BY <1>1 DEF Under
<1> QED
  BY <1>4, <1>5, <1>6

\* The directory of a path is the last of those above it.
LEMMA FrontIsBeginning ==
  ASSUME NEW q \in Paths
  PROVE  /\ Front(q) = Root \/ (Front(q) \in Paths /\ Under(Front(q), q))
         /\ \A y \in Paths : Under(y, q) => Front(q) \in Paths /\ (y = Front(q) \/ Under(y, Front(q)))
<1>1. q \in Seq(Names) /\ Len(q) \in Nat \ {0}
  BY PathsAreSequences
<1>2. Front(q) = SubSeq(q, 1, Len(q) - 1)
  BY DEF Front
<1>3. ASSUME Len(q) # 1 PROVE Front(q) \in Paths /\ Len(Front(q)) = Len(q) - 1 /\ Under(Front(q), q)
  <2>1. Len(q) - 1 \in 1..Len(q)
    <3>1. PICK n \in Nat : n = Len(q) /\ n # 0 /\ n # 1
      BY <1>1, <1>3
    <3>2. n - 1 \in 1..n
      BY <3>1
    <3> QED
      BY <3>1, <3>2
  <2>2. Front(q) \in Paths /\ Len(Front(q)) = Len(q) - 1
    BY <1>2, <2>1, BeginningsArePaths
  <2> QED
    <3>1. PICK f \in Paths : f = Front(q) /\ Len(f) = Len(q) - 1 /\ f = SubSeq(q, 1, Len(q) - 1)
      BY <1>2, <2>2
    <3>2. SubSeq(q, 1, Len(f)) = f /\ Len(q) > Len(f)
      BY <1>1, <3>1
    <3> QED
      BY <2>2, <3>1, <3>2 DEF Under
<1>4. ASSUME Len(q) = 1 PROVE Front(q) = Root
  BY <1>1, <1>2, <1>4 DEF Root
<1>5. ASSUME NEW y \in Paths, Under(y, q) PROVE Front(q) \in Paths /\ (y = Front(q) \/ Under(y, Front(q)))
  <2>1. y \in Seq(Names) /\ Len(y) \in Nat \ {0} /\ Len(q) > Len(y)
    BY <1>5, PathsAreSequences DEF Under
  <2>2. Front(q) \in Paths /\ Len(Front(q)) = Len(q) - 1 /\ Under(Front(q), q)
    BY <1>1, <1>3, <2>1
  <2>3. Front(q) \in Seq(Names)
    BY <2>2, PathsAreSequences
  <2>4. ~Under(Front(q), y)
    BY <1>1, <2>1, <2>2 DEF Under
  <2> QED
    BY <1>1, <1>5, <2>1, <2>2, <2>3, <2>4, UnderUnder
<1> QED
  BY <1>3, <1>4, <1>5

\* What is renamed where a rename can put it leaves everything in directories.
LEMMA RenamedInDirectories ==
  ASSUME NEW tree, InDirectories(tree), NEW p \in Paths, NEW q \in Paths,
         p # q, ~Under(p, q), tree[p] # None,
         Front(q) = Root \/ (tree[Front(q)] # None /\ tree[Front(q)].type = "dir"),
         tree[q] # None => tree[q].type # "dir"
  PROVE  InDirectories(Renamed(tree, p, q))
<1> DEFINE new == Renamed(tree, p, q)
<1>0. p \in Seq(Names) /\ q \in Seq(Names) /\ \A x \in Paths : x \in Seq(Names)
  BY PathsAreSequences
<1>1. ASSUME NEW x \in Paths, NEW y \in Paths, new[x] # None, Under(y, x)
      PROVE  new[y] # None /\ new[y].type = "dir"
  <2>1. CASE \E t : Lands(p, q, x, t) /\ new[x] = tree[Joined(p, t)]
    <3>1. PICK t \in Seq(Names) : x = Joined(q, t) /\ Joined(p, t) \in Paths /\ new[x] = tree[Joined(p, t)]
      BY <2>1 DEF Lands
    <3>2. q = x \/ Under(q, x)
      BY <1>0, <3>1, UnderIsMore
    <3>3. CASE Under(q, y) \/ q = y
      <4>1. \E s \in Seq(Names) : y = Joined(q, s)
        <5>1. CASE Under(q, y)
          BY <1>0, <5>1, UnderIsMore
        <5>2. CASE q = y
          <6>1. PICK e \in Seq(Names) : Joined(q, e) = q
            BY <1>0, JoinedNothing
          <6> QED
            BY <5>2, <6>1
        <5> QED
          BY <3>3, <5>1, <5>2
      <4>2. PICK s \in Seq(Names) : y = Joined(q, s)
        BY <4>1
      <4>3. PICK u \in Seq(Names) : x = Joined(y, u) /\ u # <<>>
        <5>1. x \in Seq(Names) /\ y \in Seq(Names)
          BY <1>0
        <5> QED
          BY ONLY <1>1, <5>1, UnderIsMore
      <4>4. t = Joined(s, u)
        <5>1. x = Joined(q, Joined(s, u)) /\ Joined(s, u) \in Seq(Names)
          BY <1>0, <4>2, <4>3, JoinedTwice, JoinedTyped
        <5> QED
          BY <1>0, <3>1, <5>1, JoinedOnce
      <4>5. Joined(p, s) \in Paths /\ Under(Joined(p, s), Joined(p, t))
        <5>1. Joined(p, t) = Joined(Joined(p, s), u) /\ Joined(p, s) \in Seq(Names) /\ Joined(p, t) \in Seq(Names)
          BY <1>0, <4>4, JoinedTwice, JoinedTyped
        <5>2. Len(Joined(p, t)) = Len(Joined(p, s)) + Len(u) /\ Len(u) \in Nat \ {0} /\ Len(Joined(p, s)) \in Nat
          BY <1>0, <4>3, <5>1, JoinedTyped
        <5>3. Joined(p, t) # Joined(p, s)
          BY <5>2
        <5>4. Under(Joined(p, s), Joined(p, t))
          BY <5>1, <5>3, UnderIsMore
        <5>5. Len(Joined(p, s)) = Len(p) + Len(s) /\ Len(p) \in Nat \ {0} /\ Len(s) \in Nat
          BY <1>0, PathsAreSequences, JoinedTyped
        <5>6. Len(Joined(p, s)) \in 1..Len(Joined(p, t))
          BY <5>2, <5>5
        <5>7. SubSeq(Joined(p, t), 1, Len(Joined(p, s))) \in Paths
          BY <3>1, <5>6, BeginningsArePaths
        <5> QED
          BY <5>4, <5>7 DEF Under
      <4>6. tree[Joined(p, s)] # None /\ tree[Joined(p, s)].type = "dir"
        BY <1>1, <3>1, <4>5, AboveAreDirectories
      <4>a. Lands(p, q, y, s)
        BY <4>2, <4>5 DEF Lands
      <4>7. PICK s2 : Lands(p, q, y, s2) /\ new[y] = tree[Joined(p, s2)]
        BY <4>a, RenamedTree
      <4>8. s2 = s
        BY <1>0, <4>2, <4>7, JoinedOnce DEF Lands
      <4> QED
        BY <4>6, <4>7, <4>8
    <3>4. CASE ~(Under(q, y) \/ q = y)
      <4>1. Under(y, q)
        BY <1>0, <1>1, <3>2, <3>4, UnderUnder
      <4>2. Front(q) \in Paths /\ (y = Front(q) \/ Under(y, Front(q)))
        BY <4>1, FrontIsBeginning
      <4>3. Front(q) # Root
        <5>1. Len(Front(q)) \in Nat \ {0}
          BY <4>2, PathsAreSequences
        <5> QED
          BY <5>1 DEF Root
      <4>4. tree[y] # None /\ tree[y].type = "dir"
        BY <4>2, <4>3, AboveAreDirectories
      <4>5. y \notin Moved(p)
        <5>1. ASSUME y = p \/ Under(p, y) PROVE Under(p, q)
          BY <1>0, <4>1, <5>1, UnderUnder
        <5> QED
          BY <5>1 DEF Moved
      <4>6. \A s \in Seq(Names) : y # Joined(q, s)
        BY <1>0, <3>4, UnderIsMore
      <4>7. new[y] = tree[y]
        BY <4>5, <4>6, RenamedTree DEF Lands
      <4> QED
        BY <4>4, <4>7
    <3> QED
      BY <3>3, <3>4
  <2>2. CASE x \notin Moved(p) /\ new[x] = tree[x]
    <3>1. tree[y] # None /\ tree[y].type = "dir"
      BY <1>1, <2>2, AboveAreDirectories
    <3>2. y \notin Moved(p)
      <4>1. ASSUME y = p \/ Under(p, y) PROVE Under(p, x)
        BY <1>0, <1>1, <4>1, UnderUnder
      <4> QED
        BY <2>2, <4>1 DEF Moved
    <3>3. ASSUME NEW s \in Seq(Names), y = Joined(q, s) PROVE FALSE
      <4>1. q = y \/ Under(q, y)
        BY <1>0, <3>3, UnderIsMore
      <4>2. tree[q] # None /\ tree[q].type = "dir"
        BY <3>1, <4>1, AboveAreDirectories
      <4> QED
        BY <4>2
    <3>4. new[y] = tree[y]
      BY <3>2, <3>3, RenamedTree DEF Lands
    <3> QED
      BY <3>1, <3>4
  <2>3. \/ \E t : Lands(p, q, x, t) /\ new[x] = tree[Joined(p, t)]
        \/ new[x] = None
        \/ x \notin Moved(p) /\ new[x] = tree[x]
    <3> HIDE DEF new
    <3>1. x \in Paths /\ p \in Paths /\ q \in Paths
      OBVIOUS
    <3> QED
      BY ONLY <3>1, RenamedTree DEF new
  <2> HIDE DEF new
  <2> QED
    BY <1>1, <2>1, <2>2, <2>3
<1> HIDE DEF new
<1> QED
  BY <1>1, InDirectoriesIf DEF new

\* A rename does not double anything.
LEMMA RenamedNoHardLinks ==
  ASSUME NEW tree, NoHardLinks(tree), NEW p \in Paths, NEW q \in Paths
  PROVE  NoHardLinks(Renamed(tree, p, q))
<1> DEFINE new == Renamed(tree, p, q)
           From(x, y) == \/ \E t : Lands(p, q, x, t) /\ y = Joined(p, t)
                         \/ x = y /\ y \notin Moved(p)
<1>0. p \in Seq(Names) /\ q \in Seq(Names) /\ \A x \in Paths : x \in Seq(Names)
  BY PathsAreSequences
<1>1. ASSUME NEW x \in Paths, new[x] # None
      PROVE  \E y \in Paths : From(x, y) /\ new[x] = tree[y]
  <2>1. CASE \E t : Lands(p, q, x, t) /\ new[x] = tree[Joined(p, t)]
    BY <2>1 DEF Lands
  <2>2. CASE x \notin Moved(p) /\ new[x] = tree[x]
    BY <2>2
  <2> HIDE DEF new, From
  <2> QED
    BY <1>1, <2>1, <2>2, RenamedTree DEF new
<1>2. ASSUME NEW x \in Paths, NEW x2 \in Paths, NEW y \in Paths, From(x, y), From(x2, y)
      PROVE  x = x2
  <2>1. CASE \E t : Lands(p, q, x, t) /\ y = Joined(p, t)
    <3>1. PICK t \in Seq(Names) : x = Joined(q, t) /\ y = Joined(p, t)
      BY <2>1 DEF Lands
    <3>2. y \in Moved(p)
      BY <3>1, PlacesAreJoined
    <3>3. PICK s \in Seq(Names) : x2 = Joined(q, s) /\ y = Joined(p, s)
      BY <1>2, <3>2 DEF Lands
    <3>4. s = t
      BY <1>0, <3>1, <3>3, JoinedOnce
    <3> QED
      BY <3>1, <3>3, <3>4
  <2>2. CASE x = y /\ y \notin Moved(p)
    <3>1. ~\E t : Lands(p, q, x2, t) /\ y = Joined(p, t)
      BY <2>2, PlacesAreJoined DEF Lands
    <3> QED
      BY <1>2, <2>2, <3>1
  <2> QED
    BY <1>2, <2>1, <2>2
<1>3. ASSUME NEW x \in Paths, NEW x2 \in Paths, new[x] # None, new[x2] # None, new[x].id = new[x2].id
      PROVE  x = x2
  <2>1. PICK y \in Paths : From(x, y) /\ new[x] = tree[y]
    BY <1>1, <1>3
  <2>2. PICK y2 \in Paths : From(x2, y2) /\ new[x2] = tree[y2]
    BY <1>1, <1>3
  <2> HIDE DEF new, From
  <2>3. y = y2
    BY <1>3, <2>1, <2>2 DEF NoHardLinks
  <2> QED
    BY <1>2, <2>1, <2>2, <2>3
<1> HIDE DEF new
<1> QED
  BY <1>3 DEF NoHardLinks, new

-----------------------------------------------------------------------------
(***************************************************************************)
(* The tree stays sound.                                                   *)
(***************************************************************************)

\* Every object has a number that was given out, and lies in one place, in
\* directories.
IdsGiven == made \in Nat \ {0} /\ \A p \in Paths : fs[p] # None => fs[p].id \in 1..(made - 1)
TreeSound == IdsGiven /\ InDirectories(fs) /\ NoHardLinks(fs)

\* The trees a walk may find are sound, and each thing other programs do keeps
\* them so.
LEMMA TreeSoundInit == Init => TreeSound
<1> SUFFICES ASSUME Init PROVE TreeSound
  OBVIOUS
<1>1. fs \in Trees /\ made = FirstInode
  BY DEF Init
<1>2. InDirectories(fs) /\ NoHardLinks(fs)
  BY <1>1, TreesAssumption
<1>3. ASSUME NEW p \in Paths, fs[p] # None PROVE fs[p].id \in 1..(FirstInode - 1)
  <2>1. fs[p] \in NodesBefore(FirstInode)
    BY <1>1, <1>3, TreesAssumption
  <2> QED
    BY <2>1 DEF NodesBefore
<1> QED
  BY <1>1, <1>2, <1>3, TreesAssumption DEF TreeSound, IdsGiven

\* The directory of a path a program may create or rename to.
LEMMA FrontThere ==
  ASSUME NEW q, DirectoryAt(Front(q))
  PROVE  Front(q) = Root \/ (fs[Front(q)] # None /\ fs[Front(q)].type = "dir" /\ Front(q) \in Paths)
  BY DEF DirectoryAt, Exists

LEMMA TreeSoundCreate ==
  ASSUME TypeOK, TreeSound, NEW p \in Paths, NEW type, Create(p, type)
  PROVE  TreeSound'
<1>1. /\ fs[p] = None /\ DirectoryAt(Front(p))
      /\ fs' = [fs EXCEPT ![p] = [type |-> type, id |-> made, size |-> 0]] /\ made' = made + 1
  BY DEF Create
<1>2. PICK node : node = [type |-> type, id |-> made, size |-> 0]
  OBVIOUS
<1>3. node.id = made
  BY <1>2
<1>4. fs' = [fs EXCEPT ![p] = node] /\ fs \in [Paths -> Nodes \cup {None}]
  BY <1>1, <1>2 DEF TypeOK
<1>5. fs'[p] = node /\ \A x \in Paths : x # p => fs'[x] = fs[x]
  BY <1>4
<1>6. /\ made \in Nat \ {0} /\ \A x \in Paths : fs[x] # None => fs[x].id \in 1..(made - 1)
      /\ InDirectories(fs) /\ NoHardLinks(fs)
  BY DEF TreeSound, IdsGiven
<1>7. IdsGiven'
  <2>1. made \in 1..((made + 1) - 1) /\ made + 1 \in Nat \ {0} /\ \A i \in 1..(made - 1) : i \in 1..((made + 1) - 1)
    BY <1>6
  <2>2. ASSUME NEW x \in Paths, fs'[x] # None PROVE fs'[x].id \in 1..((made + 1) - 1)
    BY <1>3, <1>5, <1>6, <2>1, <2>2
  <2> QED
    BY <1>1, <2>1, <2>2 DEF IdsGiven
<1>8. NoHardLinks(fs')
  <2>1. \A x \in Paths : fs[x] # None => fs[x].id # made
    BY <1>6
  <2>2. ASSUME NEW x \in Paths, NEW y \in Paths, fs'[x] # None, fs'[y] # None, fs'[x].id = fs'[y].id
        PROVE  x = y
    BY <1>3, <1>5, <1>6, <2>1, <2>2 DEF NoHardLinks
  <2> QED
    BY <2>2 DEF NoHardLinks
<1>9. InDirectories(fs')
  <2>1. ASSUME NEW x \in Paths, NEW y \in Paths, fs'[x] # None, Under(y, x)
        PROVE  fs'[y] # None /\ fs'[y].type = "dir"
    <3>1. CASE x = p
      <4>1. Front(p) \in Paths /\ (y = Front(p) \/ Under(y, Front(p)))
        BY <2>1, <3>1, FrontIsBeginning
      <4>2. Front(p) # Root
        <5>1. Len(Front(p)) \in Nat \ {0}
          BY <4>1, PathsAreSequences
        <5> QED
          BY <5>1 DEF Root
      <4>3. fs[Front(p)] # None /\ fs[Front(p)].type = "dir"
        BY <1>1, <4>2, FrontThere
      <4>4. fs[y] # None /\ fs[y].type = "dir"
        BY <1>6, <4>1, <4>3, AboveAreDirectories
      <4> QED
        BY <1>1, <1>5, <4>4
    <3>2. CASE x # p
      <4>1. fs[y] # None /\ fs[y].type = "dir"
        BY <1>5, <1>6, <2>1, <3>2, AboveAreDirectories
      <4> QED
        BY <1>1, <1>5, <4>1
    <3> QED
      BY <3>1, <3>2
  <2>2. PICK tree : tree = fs'
    OBVIOUS
  <2>3. InDirectories(tree)
    BY <2>1, <2>2, InDirectoriesIf
  <2> QED
    BY <2>2, <2>3
<1> QED
  BY <1>7, <1>8, <1>9 DEF TreeSound, InDirectories, NoHardLinks

LEMMA TreeSoundDelete ==
  ASSUME TypeOK, TreeSound, NEW p \in Paths, Delete(p)
  PROVE  TreeSound'
<1>1. /\ \A q \in Paths : Under(p, q) => fs[q] = None
      /\ fs' = [fs EXCEPT ![p] = None] /\ made' = made
  BY DEF Delete, Exists
<1>2. fs \in [Paths -> Nodes \cup {None}]
  BY DEF TypeOK
<1>3. fs'[p] = None /\ \A x \in Paths : x # p => fs'[x] = fs[x]
  BY <1>1, <1>2
<1>4. IdsGiven'
  BY <1>1, <1>3 DEF TreeSound, IdsGiven
<1>5. NoHardLinks(fs')
  BY <1>3 DEF TreeSound, NoHardLinks
<1>6. InDirectories(fs')
  <2>1. ASSUME NEW x \in Paths, NEW y \in Paths, fs'[x] # None, Under(y, x)
        PROVE  fs'[y] # None /\ fs'[y].type = "dir"
    <3>1. x # p /\ fs[x] # None
      BY <1>3, <2>1
    <3>2. fs[y] # None /\ fs[y].type = "dir"
      BY <2>1, <3>1, AboveAreDirectories DEF TreeSound
    <3>3. y # p
      BY <1>1, <2>1, <3>1
    <3> QED
      BY <1>3, <3>2, <3>3
  <2>2. PICK tree : tree = fs'
    OBVIOUS
  <2>3. InDirectories(tree)
    BY <2>1, <2>2, InDirectoriesIf
  <2> QED
    BY <2>2, <2>3
<1> QED
  BY <1>4, <1>5, <1>6 DEF TreeSound, InDirectories, NoHardLinks

LEMMA TreeSoundRename ==
  ASSUME TypeOK, TreeSound, NEW p \in Paths, NEW q \in Paths, Rename(p, q)
  PROVE  TreeSound'
<1>1. /\ fs[p] # None /\ p # q /\ ~Under(p, q) /\ DirectoryAt(Front(q))
      /\ fs[p].type = "dir" => fs[q] = None
      /\ fs[q] # None => fs[q].type # "dir"
      /\ made' = made
  BY DEF Rename, Exists
<1>2. fs' = Renamed(fs, p, q)
  BY DEF Rename, Renamed, Moved, Place, Behind, Joined
<1>3. InDirectories(Renamed(fs, p, q))
  BY <1>1, FrontThere, RenamedInDirectories DEF TreeSound
<1>4. NoHardLinks(Renamed(fs, p, q))
  BY RenamedNoHardLinks DEF TreeSound
<1>5. IdsGiven'
  <2>1. ASSUME NEW x \in Paths, fs'[x] # None PROVE fs'[x].id \in 1..(made - 1)
    <3>1. \/ \E t : Lands(p, q, x, t) /\ fs'[x] = fs[Joined(p, t)]
          \/ fs'[x] = None
          \/ fs'[x] = fs[x]
      <4>1. PICK tree : tree = fs
        OBVIOUS
      <4>2. x \in Paths /\ p \in Paths /\ q \in Paths
        OBVIOUS
      <4>3. \/ \E t : Lands(p, q, x, t) /\ Renamed(tree, p, q)[x] = tree[Joined(p, t)]
            \/ Renamed(tree, p, q)[x] = None
            \/ Renamed(tree, p, q)[x] = tree[x]
        BY ONLY <4>2, RenamedTree
      <4>4. fs' = Renamed(tree, p, q)
        BY <1>2, <4>1
      <4> QED
        BY ONLY <4>1, <4>3, <4>4
    <3>2. \E y \in Paths : fs'[x] = fs[y]
      BY <2>1, <3>1 DEF Lands
    <3> QED
      BY <2>1, <3>2 DEF TreeSound, IdsGiven
  <2> QED
    BY <1>1, <2>1 DEF TreeSound, IdsGiven
<1> QED
  BY <1>2, <1>3, <1>4, <1>5 DEF TreeSound, InDirectories, NoHardLinks

LEMMA TreeSoundGrow ==
  ASSUME TypeOK, TreeSound, NEW p \in Paths, Grow(p)
  PROVE  TreeSound'
<1>1. /\ fs[p] # None /\ made' = made
      /\ fs' = [fs EXCEPT ![p] = [fs[p] EXCEPT !.size = fs[p].size + 1]]
  BY DEF Grow, Exists
<1>2. fs \in [Paths -> Nodes \cup {None}]
  BY DEF TypeOK
<1>3. fs[p] \in Nodes
  BY <1>1, <1>2
<1>4. PICK node : node = [fs[p] EXCEPT !.size = fs[p].size + 1]
  OBVIOUS
<1>5. node \in Nodes /\ node.id = fs[p].id /\ node.type = fs[p].type
  BY <1>3, <1>4 DEF Nodes
<1>6. node # None
  BY <1>5, TreesAssumption
<1>7. fs'[p] = node /\ \A x \in Paths : x # p => fs'[x] = fs[x]
  BY <1>1, <1>2, <1>4
<1>8. \A x \in Paths : /\ fs'[x] # None <=> fs[x] # None
                       /\ fs[x] # None => fs'[x].id = fs[x].id /\ fs'[x].type = fs[x].type
  BY <1>1, <1>5, <1>6, <1>7
<1>9. IdsGiven'
  BY <1>1, <1>8 DEF TreeSound, IdsGiven
<1>10. NoHardLinks(fs')
  BY <1>8 DEF TreeSound, NoHardLinks
<1>11. InDirectories(fs')
  <2>1. ASSUME NEW x \in Paths, NEW y \in Paths, fs'[x] # None, Under(y, x)
        PROVE  fs'[y] # None /\ fs'[y].type = "dir"
    BY <1>8, <2>1, AboveAreDirectories DEF TreeSound
  <2>2. PICK tree : tree = fs'
    OBVIOUS
  <2>3. InDirectories(tree)
    BY <2>1, <2>2, InDirectoriesIf
  <2> QED
    BY <2>2, <2>3
<1> QED
  BY <1>9, <1>10, <1>11 DEF TreeSound, InDirectories, NoHardLinks

\* Whatever other programs do, the tree stays sound.
LEMMA TreeSoundOthers == TypeOK /\ TreeSound /\ Environment => TreeSound'
<1> SUFFICES ASSUME TypeOK, TreeSound, Environment PROVE TreeSound'
  OBVIOUS
<1>1. \A p \in Touchable : p \in Paths
  BY TouchableAssumption
<1>2. PICK p \in Touchable :
        \/ \E type \in {"file", "dir", "link"} : Create(p, type)
        \/ Delete(p)
        \/ \E q \in Touchable : Rename(p, q)
        \/ Grow(p)
  BY DEF Environment
<1> QED
  BY <1>1, <1>2, TreeSoundCreate, TreeSoundDelete, TreeSoundRename, TreeSoundGrow

-----------------------------------------------------------------------------
(***************************************************************************)
(* The names of a directory in byte order.                                 *)
(***************************************************************************)

\* A set of numbers has a least one.
LEMMA LeastNatural ==
  ASSUME NEW S \in SUBSET Nat, S # {}
  PROVE  \E n \in S : \A y \in S : n <= y
<1> DEFINE Below(n) == {i \in S : i < n}
           F == {Below(n) : n \in S}
<1>0. \A n \in S : n \in Nat
  OBVIOUS
<1>1. F \subseteq FiniteSubsetsOf(S) /\ F # {}
  <2>1. ASSUME NEW n \in S PROVE Below(n) \in SUBSET S /\ IsFiniteSet(Below(n))
    <3>1. n \in Nat /\ \A i \in Below(n) : i \in Nat /\ i < n
      BY <1>0
    <3>2. \A i, k \in Nat : i < k => i <= k
      OBVIOUS
    <3>3. Below(n) \in SUBSET Nat /\ \A i \in Below(n) : i <= n
      BY <3>1, <3>2
    <3>4. Below(n) \in SUBSET S
      OBVIOUS
    <3> HIDE DEF Below
    <3> QED
      BY <3>1, <3>3, <3>4, FS_BoundedSetOfNaturals
  <2> QED
    BY <2>1 DEF FiniteSubsetsOf
<1>2. PICK x \in F : \A y \in F : ~(<<y, x>> \in StrictSubsetOrdering(S))
  BY <1>1, FS_StrictSubsetOrderingWellFounded, WFMin
<1>3. PICK n \in S : x = Below(n)
  BY <1>2
<1>4. ASSUME NEW m \in S, m < n PROVE FALSE
  <2>1. Below(m) \subseteq Below(n) /\ m \in Below(n) /\ m \notin Below(m)
    <3>1. m \in Nat /\ n \in Nat
      BY <1>0
    <3>2. \A i \in Nat : (i < m => i < n) /\ ~(m < m)
      BY <1>4, <3>1
    <3> QED
      BY <1>0, <1>4, <3>1, <3>2
  <2>2. <<Below(m), Below(n)>> \in StrictSubsetOrdering(S)
    BY <2>1 DEF StrictSubsetOrdering
  <2> QED
    BY <1>2, <1>3, <2>2
<1> QED
  BY <1>4

\* The names so far, in the order of NameOrder.
Adds(f, k, names) ==
  /\ f[0] = <<>>
  /\ \A i \in 1..k :
       f[i] = IF NameOrder[i] \in names THEN Append(f[i - 1], NameOrder[i]) ELSE f[i - 1]

\* u has those of the first k names that are among names, each once.
Lists(u, k, names) ==
  /\ u \in Seq(names)
  /\ \A i \in 1..k : NameOrder[i] \in names => \E j \in 1..Len(u) : u[j] = NameOrder[i]
  /\ \A j \in 1..Len(u) : \E i \in 1..k : u[j] = NameOrder[i]
  /\ \A i, j \in 1..Len(u) : u[i] = u[j] => i = j

\* Sorted names are the names, all of them and each once.
LEMMA SortedRight ==
  ASSUME NEW names
  PROVE  /\ Sorted(names) \in Seq(names)
         /\ \A i \in DOMAIN NameOrder : NameOrder[i] \in names =>
              \E k \in 1..Len(Sorted(names)) : Sorted(names)[k] = NameOrder[i]
         /\ \A j, k \in 1..Len(Sorted(names)) : Sorted(names)[j] = Sorted(names)[k] => j = k
         /\ \A k \in 1..Len(Sorted(names)) : Sorted(names)[k] \in Names
<1>1. PICK l \in Nat : l = Len(NameOrder) /\ DOMAIN NameOrder = 1..l
  BY NamesAssumption
<1> DEFINE Eq(f) == f = [i \in 0..l |-> IF i = 0 THEN <<>>
                              ELSE IF NameOrder[i] \in names THEN Append(f[i - 1], NameOrder[i])
                              ELSE f[i - 1]]
<1>2. Sorted(names) = (CHOOSE f : Eq(f))[l]
  BY <1>1 DEF Sorted
<1> DEFINE Has(k) == \E g : DOMAIN g = 0..k /\ g = [i \in 0..k |-> g[i]] /\ Adds(g, k, names)
           Lacking == {k \in Nat : ~Has(k)}
<1>3. ASSUME Lacking # {} PROVE FALSE
  <2>1. PICK k \in Lacking : \A y \in Lacking : k <= y
    <3>1. Lacking \in SUBSET Nat
      OBVIOUS
    <3> HIDE DEF Lacking
    <3> QED
      BY <1>3, <3>1, LeastNatural
  <2>2. k \in Nat /\ ~Has(k)
    OBVIOUS
  <2>3. k # 0
    <3>1. Has(0)
      <4>1. PICK g : g = [i \in 0..0 |-> <<>>]
        OBVIOUS
      <4>2. DOMAIN g = 0..0 /\ g = [i \in 0..0 |-> g[i]] /\ Adds(g, 0, names)
        BY <4>1 DEF Adds
      <4> QED
        BY <4>2
    <3> QED
      BY <2>2, <3>1
  <2>4. k - 1 \in Nat /\ k - 1 < k
    BY <2>2, <2>3
  <2>5. Has(k - 1)
    <3>1. k - 1 \notin Lacking
      <4> HIDE DEF Lacking
      <4> QED
        BY <2>1, <2>2, <2>4
    <3> QED
      BY <2>4, <3>1
  <2>6. PICK g : DOMAIN g = 0..(k - 1) /\ Adds(g, k - 1, names)
    BY <2>5
  <2>7. PICK h : h = [i \in 0..k |-> IF i = k
                        THEN IF NameOrder[k] \in names THEN Append(g[k - 1], NameOrder[k]) ELSE g[k - 1]
                        ELSE g[i]]
    OBVIOUS
  <2>8. h[0] = <<>>
    BY <2>2, <2>3, <2>6, <2>7 DEF Adds
  <2>9. ASSUME NEW i \in 1..k
        PROVE  h[i] = IF NameOrder[i] \in names THEN Append(h[i - 1], NameOrder[i]) ELSE h[i - 1]
    <3>1. i - 1 \in 0..k /\ i - 1 # k /\ i \in 0..k /\ h[i - 1] = g[i - 1]
      BY <2>2, <2>7
    <3>2. CASE i = k
      BY <2>7, <3>1, <3>2
    <3>3. CASE i # k
      <4>1. i \in 1..(k - 1)
        BY <2>2, <3>3
      <4>2. h[i] = g[i]
        BY <2>7, <3>1, <3>3
      <4> QED
        BY <2>6, <3>1, <4>1, <4>2 DEF Adds
    <3> QED
      BY <3>2, <3>3
  <2>10. Has(k)
    <3>1. DOMAIN h = 0..k /\ h = [i \in 0..k |-> h[i]] /\ Adds(h, k, names)
      BY <2>7, <2>8, <2>9 DEF Adds
    <3> QED
      BY <3>1
  <2> QED
    BY <2>2, <2>10
<1>4. Has(l)
  BY <1>3
<1>5. \E f : Eq(f)
  <2>1. PICK g : DOMAIN g = 0..l /\ g = [i \in 0..l |-> g[i]] /\ Adds(g, l, names)
    BY <1>4
  <2>2. ASSUME NEW i \in 0..l
        PROVE  g[i] = IF i = 0 THEN <<>>
                      ELSE IF NameOrder[i] \in names THEN Append(g[i - 1], NameOrder[i]) ELSE g[i - 1]
    <3>1. i = 0 \/ i \in 1..l
      OBVIOUS
    <3> QED
      BY <2>1, <3>1 DEF Adds
  <2> QED
    BY <2>1, <2>2
<1>6. PICK f : f = (CHOOSE h : Eq(h)) /\ Eq(f)
  <2> HIDE DEF Eq
  <2> QED
    BY <1>5
<1>7. Adds(f, l, names)
  <2>1. \A i \in 0..l : f[i] = IF i = 0 THEN <<>>
                              ELSE IF NameOrder[i] \in names THEN Append(f[i - 1], NameOrder[i])
                              ELSE f[i - 1]
    BY <1>6
  <2>2. 0 \in 0..l /\ \A i \in 1..l : i \in 0..l /\ i # 0
    OBVIOUS
  <2>3. f[0] = <<>>
    BY <2>1, <2>2
  <2>4. ASSUME NEW i \in 1..l
        PROVE  f[i] = IF NameOrder[i] \in names THEN Append(f[i - 1], NameOrder[i]) ELSE f[i - 1]
    BY <2>1, <2>2
  <2> QED
    BY <2>3, <2>4 DEF Adds
<1> DEFINE Good(k) == Lists(f[k], k, names)
           Bad == {k \in 0..l : ~Good(k)}
<1> HIDE DEF Eq
<1>8. ASSUME Bad # {} PROVE FALSE
  <2>1. PICK k \in Bad : \A y \in Bad : k <= y
    <3>1. Bad \in SUBSET Nat
      OBVIOUS
    <3> HIDE DEF Bad
    <3> QED
      BY <1>8, <3>1, LeastNatural
  <2>2. k \in 0..l /\ ~Good(k)
    OBVIOUS
  <2>3. k # 0
    <3>1. Good(0)
      BY <1>7 DEF Adds, Lists
    <3> QED
      BY <2>2, <3>1
  <2>4. k - 1 \in 0..l /\ k - 1 < k /\ k \in 1..l
    BY <2>2, <2>3
  <2>5. Good(k - 1)
    <3>1. k - 1 \notin Bad
      <4> HIDE DEF Bad
      <4> QED
        BY <2>1, <2>2, <2>4
    <3> QED
      BY <2>4, <3>1
  <2>6. PICK v \in Seq(names) : v = f[k - 1]
    BY <2>5 DEF Lists
  <2>7. \A i \in 1..(k - 1) : NameOrder[i] \in names => \E j \in 1..Len(v) : v[j] = NameOrder[i]
    BY <2>5, <2>6 DEF Lists
  <2>7a. /\ \A j \in 1..Len(v) : \E i \in 1..(k - 1) : v[j] = NameOrder[i]
         /\ \A i, j \in 1..Len(v) : v[i] = v[j] => i = j
    BY <2>5, <2>6 DEF Lists
  <2>8. f[k] = IF NameOrder[k] \in names THEN Append(v, NameOrder[k]) ELSE v
    BY <1>7, <2>4, <2>6 DEF Adds
  <2>9. /\ \A i \in 1..k : i = k \/ i \in 1..(k - 1)
        /\ \A i \in 1..(k - 1) : i \in 1..k /\ i # k
        /\ k \in 1..k
    BY <2>4
  <2>9a. \A i \in 1..(k - 1) : NameOrder[i] # NameOrder[k]
    <3>1. \A i \in 1..k : i \in DOMAIN NameOrder
      BY <1>1, <2>4
    <3> QED
      BY <2>9, <3>1, NamesAssumption DEF IsInjective
  <2>10. CASE NameOrder[k] \notin names
    <3>1. f[k] = v
      BY <2>8, <2>10
    <3>2. \A j \in 1..Len(v) : \E i \in 1..k : v[j] = NameOrder[i]
      BY <2>7a, <2>9
    <3>3. Lists(v, k, names)
      BY <2>6, <2>7, <2>7a, <2>9, <2>10, <3>2 DEF Lists
    <3> QED
      BY <2>2, <3>1, <3>3
  <2>11. CASE NameOrder[k] \in names
    <3>1. PICK w : w = Append(v, NameOrder[k]) /\ f[k] = w
      BY <2>8, <2>11
    <3>2. PICK n \in Nat : n = Len(v)
      BY <2>6
    <3>3. w \in Seq(names) /\ Len(w) = n + 1 /\ w[n + 1] = NameOrder[k] /\ \A j \in 1..n : w[j] = v[j]
      BY <2>11, <3>1, <3>2
    <3>4. /\ n + 1 \in 1..(n + 1) /\ \A j \in 1..n : j \in 1..(n + 1) /\ j # n + 1
          /\ \A j \in 1..(n + 1) : j = n + 1 \/ j \in 1..n
      BY ONLY n \in Nat
    <3>5. \A i \in 1..k : NameOrder[i] \in names => \E j \in 1..(n + 1) : w[j] = NameOrder[i]
      BY <2>7, <2>9, <3>2, <3>3, <3>4
    <3>6. \A j \in 1..(n + 1) : \E i \in 1..k : w[j] = NameOrder[i]
      BY <2>7a, <2>9, <3>2, <3>3, <3>4
    <3>7. \A j \in 1..n : w[j] # w[n + 1]
      BY <2>7a, <2>9a, <3>2, <3>3
    <3>8. \A i, j \in 1..(n + 1) : w[i] = w[j] => i = j
      BY <2>7a, <3>2, <3>3, <3>4, <3>7
    <3>9. Lists(w, k, names)
      BY <3>3, <3>5, <3>6, <3>8 DEF Lists
    <3> QED
      BY <2>2, <3>1, <3>9
  <2> QED
    BY <2>10, <2>11
<1>9. Good(l)
  BY <1>8
<1>10. PICK u : u = Sorted(names) /\ u = f[l]
  BY <1>2, <1>6
<1>11. Lists(u, l, names)
  BY <1>9, <1>10
<1>12. \A i \in 1..l : NameOrder[i] \in Names
  BY <1>1 DEF Names, Range
<1> QED
  BY <1>1, <1>10, <1>11, <1>12 DEF Lists

\* Every name of the directory is among them.
LEMMA SortedHas ==
  ASSUME NEW names, NEW n \in names \cap Names
  PROVE  \E k \in 1..Len(Sorted(names)) : Sorted(names)[k] = n
<1>1. Names = {NameOrder[i] : i \in DOMAIN NameOrder}
  BY DEF Names, Range
<1>2. PICK i \in DOMAIN NameOrder : n = NameOrder[i]
  BY <1>1
<1> QED
  BY <1>2, SortedRight

-----------------------------------------------------------------------------
(***************************************************************************)
(* Every configured file that lies in its place is found.                  *)
(***************************************************************************)

\* A file that lies in its place and may be found.
Steady(p) == p \in Paths /\ fs[p] # None /\ fs[p].type = "file" /\ LeftAlone(p) /\ Utf8(p)

\* What is to be walked under d has p in it, and the entry of d on the way to p.
Leads(d, p) == Under(d, p) /\ (Recursive \/ Len(p) = Len(d) + 1)
Listed(entry, d, p) ==
  entry.name = p[Len(d) + 1] /\ entry.type \in {"unknown", fs[SubSeq(p, 1, Len(d) + 1)].type}

\* The walk still comes to p: through a directory that waits, is about to be read or
\* was found, or through an entry that was listed.
ByPending(p) == \E i \in 1..Len(pending) : Leads(pending[i], p)
ByRead(p) == phase = "read" /\ Leads(dir.path, p)
ByChildren(p) == phase = "entries" /\ \E i \in 1..Len(children) : Leads(children[i], p)
ByListing(p) ==
  /\ phase = "entries" /\ Leads(dir.path, p)
  /\ \E i \in 1..Len(listing) : Listed(listing[i], dir.path, p)
Ahead(p) == ByPending(p) \/ ByRead(p) \/ ByChildren(p) \/ ByListing(p)

\* Every file a rule up to the current one allows was found or is still to come.
Covered(p) ==
  \A j \in 1..rule : Allows(source.rules[j], p) => p \in DOMAIN files \/ (j = rule /\ Ahead(p))
RulesCovered == phase # "done" => \A p \in Paths : Steady(p) => Covered(p)
ExplicitCovered ==
  phase # "done" =>
    \A i \in 1..Len(source.explicit) :
      \/ source.explicit[i] \in DOMAIN explicit
      \/ \E k \in 1..Len(todo) : todo[k] = source.explicit[i]
AnswerCovers ==
  Succeeded => \A p \in Paths : Steady(p) /\ PathIsConfigured(p) => p \in DOMAIN answer.files

\* The directory that is open is the one at its path, if that was left alone.
DirOpen ==
  phase \in {"read", "entries"} /\ LeftAlone(dir.path) =>
    IF dir.path = Root THEN dir.inode = 0 ELSE fs[dir.path] # None /\ fs[dir.path].id = dir.inode
ListingTyped == \E S : listing \in Seq(S)

CInv ==
  /\ DInv /\ TreeSound
  /\ RulesCovered /\ ExplicitCovered /\ AnswerCovers
  /\ DirOpen /\ ListingTyped

\* The directories on the way to a file that lies in its place do so too.
LEMMA WayIsSteady ==
  ASSUME TreeSound, NEW p, Steady(p), NEW d \in Paths, Under(d, p)
  PROVE  fs[d] # None /\ fs[d].type = "dir" /\ LeftAlone(d)
<1>1. p \in Paths /\ fs[p] # None /\ \A n \in 1..Len(p) : SubSeq(p, 1, n) \notin touched
  BY DEF Steady, LeftAlone
<1>2. fs[d] # None /\ fs[d].type = "dir"
  BY <1>1, AboveAreDirectories DEF TreeSound
<1>3. ASSUME NEW n \in 1..Len(d) PROVE SubSeq(d, 1, n) \notin touched
  <2>1. Len(p) \in Nat /\ Len(d) \in Nat /\ p \in Seq(Names) /\ Len(p) > Len(d) /\ SubSeq(p, 1, Len(d)) = d
    BY <1>1, PathsAreSequences DEF Under
  <2>2. Len(d) \in 0..Len(p) /\ n \in 0..Len(d) /\ n \in 1..Len(p)
    BY <2>1
  <2>3. SubSeq(SubSeq(p, 1, Len(d)), 1, n) = SubSeq(p, 1, n)
    BY <2>1, <2>2, BeginningOfBeginning
  <2> QED
    BY <1>1, <2>1, <2>2, <2>3
<1> QED
  BY <1>2, <1>3 DEF LeftAlone

\* The step of the walk finds what it comes to, and forgets nothing on the way.
LEMMA CoveredKept ==
  ASSUME RulesCovered, phase # "done", UNCHANGED world, rule' = rule,
         \A p \in DOMAIN files : p \in DOMAIN files',
         \A p \in Paths : Steady(p) /\ Allows(source.rules[rule], p) /\ Ahead(p) =>
                            p \in DOMAIN files' \/ Ahead(p)'
  PROVE  RulesCovered'
<1>1. fs' = fs /\ source' = source /\ touched' = touched
  BY DEF world
<1>2. \A p : (Steady(p)' <=> Steady(p)) /\ \A j : Allows(source.rules[j], p)' <=> Allows(source.rules[j], p)
  BY <1>1 DEF Steady, LeftAlone, Allows, Under
<1>3. ASSUME NEW p \in Paths, Steady(p), NEW j \in 1..rule, Allows(source.rules[j], p)
      PROVE  p \in DOMAIN files' \/ (j = rule /\ Ahead(p)')
  BY <1>3 DEF RulesCovered, Covered
<1>4. ASSUME NEW p \in Paths, Steady(p)' PROVE Covered(p)'
  BY <1>1, <1>2, <1>3, <1>4 DEF Covered
<1> QED
  BY <1>4 DEF RulesCovered

\* Where a directory leads does not change with the walk.
LEMMA LeadsStays ==
  ASSUME UNCHANGED world, rule' = rule
  PROVE  /\ \A d, p : Leads(d, p)' <=> Leads(d, p)
         /\ \A entry, d, p : Listed(entry, d, p)' <=> Listed(entry, d, p)
  BY DEF world, Leads, Listed, Recursive, Under

\* Each step of the walk: what it still had to come to, it found or still comes to.
LEMMA CoverOpenDirectory ==
  ASSUME CInv, UNCHANGED world, OpenDirectory, phase' # "done"
  PROVE  RulesCovered' /\ DirOpen'
<1>1. /\ phase = "walk" /\ phase' = "read" /\ pending # <<>>
      /\ DirectoryAt(Head(pending))
      /\ dir' = [path |-> Head(pending), inode |-> InodeAt(Head(pending))]
      /\ pending' = Tail(pending)
      /\ UNCHANGED <<rule, files>>
  BY DEF OpenDirectory, Fail, Return
<1>2. pending \in Seq(Directories)
  BY DEF CInv, DInv, TypeOK, Directories
<1>3. PICK d : d = Head(pending)
  OBVIOUS
<1>4. dir'.path = d /\ dir'.inode = InodeAt(d) /\ d = pending[1]
  BY <1>1, <1>2, <1>3
<1>5. ASSUME NEW p \in Paths, Ahead(p) PROVE Ahead(p)'
  <2>1. ByPending(p)
    BY <1>1, <1>5 DEF Ahead, ByRead, ByChildren, ByListing
  <2>2. PICK i \in 1..Len(pending) : Leads(pending[i], p)
    BY <2>1 DEF ByPending
  <2>3. CASE i = 1
    <3>1. Leads(d, p)'
      BY <1>1, <1>4, <2>2, <2>3, LeadsStays
    <3>2. ByRead(p)'
      BY <1>1, <1>4, <3>1 DEF ByRead, Leads, Under
    <3> QED
      BY <3>2 DEF Ahead
  <2>4. CASE i # 1
    <3>1. i - 1 \in 1..Len(Tail(pending)) /\ Tail(pending)[i - 1] = pending[i]
      BY <1>1, <1>2, <2>4
    <3>2. PICK k \in 1..Len(pending') : pending'[k] = pending[i]
      BY <1>1, <3>1
    <3>3. PICK e : e = pending[i]
      OBVIOUS
    <3>4. Leads(e, p)'
      BY <1>1, <2>2, <3>3, LeadsStays
    <3>5. ByPending(p)'
      BY <3>2, <3>3, <3>4 DEF ByPending, Leads, Under
    <3> QED
      BY <3>5 DEF Ahead
  <2> QED
    BY <2>3, <2>4
<1>6. RulesCovered'
  BY <1>1, <1>5, CoveredKept DEF CInv
<1>7. DirOpen'
  <2>1. fs' = fs
    BY DEF world
  <2>2. DirectoryAt(d) /\ (d = Root => InodeAt(d) = 0) /\ (d # Root => InodeAt(d) = fs[d].id)
    BY <1>1, <1>3 DEF InodeAt
  <2>3. d # Root => fs[d] # None
    BY <2>2 DEF DirectoryAt, Exists
  <2> QED
    BY <1>4, <2>1, <2>2, <2>3 DEF DirOpen
<1> QED
  BY <1>6, <1>7

\* A rule is left only when everything it allows was found.
LEMMA CoverNextRule ==
  ASSUME CInv, UNCHANGED world, NextRule
  PROVE  RulesCovered'
<1>1. /\ phase \in {"explicit", "walk"} /\ pending = <<>> /\ phase' = "walk"
      /\ rule' = rule + 1 /\ pending' = <<source.rules[rule + 1].dir>>
      /\ files' = files /\ rule < Len(source.rules)
  BY DEF NextRule
<1>2. fs' = fs /\ source' = source /\ touched' = touched
  BY DEF world
<1>3. rule \in Nat
  BY RuleDirectories DEF CInv, DInv, TypeOK
<1>4. ASSUME NEW p \in Paths PROVE ~Ahead(p)
  <2>1. Len(pending) = 0
    BY <1>1
  <2> QED
    BY <1>1, <2>1 DEF Ahead, ByPending, ByRead, ByChildren, ByListing
<1>5. ASSUME NEW p \in Paths, Steady(p)', NEW j \in 1..(rule + 1), Allows(source.rules[j], p)
      PROVE  p \in DOMAIN files \/ (j = rule + 1 /\ Ahead(p)')
  <2>1. CASE j \in 1..rule
    <3>1. Steady(p)
      BY <1>2, <1>5 DEF Steady, LeftAlone
    <3> QED
      BY <1>1, <1>4, <1>5, <2>1, <3>1 DEF CInv, RulesCovered, Covered
  <2>2. CASE j = rule + 1
    <3>1. PICK d : d = source.rules[rule + 1].dir
      OBVIOUS
    <3>2. pending'[1] = d /\ Len(pending') = 1
      BY <1>1, <3>1
    <3>3. Under(d, p) /\ (source.rules[rule + 1].recursive \/ Len(p) = Len(d) + 1)
      BY <1>5, <2>2, <3>1 DEF Allows
    <3>4. Leads(d, p)'
      BY <1>1, <1>2, <3>3 DEF Leads, Recursive, Under
    <3>5. ByPending(p)'
      <4>1. 1 \in 1..Len(pending')
        BY <3>2
      <4>2. \E i \in 1..Len(pending') : pending'[i] = d
        BY <3>2, <4>1
      <4> QED
        BY <3>4, <4>2 DEF ByPending, Leads, Under
    <3> QED
      BY <2>2, <3>5 DEF Ahead
  <2>3. j \in 1..rule \/ j = rule + 1
    BY <1>3
  <2> QED
    BY <2>1, <2>2, <2>3
<1>6. ASSUME NEW p \in Paths, Steady(p)' PROVE Covered(p)'
  <2>1. \A j : Allows(source.rules[j], p)' <=> Allows(source.rules[j], p)
    BY <1>2 DEF Allows, Under
  <2>2. rule' = rule + 1 /\ files' = files /\ source' = source
    BY <1>1, <1>2
  <2> QED
    BY <1>5, <1>6, <2>1, <2>2 DEF Covered
<1> QED
  BY <1>6 DEF RulesCovered

\* The entry on the way to a file that lies in its place is listed.
LEMMA EntryListed ==
  ASSUME CInv, NEW p, Steady(p), phase = "read", Leads(dir.path, p),
         NEW n, n = p[Len(dir.path) + 1]
  PROVE  /\ n \in NamesIn(dir.inode) \ Odd /\ n \in Names
         /\ Reported(dir.inode, n) \in {"unknown", fs[SubSeq(p, 1, Len(dir.path) + 1)].type}
<1> DEFINE w == SubSeq(p, 1, Len(dir.path) + 1)
<1>1. p \in Paths /\ dir.path \in Directories /\ Under(dir.path, p)
  BY DEF Steady, Leads, CInv, DInv, TypeOK, Directories
<1>2. /\ Len(dir.path) + 1 \in DOMAIN p /\ n \in Names
      /\ w \in Paths /\ w = Append(dir.path, n)
      /\ w = p \/ Under(w, p)
  BY <1>1, OnTheWay
<1>3. n \notin Odd
  BY <1>2 DEF Steady, Utf8
<1>4. fs[w] # None
  <2>1. CASE w = p
    BY <2>1 DEF Steady
  <2>2. CASE Under(w, p)
    BY <1>2, <2>2, WayIsSteady DEF CInv
  <2> QED
    BY <1>2, <2>1, <2>2
<1> HIDE DEF w
<1>5. CASE dir.path = Root
  <2>1. LeftAlone(dir.path)
    BY <1>5 DEF LeftAlone, Root
  <2>2. dir.inode = 0
    BY <1>5, <2>1 DEF CInv, DirOpen
  <2>3. w = <<n>>
    BY <1>2, <1>5 DEF Root
  <2>4. n \in NamesIn(dir.inode)
    BY <1>2, <1>4, <2>2, <2>3 DEF NamesIn, Exists
  <2>5. Reported(dir.inode, n) \in {"unknown", fs[w].type}
    BY <2>2, <2>3 DEF Reported
  <2> QED
    BY <1>2, <1>3, <2>4, <2>5 DEF w
<1>6. CASE dir.path # Root
  <2>1. dir.path \in Paths
    BY <1>1, <1>6 DEF Directories
  <2>2. LeftAlone(dir.path) /\ fs[dir.path] # None
    BY <1>1, <2>1, WayIsSteady DEF CInv
  <2>3. fs[dir.path].id = dir.inode
    BY <1>6, <2>2 DEF CInv, DirOpen
  <2>4. dir.inode # 0
    <3>1. made \in Nat /\ fs[dir.path].id \in 1..(made - 1)
      BY <2>1, <2>2 DEF CInv, TreeSound, IdsGiven
    <3> QED
      BY <2>3, <3>1
  <2>5. n \in NamesIn(dir.inode)
    BY <1>2, <1>4, <2>1, <2>2, <2>3, <2>4 DEF NamesIn, Exists
  <2>6. (CHOOSE x \in Paths : Exists(x) /\ fs[x].id = dir.inode) = dir.path
    <3>1. \A x \in Paths : Exists(x) /\ fs[x].id = dir.inode => x = dir.path
      BY <2>1, <2>2, <2>3 DEF CInv, TreeSound, NoHardLinks, Exists
    <3>2. Exists(dir.path) /\ fs[dir.path].id = dir.inode
      BY <2>1, <2>2, <2>3 DEF Exists
    <3> QED
      BY <2>1, <3>1, <3>2
  <2>7. Reported(dir.inode, n) \in {"unknown", fs[w].type}
    BY <1>2, <2>4, <2>6 DEF Reported
  <2> QED
    BY <1>2, <1>3, <2>5, <2>7 DEF w
<1> QED
  BY <1>5, <1>6

\* A directory that is read lists the entry on the way to every file under it that
\* lies in its place.
LEMMA CoverReadDirectory ==
  ASSUME CInv, UNCHANGED world, ReadDirectory, phase' # "done"
  PROVE  RulesCovered' /\ DirOpen' /\ ListingTyped'
<1> DEFINE kept == Sorted(NamesIn(dir.inode) \ Odd)
           entry(i) == [name |-> kept[i], type |-> Reported(dir.inode, kept[i])]
<1>1. /\ phase = "read" /\ phase' = "entries" /\ listing' = [i \in DOMAIN kept |-> entry(i)]
      /\ UNCHANGED <<rule, pending, dir, files>>
  BY DEF ReadDirectory, Fail, Return
<1>2. kept \in Seq(NamesIn(dir.inode) \ Odd)
  BY SortedRight
<1>3. Len(kept) \in Nat /\ DOMAIN kept = 1..Len(kept)
  BY <1>2
<1>4. /\ listing' \in Seq({entry(i) : i \in 1..Len(kept)})
      /\ Len(listing') = Len(kept) /\ \A i \in 1..Len(kept) : listing'[i] = entry(i)
  <2> HIDE DEF entry, kept
  <2>1. listing' = [i \in 1..Len(kept) |-> entry(i)]
    BY <1>1, <1>3
  <2> QED
    BY <1>3, <2>1
<1>5. ListingTyped'
  <2> HIDE DEF entry, kept
  <2> QED
    BY <1>4 DEF ListingTyped
<1>6. fs' = fs /\ touched' = touched
  BY DEF world
<1>7. DirOpen'
  BY <1>1, <1>6 DEF CInv, DirOpen, LeftAlone
<1>8. ASSUME NEW p \in Paths, Steady(p), Ahead(p) PROVE Ahead(p)'
  <2>1. CASE ByPending(p)
    <3>1. ByPending(p)'
      BY <1>1, <2>1, LeadsStays DEF ByPending
    <3> QED
      BY <3>1 DEF Ahead
  <2>2. CASE ByRead(p)
    <3>1. Leads(dir.path, p)
      BY <2>2 DEF ByRead
    <3>2. PICK n : n = p[Len(dir.path) + 1]
      OBVIOUS
    <3>3. /\ n \in NamesIn(dir.inode) \ Odd /\ n \in Names
          /\ Reported(dir.inode, n) \in {"unknown", fs[SubSeq(p, 1, Len(dir.path) + 1)].type}
      BY <1>1, <1>8, <3>1, <3>2, EntryListed
    <3>4. PICK k \in 1..Len(kept) : kept[k] = n
      BY <3>3, SortedHas
    <3>5. entry(k).name = n /\ entry(k).type = Reported(dir.inode, n)
      BY <3>4
    <3> HIDE DEF entry, kept
    <3>6. PICK e : e = entry(k)
      OBVIOUS
    <3>7. Listed(e, dir.path, p)
      BY <3>2, <3>3, <3>5, <3>6 DEF Listed
    <3>8. k \in 1..Len(listing') /\ listing'[k] = e
      BY <1>4, <3>4, <3>6
    <3>9. Listed(e, dir.path, p)' /\ Leads(dir.path, p)'
      <4>1. PICK d : d = dir.path
        OBVIOUS
      <4>2. Listed(e, d, p)' /\ Leads(d, p)'
        BY <1>1, <3>1, <3>7, <4>1, LeadsStays
      <4> QED
        BY <1>1, <4>1, <4>2 DEF Listed, Leads, Under
    <3>10. ByListing(p)'
      BY <1>1, <3>8, <3>9 DEF ByListing, Listed
    <3> QED
      BY <3>10 DEF Ahead
  <2> QED
    BY <1>1, <1>8, <2>1, <2>2 DEF Ahead, ByChildren, ByListing
<1>9. RulesCovered'
  BY <1>1, <1>8, CoveredKept DEF CInv
<1> QED
  BY <1>5, <1>7, <1>9

\* The directories found are walked next, none that waits is dropped.
LEMMA CoverEndDirectory ==
  ASSUME CInv, UNCHANGED world, EndDirectory
  PROVE  RulesCovered'
<1>1. /\ phase = "entries" /\ listing = <<>> /\ phase' = "walk"
      /\ pending' = children \o pending
      /\ UNCHANGED <<rule, files>>
  BY DEF EndDirectory, Deeper
<1>2. children \in Seq(Directories) /\ pending \in Seq(Directories)
  BY DEF CInv, DInv, TypeOK, Directories
<1>3. /\ \A i \in 1..Len(children) : \E k \in 1..Len(children \o pending) : (children \o pending)[k] = children[i]
      /\ \A i \in 1..Len(pending) : \E k \in 1..Len(children \o pending) : (children \o pending)[k] = pending[i]
  <2>1. PICK l \in Nat, m \in Nat : l = Len(children) /\ m = Len(pending)
    <3>1. Len(children) \in Nat /\ Len(pending) \in Nat
      BY <1>2
    <3> QED
      BY <3>1
  <2>2. PICK u \in Seq(Directories) : /\ u = children \o pending /\ Len(u) = l + m
                                      /\ \A i \in 1..l : u[i] = children[i]
                                      /\ \A i \in 1..m : u[l + i] = pending[i]
    <3>1. /\ children \o pending \in Seq(Directories) /\ Len(children \o pending) = l + m
          /\ \A i \in 1..l : (children \o pending)[i] = children[i]
          /\ \A i \in 1..m : (children \o pending)[l + i] = pending[i]
      BY <1>2, <2>1
    <3> QED
      BY <3>1
  <2>3. \A i \in 1..l : i \in 1..(l + m)
    BY <2>1
  <2>4. \A i \in 1..m : l + i \in 1..(l + m)
    BY <2>1
  <2> QED
    BY <2>1, <2>2, <2>3, <2>4
<1>4. ASSUME NEW p \in Paths, Ahead(p) PROVE Ahead(p)'
  <2>1. ByPending(p) \/ ByChildren(p)
    <3>1. Len(listing) = 0
      BY <1>1
    <3> QED
      BY <1>1, <1>4, <3>1 DEF Ahead, ByRead, ByListing
  <2>2. PICK d : Leads(d, p) /\ \E k \in 1..Len(pending') : pending'[k] = d
    BY <1>1, <1>3, <2>1 DEF ByPending, ByChildren
  <2>3. Leads(d, p)'
    BY <1>1, <2>2, LeadsStays
  <2>4. ByPending(p)'
    BY <2>2, <2>3 DEF ByPending, Leads, Under
  <2> QED
    BY <2>4 DEF Ahead
<1> QED
  BY <1>1, <1>4, CoveredKept DEF CInv

\* A file that lies in its place can be opened, and a directory on the way is one.
LEMMA Opens ==
  ASSUME NEW p, p \in Paths, fs[p] # None
  PROVE  /\ fs[p].type = "file" => RegularAt(p) # {} /\ ~DirectoryAt(p)
         /\ fs[p].type = "dir" => DirectoryAt(p)
<1>1. p # Root
  <2>1. Len(p) \in Nat \ {0}
    BY PathsAreSequences
  <2> QED
    BY <2>1 DEF Root
<1> QED
  BY <1>1 DEF RegularAt, DirectoryAt, Exists

\* What is looked at next leads to p: p is found, or the directory on the way to it.
LEMMA EntryFound ==
  ASSUME CInv, UNCHANGED world, Entry, phase' # "done",
         NEW p, Steady(p), Allows(source.rules[rule], p), Leads(dir.path, p),
         Listed(Head(listing), dir.path, p)
  PROVE  \/ p \in DOMAIN files'
         \/ \E w : children' = Append(children, w) /\ Leads(w, p)
<1> DEFINE e == Head(listing)
           w == Append(dir.path, e.name)
<1>1. p \in Paths /\ dir.path \in Directories /\ Under(dir.path, p)
  BY DEF Steady, Leads, CInv, DInv, TypeOK, Directories
<1>2. PICK x \in Paths : x = SubSeq(p, 1, Len(dir.path) + 1)
  BY <1>1, OnTheWay
<1>3. e.name = p[Len(dir.path) + 1] /\ e.type \in {"unknown", fs[x].type}
  BY <1>2 DEF Listed
<1>4. /\ x = w /\ Len(x) = Len(dir.path) + 1
      /\ Len(p) = Len(dir.path) + 1 => x = p
      /\ Len(p) # Len(dir.path) + 1 => Under(x, p)
  BY <1>1, <1>2, <1>3, OnTheWay
<1>5. \A code : ~Fail(code)
  BY DEF Fail, Return
<1> HIDE DEF w, e
<1>6. CASE Len(p) = Len(dir.path) + 1
  <2>1. x = p /\ w = p
    BY <1>4, <1>6
  <2>2. fs[p].type = "file" /\ fs[p] # None
    BY DEF Steady
  <2>3. Matches(p)
    BY DEF Allows, Matches
  <2>4. RegularAt(p) # {} /\ ~DirectoryAt(p)
    BY <1>1, <2>2, Opens
  <2>5. e.type = "file" \/ e.type = "unknown"
    BY <1>3, <2>1, <2>2
  <2>6. Record(p)
    <3>1. CASE e.type = "file"
      BY <1>5, <2>1, <2>3, <2>4, <3>1 DEF Entry, w, e
    <3>2. CASE e.type = "unknown"
      BY <1>5, <2>1, <2>3, <2>4, <3>2 DEF Entry, w, e
    <3> QED
      BY <2>5, <3>1, <3>2
  <2>7. files' = IF p \in DOMAIN files THEN files ELSE With(files, p, FileAt(p))
    BY <1>5, <2>6 DEF Record
  <2>8. p \in DOMAIN With(files, p, FileAt(p))
    BY DEF With
  <2> QED
    BY <2>7, <2>8
<1>7. CASE Len(p) # Len(dir.path) + 1
  <2>1. Under(x, p) /\ Recursive
    BY <1>4, <1>7 DEF Leads
  <2>2. fs[x] # None /\ fs[x].type = "dir"
    BY <1>2, <2>1, WayIsSteady DEF CInv
  <2>3. DirectoryAt(w)
    BY <1>2, <1>4, <2>2, Opens
  <2>4. e.type = "dir" \/ e.type = "unknown"
    BY <1>3, <2>2
  <2>5. Child(w)
    <3>1. CASE e.type = "dir"
      BY <1>5, <2>1, <2>3, <3>1 DEF Entry, w, e
    <3>2. CASE e.type = "unknown"
      BY <1>5, <2>1, <2>3, <3>2 DEF Entry, w, e
    <3> QED
      BY <2>4, <3>1, <3>2
  <2>6. children' = Append(children, w)
    BY <2>5 DEF Child
  <2>7. Leads(w, p)
    BY <1>4, <2>1 DEF Leads
  <2> QED
    BY <2>6, <2>7
<1> QED
  BY <1>6, <1>7

\* What an entry changes.
LEMMA EntryEffect ==
  ASSUME Entry, phase' # "done"
  PROVE  /\ phase = "entries" /\ phase' = "entries" /\ listing # <<>> /\ listing' = Tail(listing)
         /\ UNCHANGED <<rule, pending, dir, todo, explicit>>
         /\ children' = children \/ \E w : children' = Append(children, w)
         /\ \A p \in DOMAIN files : p \in DOMAIN files'
<1>1. phase = "entries" /\ listing # <<>>
  BY DEF Entry
<1>2. \A code : ~Fail(code)
  BY DEF Fail, Return
<1> DEFINE w == Append(dir.path, Head(listing).name)
<1>3. PassOver \/ Child(w) \/ Record(w)
  BY <1>2 DEF Entry
<1> HIDE DEF w
<1>4. CASE PassOver
  BY <1>1, <1>4 DEF PassOver
<1>5. CASE Child(w)
  BY <1>1, <1>5 DEF Child
<1>6. CASE Record(w)
  BY <1>1, <1>2, <1>6 DEF Record, With
<1> QED
  BY <1>3, <1>4, <1>5, <1>6

\* Looking at an entry drops nothing else.
LEMMA CoverEntry ==
  ASSUME CInv, UNCHANGED world, Entry, phase' # "done"
  PROVE  RulesCovered' /\ DirOpen' /\ ListingTyped'
<1>1. /\ phase = "entries" /\ phase' = "entries" /\ listing # <<>> /\ listing' = Tail(listing)
      /\ UNCHANGED <<rule, pending, dir, todo, explicit>>
      /\ children' = children \/ \E w : children' = Append(children, w)
      /\ \A p \in DOMAIN files : p \in DOMAIN files'
  BY EntryEffect
<1>2. PICK S : listing \in Seq(S)
  BY DEF CInv, ListingTyped
<1>3. ListingTyped'
  <2>1. Tail(listing) \in Seq(S)
    BY <1>1, <1>2
  <2> QED
    BY <1>1, <2>1 DEF ListingTyped
<1>4. DirOpen'
  BY <1>1 DEF CInv, DirOpen, LeftAlone, world
<1>5. children \in Seq(Directories)
  BY DEF CInv, DInv, TypeOK, Directories
<1>6. ASSUME NEW d, NEW p, Leads(d, p), \E i \in 1..Len(children') : children'[i] = d
      PROVE  Ahead(p)'
  <2>1. Leads(d, p)'
    BY <1>1, <1>6, LeadsStays
  <2>2. ByChildren(p)'
    BY <1>1, <1>6, <2>1 DEF ByChildren, Leads, Under
  <2> QED
    BY <2>2 DEF Ahead
<1>7. ASSUME NEW p \in Paths, Steady(p), Allows(source.rules[rule], p), Ahead(p)
      PROVE  p \in DOMAIN files' \/ Ahead(p)'
  <2>1. CASE ByPending(p)
    <3>1. ByPending(p)'
      BY <1>1, <2>1, LeadsStays DEF ByPending
    <3> QED
      BY <3>1 DEF Ahead
  <2>2. CASE ByChildren(p)
    <3>1. PICK i \in 1..Len(children) : Leads(children[i], p)
      BY <2>2 DEF ByChildren
    <3>2. PICK d : d = children[i]
      OBVIOUS
    <3>3. \E k \in 1..Len(children') : children'[k] = d
      <4>1. CASE children' = children
        BY <3>2, <4>1
      <4>2. CASE \E w : children' = Append(children, w)
        <5>1. PICK w : children' = Append(children, w)
          BY <4>2
        <5>2. i \in 1..Len(Append(children, w)) /\ Append(children, w)[i] = children[i]
          BY <1>5
        <5> QED
          BY <3>2, <5>1, <5>2
      <4> QED
        BY <1>1, <4>1, <4>2
    <3> QED
      BY <1>6, <3>1, <3>2, <3>3
  <2>3. CASE ByListing(p)
    <3>1. PICK i \in 1..Len(listing) : Listed(listing[i], dir.path, p) /\ Leads(dir.path, p)
      BY <2>3 DEF ByListing
    <3>2. CASE i = 1
      <4>1. Head(listing) = listing[1]
        BY <1>2
      <4>2. Listed(Head(listing), dir.path, p)
        BY <3>1, <3>2, <4>1
      <4>3. CASE \E w : children' = Append(children, w) /\ Leads(w, p)
        <5>1. PICK w : children' = Append(children, w) /\ Leads(w, p)
          BY <4>3
        <5>2. Len(children) + 1 \in 1..Len(Append(children, w)) /\ Append(children, w)[Len(children) + 1] = w
          BY <1>5
        <5>3. \E k \in 1..Len(children') : children'[k] = w
          BY <5>1, <5>2
        <5> QED
          BY <1>6, <5>1, <5>3
      <4> QED
        BY <1>7, <3>1, <4>2, <4>3, EntryFound
    <3>3. CASE i # 1
      <4>1. i - 1 \in 1..Len(Tail(listing)) /\ Tail(listing)[i - 1] = listing[i]
        BY <1>1, <1>2, <3>3
      <4>2. PICK k \in 1..Len(listing') : listing'[k] = listing[i]
        BY <1>1, <4>1
      <4>3. PICK e, d : e = listing[i] /\ d = dir.path
        OBVIOUS
      <4>4. Listed(e, d, p)' /\ Leads(d, p)'
        BY <1>1, <3>1, <4>3, LeadsStays
      <4>5. listing'[k] = e /\ dir'.path = d
        BY <1>1, <4>2, <4>3
      <4>6. ByListing(p)'
        BY <1>1, <4>4, <4>5 DEF ByListing, Listed, Leads, Under
      <4> QED
        BY <4>6 DEF Ahead
    <3> QED
      BY <3>2, <3>3
  <2> QED
    BY <1>1, <1>7, <2>1, <2>2, <2>3 DEF Ahead, ByRead
<1>8. RulesCovered'
  BY <1>1, <1>7, CoveredKept DEF CInv
<1> QED
  BY <1>3, <1>4, <1>8

\* The explicit files are opened one by one.
LEMMA CoverOpenExplicit ==
  ASSUME CInv, UNCHANGED world, OpenExplicit, phase' # "done"
  PROVE  RulesCovered' /\ ExplicitCovered'
<1>1. /\ phase = "explicit" /\ phase' = "explicit" /\ todo # <<>>
      /\ explicit' = With(explicit, Head(todo), FileAt(Head(todo)))
      /\ todo' = Tail(todo)
      /\ UNCHANGED <<rule, pending, dir, listing, children, files>>
  BY DEF OpenExplicit, Fail, Return
<1>2. todo \in Seq(Paths)
  BY DEF CInv, DInv, TypeOK
<1>3. DOMAIN explicit' = DOMAIN explicit \cup {Head(todo)}
  BY <1>1 DEF With
<1>4. ASSUME NEW i \in 1..Len(source.explicit)
      PROVE  source.explicit[i] \in DOMAIN explicit' \/ \E k \in 1..Len(todo') : todo'[k] = source.explicit[i]
  <2>1. CASE source.explicit[i] \in DOMAIN explicit
    BY <1>3, <2>1
  <2>2. CASE \E k \in 1..Len(todo) : todo[k] = source.explicit[i]
    <3>1. PICK k \in 1..Len(todo) : todo[k] = source.explicit[i]
      BY <2>2
    <3>2. CASE k = 1
      <4>1. Head(todo) = source.explicit[i]
        BY <1>2, <3>1, <3>2
      <4> QED
        BY <1>3, <4>1
    <3>3. CASE k # 1
      <4>1. k - 1 \in 1..Len(Tail(todo)) /\ Tail(todo)[k - 1] = todo[k]
        BY <1>1, <1>2, <3>3
      <4> QED
        BY <1>1, <3>1, <4>1
    <3> QED
      BY <3>2, <3>3
  <2> QED
    BY <1>1, <2>1, <2>2 DEF CInv, ExplicitCovered
<1>5. ExplicitCovered'
  BY <1>1, <1>4 DEF ExplicitCovered, world
<1>6. ASSUME NEW p \in Paths, Ahead(p) PROVE Ahead(p)'
  <2>1. ByPending(p)
    BY <1>1, <1>6 DEF Ahead, ByRead, ByChildren, ByListing
  <2>2. ByPending(p)'
    BY <1>1, <2>1, LeadsStays DEF ByPending
  <2> QED
    BY <2>2 DEF Ahead
<1>7. RulesCovered'
  BY <1>1, <1>6, CoveredKept DEF CInv
<1> QED
  BY <1>5, <1>7

\* What is returned has every file.
LEMMA CoverFinish ==
  ASSUME CInv, UNCHANGED world, Finish
  PROVE  AnswerCovers'
<1> SUFFICES ASSUME Succeeded', NEW p \in Paths, Steady(p)', PathIsConfigured(p)'
             PROVE  p \in DOMAIN answer'.files
  BY DEF AnswerCovers
<1>1. /\ phase \in {"explicit", "walk"} /\ todo = <<>> /\ pending = <<>> /\ rule = Len(source.rules)
  BY DEF Finish
<1>2. answer' = [files |-> Merged(explicit, files)]
  <2>1. ASSUME NEW code, Fail(code) PROVE FALSE
    <3>1. answer' = [error |-> code]
      BY <2>1 DEF Fail, Return
    <3>2. "files" \notin DOMAIN answer'
      BY <3>1
    <3> QED
      BY <3>2 DEF Succeeded
  <2> QED
    BY <2>1 DEF Finish, Return
<1>3. answer'.files = Merged(explicit, files)
  BY <1>2
<1>4. DOMAIN Merged(explicit, files) = DOMAIN explicit \cup DOMAIN files
  BY DEF Merged
<1>5. fs' = fs /\ source' = source /\ touched' = touched
  BY DEF world
<1>6. Steady(p) /\ PathIsConfigured(p)
  BY <1>5 DEF Steady, LeftAlone, PathIsConfigured, Allows, Under
<1>7. CASE \E i \in DOMAIN source.explicit : source.explicit[i] = p
  <2>1. source.explicit \in Seq(Paths)
    BY SourcesAssumption DEF CInv, DInv, TypeOK
  <2>2. PICK i \in 1..Len(source.explicit) : source.explicit[i] = p
    BY <1>7, <2>1
  <2>3. Len(todo) = 0
    BY <1>1
  <2>4. p \in DOMAIN explicit
    BY <1>1, <2>2, <2>3 DEF CInv, ExplicitCovered
  <2> QED
    BY <1>3, <1>4, <2>4
<1>8. CASE \E i \in DOMAIN source.rules : Allows(source.rules[i], p)
  <2>1. source.rules \in Seq(Rules)
    <3>1. source \in [explicit : Seq(Paths), rules : Seq(Rules)]
      BY SourcesAssumption DEF CInv, DInv, TypeOK, Directories, Rules
    <3> QED
      BY <3>1
  <2>2. PICK i \in 1..rule : Allows(source.rules[i], p)
    BY <1>1, <1>8, <2>1
  <2>3. ~Ahead(p)
    <3>1. Len(pending) = 0
      BY <1>1
    <3> QED
      BY <1>1, <3>1 DEF Ahead, ByPending, ByRead, ByChildren, ByListing
  <2>4. p \in DOMAIN files
    BY <1>1, <1>6, <2>2, <2>3 DEF CInv, RulesCovered, Covered
  <2> QED
    BY <1>3, <1>4, <2>4
<1> QED
  BY <1>6, <1>7, <1>8 DEF PathIsConfigured

\* The walk starts with all rules ahead of it and all explicit files to be opened.
LEMMA CoverInit == Init => CInv
<1> SUFFICES ASSUME Init PROVE CInv
  OBVIOUS
<1>1. DInv /\ TreeSound
  BY ReopenInit, TreeSoundInit
<1>2. rule = 0 /\ phase = "explicit" /\ todo = source.explicit /\ listing = <<>>
  BY DEF Init
<1>3. ListingTyped
  BY <1>2 DEF ListingTyped
<1>4. RulesCovered
  BY <1>2 DEF RulesCovered, Covered
<1>5. ExplicitCovered
  BY <1>2 DEF ExplicitCovered
<1> QED
  BY <1>1, <1>2, <1>3, <1>4, <1>5 DEF CInv, AnswerCovers, Succeeded, Done, DirOpen

\* A walk that is over, or moves on without an answer.
LEMMA CoverDone ==
  ASSUME phase' = "done"
  PROVE  RulesCovered' /\ ExplicitCovered' /\ DirOpen'
  BY DEF RulesCovered, ExplicitCovered, DirOpen

\* A walk that is given up answers with an error, and promises nothing.
LEMMA CoverFail ==
  ASSUME NEW code, Fail(code), CInv
  PROVE  AnswerCovers' /\ ListingTyped' /\ RulesCovered' /\ ExplicitCovered' /\ DirOpen'
<1>1. phase' = "done" /\ answer' = [error |-> code] /\ listing' = listing
  BY DEF Fail, Return
<1>2. "files" \notin DOMAIN answer'
  BY <1>1
<1>3. AnswerCovers'
  BY <1>2 DEF AnswerCovers, Succeeded
<1>4. ListingTyped'
  BY <1>1 DEF CInv, ListingTyped
<1> QED
  BY <1>1, <1>3, <1>4, CoverDone

\* Whatever the walk does next.
LEMMA CoverStep == CInv /\ Step /\ UNCHANGED world => CInv'
<1> SUFFICES ASSUME CInv, Step, UNCHANGED world PROVE CInv'
  OBVIOUS
<1>1. DInv'
  BY ReopenStep DEF CInv
<1>2. TreeSound'
  BY DEF CInv, TreeSound, IdsGiven, InDirectories, NoHardLinks, world
<1>3. CASE \E code : Fail(code)
  BY <1>1, <1>2, <1>3, CoverFail DEF CInv
<1>4. CASE phase' = "done" /\ ~\E code : Fail(code)
  <2>1. Finish
    BY <1>4 DEF Step, OpenExplicit, NextRule, OpenDirectory, ReadDirectory, Entry, EndDirectory,
                PassOver, Child, Record
  <2>2. listing' = listing
    BY <1>4, <2>1 DEF Finish
  <2>3. ListingTyped'
    BY <2>2 DEF CInv, ListingTyped
  <2> QED
    BY <1>1, <1>2, <1>4, <2>1, <2>3, CoverFinish, CoverDone DEF CInv
<1>5. CASE phase' # "done"
  <2>1. AnswerCovers'
    BY <1>5 DEF AnswerCovers, Succeeded, Done
  <2>2. UNCHANGED <<todo, explicit>> => ExplicitCovered'
    BY <1>5 DEF CInv, ExplicitCovered, world, Step, OpenExplicit, NextRule, OpenDirectory,
                ReadDirectory, Entry, EndDirectory, Finish
  <2>3. \A code : ~Fail(code)
    BY <1>5 DEF Fail, Return
  <2>4. phase' \notin {"read", "entries"} => DirOpen'
    BY DEF DirOpen
  <2>5. listing' = listing => ListingTyped'
    BY DEF CInv, ListingTyped
  <2>6. CASE OpenExplicit
    <3>1. phase' = "explicit" /\ listing' = listing
      BY <2>3, <2>6 DEF OpenExplicit
    <3> QED
      BY <1>1, <1>2, <1>5, <2>1, <2>4, <2>5, <2>6, <3>1, CoverOpenExplicit DEF CInv
  <2>7. CASE NextRule
    <3>1. phase' = "walk" /\ UNCHANGED <<todo, explicit, listing>>
      BY <2>7 DEF NextRule
    <3> QED
      BY <1>1, <1>2, <2>1, <2>2, <2>4, <2>5, <2>7, <3>1, CoverNextRule DEF CInv
  <2>8. CASE OpenDirectory
    <3>1. UNCHANGED <<todo, explicit, listing>>
      BY <2>3, <2>8 DEF OpenDirectory
    <3> QED
      BY <1>1, <1>2, <1>5, <2>1, <2>2, <2>5, <2>8, <3>1, CoverOpenDirectory DEF CInv
  <2>9. CASE ReadDirectory
    <3>1. UNCHANGED <<todo, explicit>>
      BY <2>3, <2>9 DEF ReadDirectory
    <3> QED
      BY <1>1, <1>2, <1>5, <2>1, <2>2, <2>9, <3>1, CoverReadDirectory DEF CInv
  <2>10. CASE Entry
    <3>1. UNCHANGED <<todo, explicit>>
      BY <1>5, <2>10, EntryEffect
    <3> QED
      BY <1>1, <1>2, <1>5, <2>1, <2>2, <2>10, <3>1, CoverEntry DEF CInv
  <2>11. CASE EndDirectory
    <3>1. phase' = "walk" /\ UNCHANGED <<todo, explicit, listing>>
      BY <2>11 DEF EndDirectory
    <3> QED
      BY <1>1, <1>2, <2>1, <2>2, <2>4, <2>5, <2>11, <3>1, CoverEndDirectory DEF CInv
  <2>12. CASE Finish
    BY <1>5, <2>3, <2>12 DEF Finish, Return
  <2> QED
    BY <2>6, <2>7, <2>8, <2>9, <2>10, <2>11, <2>12 DEF Step
<1> QED
  BY <1>3, <1>4, <1>5

\* What lies in its place after other programs worked did so before, and the walk
\* comes to it as before.
LEMMA CoverOthers == CInv /\ Environment => CInv'
<1> SUFFICES ASSUME CInv, Environment PROVE CInv'
  OBVIOUS
<1>1. DInv' /\ TreeSound' /\ TypeOK
  BY ReopenOthers, TreeSoundOthers DEF CInv, DInv
<1>2. UNCHANGED <<source, phase, todo, explicit, rule, pending, dir, listing, children, files, answer>>
  BY <1>1, LeftAloneKeeps DEF walk
<1>3. ASSUME NEW p \in Paths, LeftAlone(p)'
      PROVE  /\ LeftAlone(p)
             /\ fs'[p] # None <=> fs[p] # None
             /\ fs[p] # None => fs'[p].type = fs[p].type /\ fs'[p].id = fs[p].id
  BY <1>1, <1>3, LeftAloneKeeps
<1>4. ASSUME NEW p \in Paths, Steady(p)' PROVE Steady(p)
  BY <1>3, <1>4 DEF Steady
<1>5. ASSUME NEW p \in Paths, Steady(p)', NEW d \in Directories, Under(d, p)
      PROVE  LET x == SubSeq(p, 1, Len(d) + 1) IN fs'[x].type = fs[x].type
  <2>1. PICK x \in Paths : x = SubSeq(p, 1, Len(d) + 1) /\ (x = p \/ Under(x, p))
    BY <1>5, OnTheWay
  <2>2. Steady(p)
    BY <1>4, <1>5
  <2>3. CASE x = p
    BY <1>3, <1>5, <2>1, <2>2, <2>3 DEF Steady
  <2>4. CASE Under(x, p)
    <3>1. fs[x] # None
      BY <1>1, <2>2, <2>4, WayIsSteady DEF CInv
    <3>2. LeftAlone(x)'
      <4>1. \A n \in 1..Len(p) : SubSeq(p, 1, n) \notin touched'
        BY <1>5 DEF Steady, LeftAlone
      <4>2. Len(p) \in Nat /\ Len(x) \in Nat /\ p \in Seq(Names) /\ Len(p) > Len(x) /\ SubSeq(p, 1, Len(x)) = x
        BY <2>1, <2>4, PathsAreSequences DEF Under
      <4>3. ASSUME NEW n \in 1..Len(x) PROVE SubSeq(x, 1, n) \notin touched'
        <5>1. Len(x) \in 0..Len(p) /\ n \in 0..Len(x) /\ n \in 1..Len(p)
          BY <4>2
        <5>2. SubSeq(SubSeq(p, 1, Len(x)), 1, n) = SubSeq(p, 1, n)
          BY <4>2, <5>1, BeginningOfBeginning
        <5> QED
          BY <4>1, <4>2, <5>1, <5>2
      <4> QED
        BY <4>3 DEF LeftAlone
    <3> QED
      BY <1>3, <2>1, <3>1, <3>2
  <2> QED
    BY <2>1, <2>3, <2>4
<1>6. ASSUME NEW p \in Paths, Steady(p)', Ahead(p) PROVE Ahead(p)'
  <2>1. \A d, x : Leads(d, x)' <=> Leads(d, x)
    BY <1>2 DEF Leads, Recursive, Under
  <2>2. CASE ByPending(p)
    BY <1>2, <2>1, <2>2 DEF Ahead, ByPending
  <2>3. CASE ByRead(p)
    BY <1>2, <2>1, <2>3 DEF Ahead, ByRead
  <2>4. CASE ByChildren(p)
    BY <1>2, <2>1, <2>4 DEF Ahead, ByChildren
  <2>5. CASE ByListing(p)
    <3>1. PICK i \in 1..Len(listing) : Listed(listing[i], dir.path, p) /\ Leads(dir.path, p)
      BY <2>5 DEF ByListing
    <3>2. dir.path \in Directories /\ Under(dir.path, p)
      BY <1>1, <3>1 DEF TypeOK, Directories, Leads
    <3>3. PICK e, d : e = listing[i] /\ d = dir.path
      OBVIOUS
    <3>4. Listed(e, d, p)'
      BY <1>5, <1>6, <3>1, <3>2, <3>3 DEF Listed
    <3>5. ByListing(p)'
      BY <1>2, <2>1, <2>5, <3>1, <3>3, <3>4 DEF ByListing, Listed
    <3> QED
      BY <3>5 DEF Ahead
  <2> QED
    BY <1>6, <2>2, <2>3, <2>4, <2>5 DEF Ahead
<1>7. RulesCovered'
  <2>1. ASSUME phase # "done", NEW p \in Paths, Steady(p)' PROVE Covered(p)'
    <3>1. Covered(p)
      BY <1>4, <2>1 DEF CInv, RulesCovered
    <3>2. \A j : Allows(source.rules[j], p)' <=> Allows(source.rules[j], p)
      BY <1>2 DEF Allows, Under
    <3> QED
      BY <1>2, <1>6, <2>1, <3>1, <3>2 DEF Covered
  <2> QED
    BY <1>2, <2>1 DEF RulesCovered
<1>8. ExplicitCovered' /\ ListingTyped'
  BY <1>2 DEF CInv, ExplicitCovered, ListingTyped
<1>9. AnswerCovers'
  <2>1. \A p : PathIsConfigured(p)' <=> PathIsConfigured(p)
    BY <1>2 DEF PathIsConfigured, Allows, Under
  <2> QED
    BY <1>2, <1>4, <2>1 DEF CInv, AnswerCovers, Succeeded, Done
<1>10. DirOpen'
  <2>1. ASSUME phase \in {"read", "entries"}, LeftAlone(dir.path)', dir.path # Root
        PROVE  fs'[dir.path] # None /\ fs'[dir.path].id = dir.inode
    <3>1. dir.path \in Paths
      BY <1>1, <2>1 DEF TypeOK
    <3>2. PICK d \in Paths : d = dir.path
      BY <3>1
    <3>3. LeftAlone(d)'
      BY <1>2, <2>1, <3>2 DEF LeftAlone
    <3>4. LeftAlone(d)
      BY <1>3, <3>3
    <3>5. fs[d] # None /\ fs[d].id = dir.inode
      BY <2>1, <3>2, <3>4 DEF CInv, DirOpen
    <3> QED
      BY <1>3, <3>2, <3>3, <3>5
  <2>2. ASSUME phase \in {"read", "entries"}, dir.path = Root PROVE dir.inode = 0
    <3>1. LeftAlone(dir.path)
      BY <2>2 DEF LeftAlone, Root
    <3> QED
      BY <2>2, <3>1 DEF CInv, DirOpen
  <2> QED
    BY <1>2, <2>1, <2>2 DEF DirOpen, LeftAlone
<1> QED
  BY <1>1, <1>7, <1>8, <1>9, <1>10 DEF CInv

\* The invariant of the walk.
LEMMA CoverInvariant == Spec => []CInv
<1>1. CInv /\ [Next]_vars => CInv'
  <2> SUFFICES ASSUME CInv, [Next]_vars PROVE CInv'
    OBVIOUS
  <2>1. CASE Step /\ UNCHANGED world
    BY <2>1, CoverStep
  <2>2. CASE Environment
    BY <2>2, CoverOthers
  <2>3. CASE UNCHANGED vars
    <3>1. UNCHANGED <<world, phase, todo, explicit, rule, pending, dir, listing, children, files, answer>>
      BY <2>3 DEF vars, walk
    <3>2. DInv'
      BY <2>3, ReopenUnchanged DEF CInv
    <3>3. TreeSound' /\ ExplicitCovered' /\ ListingTyped' /\ DirOpen'
      BY <3>1 DEF CInv, TreeSound, IdsGiven, InDirectories, NoHardLinks, ExplicitCovered,
                  ListingTyped, DirOpen, LeftAlone, world
    <3>4. RulesCovered'
      <4>1. CASE phase = "done"
        BY <3>1, <4>1 DEF RulesCovered
      <4>2. CASE phase # "done"
        <5>1. ASSUME NEW p, Ahead(p) PROVE Ahead(p)'
          <6>1. \A d : Leads(d, p)' <=> Leads(d, p)
            BY <3>1, LeadsStays
          <6>2. ByListing(p) => ByListing(p)'
            BY <3>1, <6>1 DEF ByListing, Listed, world
          <6> QED
            BY <3>1, <5>1, <6>1, <6>2 DEF Ahead, ByPending, ByRead, ByChildren
        <5> QED
          BY <3>1, <4>2, <5>1, CoveredKept DEF CInv
      <4> QED
        BY <4>1, <4>2
    <3>5. AnswerCovers'
      BY <3>1 DEF CInv, AnswerCovers, Succeeded, Done, Steady, LeftAlone, PathIsConfigured, Allows,
                  Under, world
    <3> QED
      BY <3>2, <3>3, <3>4, <3>5 DEF CInv
  <2> QED
    BY <2>1, <2>2, <2>3 DEF Next
<1> QED
  BY <1>1, CoverInit, PTL DEF Spec

\* A snapshot that succeeds has every configured file that lay in its place
\* throughout the walk, and the file itself.
THEOREM NothingIsMissed == Spec => []NothingMissed
<1>1. CInv => NothingMissed
  <2> SUFFICES ASSUME CInv, Succeeded, NEW p \in Paths, Exists(p), fs[p].type = "file",
                      LeftAlone(p), PathIsConfigured(p), Utf8(p)
               PROVE  /\ p \in DOMAIN answer.files
                      /\ answer.files[p].id = fs[p].id
                      /\ answer.files[p].size <= fs[p].size
    BY DEF NothingMissed, Found
  <2>1. Steady(p)
    BY DEF Steady, Exists
  <2>2. p \in DOMAIN answer.files
    BY <2>1 DEF CInv, AnswerCovers
  <2>3. StillThere(p, answer.files[p])
    BY <2>2 DEF CInv, DInv, AnswerReopens, Reopen
  <2> QED
    BY <2>2, <2>3 DEF StillThere
<1> QED
  BY <1>1, CoverInvariant, PTL

-----------------------------------------------------------------------------
(***************************************************************************)
(* No file is in a snapshot twice.                                         *)
(***************************************************************************)

\* What is noted in f under one path does not lie at another that was left alone.
Placed(f) ==
  \A q \in DOMAIN f, p \in Paths :
    fs[p] # None /\ fs[p].id = f[q].id /\ p # q => ~LeftAlone(p)

PInv ==
  /\ TypeOK /\ TreeSound
  /\ Placed(explicit) /\ Placed(files)
  /\ Succeeded => Placed(answer.files)

\* A file that is opened lies in one place only.
LEMMA PlacedWith ==
  ASSUME TypeOK, TreeSound, NEW f, Placed(f), NEW q, RegularAt(q) # {}
  PROVE  Placed(With(f, q, FileAt(q)))
<1>1. q \in Paths /\ fs[q] # None /\ FileAt(q) = [id |-> fs[q].id, size |-> fs[q].size]
  BY OpensAreTyped
<1>2. FileAt(q).id = fs[q].id
  BY <1>1
<1>3. PICK file : file = FileAt(q)
  OBVIOUS
<1>4. /\ DOMAIN With(f, q, file) = DOMAIN f \cup {q}
      /\ With(f, q, file)[q] = file
      /\ \A x \in DOMAIN f : x # q => With(f, q, file)[x] = f[x]
  BY DEF With
<1>5. ASSUME NEW p \in Paths, fs[p] # None, fs[p].id = file.id PROVE p = q
  BY <1>1, <1>2, <1>3, <1>5 DEF TreeSound, NoHardLinks
<1>6. Placed(With(f, q, file))
  BY <1>4, <1>5 DEF Placed
<1> QED
  BY <1>3, <1>6

LEMMA PlacedMerged ==
  ASSUME NEW f, NEW g, Placed(f), Placed(g)
  PROVE  Placed(Merged(f, g))
<1>1. ASSUME NEW q \in DOMAIN Merged(f, g)
      PROVE  (q \in DOMAIN f /\ Merged(f, g)[q] = f[q]) \/ (q \in DOMAIN g /\ Merged(f, g)[q] = g[q])
  BY <1>1 DEF Merged
<1> QED
  BY <1>1 DEF Placed

\* Where nothing is noted and nothing changes, everything stays placed.
LEMMA PlacedStays ==
  ASSUME NEW f, Placed(f), UNCHANGED world
  PROVE  Placed(f)'
  BY DEF Placed, LeftAlone, world

\* Nothing is noted at first, and what is noted stays placed.
LEMMA PlacedInit == Init => PInv
<1> SUFFICES ASSUME Init PROVE PInv
  OBVIOUS
<1>1. DOMAIN explicit = {} /\ DOMAIN files = {}
  BY DEF Init, Empty
<1> QED
  BY <1>1, TypeInit, TreeSoundInit DEF Init, PInv, Placed, Succeeded, Done

LEMMA PlacedStep == PInv /\ Step /\ UNCHANGED world => PInv'
<1> SUFFICES ASSUME PInv, Step, UNCHANGED world PROVE PInv'
  OBVIOUS
<1>1. TypeOK'
  BY TypeStep DEF PInv
<1>2. TreeSound'
  BY DEF PInv, TreeSound, IdsGiven, InDirectories, NoHardLinks, world
<1>3. phase # "done"
  BY DEF Step, OpenExplicit, NextRule, OpenDirectory, ReadDirectory, Entry, EndDirectory, Finish
<1>4. ASSUME NEW f, f \in {explicit, files} PROVE Placed(f)'
  BY <1>4, PlacedStays DEF PInv
<1>5. explicit' = explicit => Placed(explicit)'
  <2>1. PICK f : f = explicit
    OBVIOUS
  <2>2. Placed(f)'
    BY <1>4, <2>1
  <2> QED
    BY <2>1, <2>2 DEF Placed
<1>6. files' = files => Placed(files)'
  <2>1. PICK f : f = files
    OBVIOUS
  <2>2. Placed(f)'
    BY <1>4, <2>1
  <2> QED
    BY <2>1, <2>2 DEF Placed
<1>7. ASSUME NEW code, Fail(code) PROVE PInv'
  <2>1. answer' = [error |-> code] /\ UNCHANGED <<explicit, files>>
    BY <1>7 DEF Fail, Return
  <2>2. "files" \notin DOMAIN answer'
    BY <2>1
  <2> QED
    BY <1>1, <1>2, <1>5, <1>6, <2>1, <2>2 DEF PInv, Succeeded
<1>8. CASE OpenExplicit /\ ~\E code : Fail(code)
  <2>1. /\ RegularAt(Head(todo)) # {} /\ phase' = phase /\ files' = files
        /\ explicit' = With(explicit, Head(todo), FileAt(Head(todo)))
    BY <1>8 DEF OpenExplicit
  <2>2. PICK f : f = With(explicit, Head(todo), FileAt(Head(todo)))
    OBVIOUS
  <2>3. Placed(f)
    BY <2>1, <2>2, PlacedWith DEF PInv
  <2>4. Placed(f)'
    BY <2>3, PlacedStays
  <2>5. Placed(explicit)'
    BY <2>1, <2>2, <2>4 DEF Placed
  <2> QED
    BY <1>1, <1>2, <1>3, <1>6, <2>1, <2>5 DEF PInv, Succeeded, Done
<1>9. CASE NextRule \/ OpenDirectory \/ ReadDirectory \/ EndDirectory
  <2>1. (\E code : Fail(code)) \/ (phase' # "done" /\ UNCHANGED <<explicit, files>>)
    BY <1>9 DEF NextRule, OpenDirectory, ReadDirectory, EndDirectory
  <2> QED
    BY <1>1, <1>2, <1>5, <1>6, <1>7, <2>1 DEF PInv, Succeeded, Done
<1>10. CASE Entry /\ ~\E code : Fail(code)
  <2> DEFINE p == Append(dir.path, Head(listing).name)
  <2>1. PassOver \/ Child(p) \/ (Record(p) /\ (p \in DOMAIN files \/ RegularAt(p) # {}))
    BY <1>10 DEF Entry
  <2> HIDE DEF p
  <2>2. phase' = phase /\ explicit' = explicit
    BY <1>10, <2>1 DEF PassOver, Child, Record
  <2>3. files' = files \/ (files' = With(files, p, FileAt(p)) /\ RegularAt(p) # {})
    BY <1>10, <2>1 DEF PassOver, Child, Record
  <2>4. Placed(files)'
    <3>1. CASE files' = With(files, p, FileAt(p)) /\ RegularAt(p) # {}
      <4>1. PICK f : f = With(files, p, FileAt(p))
        OBVIOUS
      <4>2. Placed(f)
        BY <3>1, <4>1, PlacedWith DEF PInv
      <4>3. Placed(f)'
        BY <4>2, PlacedStays
      <4> QED
        BY <3>1, <4>1, <4>3 DEF Placed
    <3> QED
      BY <1>6, <2>3, <3>1
  <2> QED
    BY <1>1, <1>2, <1>3, <1>5, <2>2, <2>4 DEF PInv, Succeeded, Done
<1>11. CASE Finish /\ ~\E code : Fail(code)
  <2>1. answer' = [files |-> Merged(explicit, files)] /\ UNCHANGED <<explicit, files>>
    BY <1>11 DEF Finish, Return
  <2>2. PICK f : f = Merged(explicit, files)
    OBVIOUS
  <2>3. Placed(f)'
    BY <2>2, PlacedMerged, PlacedStays DEF PInv
  <2>4. answer'.files = f
    BY <2>1, <2>2
  <2>5. Placed(answer.files)'
    BY <2>3, <2>4 DEF Placed
  <2> QED
    BY <1>1, <1>2, <1>5, <1>6, <2>1, <2>5 DEF PInv
<1> QED
  BY <1>7, <1>8, <1>9, <1>10, <1>11 DEF Step

LEMMA PlacedInvariant == Spec => []PInv
<1>1. PInv /\ Environment => PInv'
  <2> SUFFICES ASSUME PInv, Environment PROVE PInv'
    OBVIOUS
  <2>1. UNCHANGED <<phase, explicit, files, answer>> /\ TreeSound'
    BY LeftAloneKeeps, TreeSoundOthers DEF PInv, walk
  <2>2. TypeOK'
    BY LeftAloneKeeps DEF PInv, TypeOK, walk, counts
  <2>3. ASSUME NEW f, Placed(f) PROVE Placed(f)'
    BY <2>3, LeftAloneKeeps DEF PInv, Placed
  <2>4. Placed(explicit)' /\ Placed(files)' /\ (Succeeded' => Placed(answer.files)')
    <3>1. PICK e, f, g : e = explicit /\ f = files /\ g = answer.files
      OBVIOUS
    <3>2. Placed(e)' /\ Placed(f)' /\ (Succeeded => Placed(g)')
      BY <2>3, <3>1 DEF PInv
    <3>3. explicit' = e /\ files' = f /\ answer'.files = g /\ (Succeeded' <=> Succeeded)
      BY <2>1, <3>1 DEF Succeeded, Done
    <3> QED
      BY <3>2, <3>3 DEF Placed
  <2> QED
    BY <2>1, <2>2, <2>4 DEF PInv
<1>2. PInv /\ UNCHANGED vars => PInv'
  BY DEF PInv, TypeOK, TreeSound, IdsGiven, InDirectories, NoHardLinks, Placed, LeftAlone,
         Succeeded, Done, vars, world, walk, counts
<1>3. PInv /\ [Next]_vars => PInv'
  BY <1>1, <1>2, PlacedStep DEF Next
<1> QED
  BY <1>3, PlacedInit, PTL DEF Spec

\* No file is in a snapshot under two paths, unless it was renamed from the one to
\* the other during the walk.
THEOREM EachFileOnce == Spec => []OneSnapshotPerFile
<1>1. PInv /\ DInv => OneSnapshotPerFile
  <2> SUFFICES ASSUME PInv, DInv, Succeeded, NEW p \in DOMAIN answer.files, NEW q \in DOMAIN answer.files,
                      p # q, answer.files[p].id = answer.files[q].id
               PROVE  ~LeftAlone(p) /\ ~LeftAlone(q)
    BY DEF OneSnapshotPerFile, Found
  <2>1. ASSUME NEW x \in DOMAIN answer.files, NEW y \in DOMAIN answer.files,
               x # y, answer.files[x].id = answer.files[y].id, LeftAlone(x)
        PROVE  FALSE
    <3>1. x \in Paths /\ fs[x] # None /\ fs[x].id = answer.files[x].id
      BY <2>1 DEF DInv, AnswerReopens, Reopen, StillThere
    <3> QED
      BY <2>1, <3>1 DEF PInv, Placed
  <2> QED
    BY <2>1
<1>2. CInv => DInv
  BY DEF CInv
<1> QED
  BY <1>1, <1>2, CoverInvariant, PlacedInvariant, PTL

-----------------------------------------------------------------------------
(***************************************************************************)
(* The walk of a tree that nobody touches.                                 *)
(***************************************************************************)

\* What is d or lies under it.
Within(d, x) == x = d \/ Under(d, x)

\* Places one within another are on one line down from the root.
LEMMA WithinWithin ==
  ASSUME NEW x \in Directories, NEW y \in Directories, NEW z \in Directories
  PROVE  /\ Within(z, y) /\ Within(y, x) => Within(z, x)
         /\ Within(z, y) /\ Under(y, x) => Under(z, x)
         /\ Within(z, y) /\ Within(y, z) => y = z
         /\ Within(y, x) /\ Within(z, x) => Within(z, y) \/ Within(y, z)
         /\ ~Under(x, x)
<1>1. x \in Seq(Names) /\ y \in Seq(Names) /\ z \in Seq(Names)
  BY PathsAreSequences
<1>2. ~(Under(y, z) /\ Under(z, y))
  <2>1. ~Under(z, z)
    BY <1>1, UnderUnder
  <2>2. Under(z, y) /\ Under(y, z) => Under(z, z)
    BY <1>1, UnderUnder
  <2> QED
    BY <2>1, <2>2
<1>3. Under(z, y) /\ Under(y, x) => Under(z, x)
  BY <1>1, UnderUnder
<1>4. Within(y, x) /\ Within(z, x) => Within(z, y) \/ Within(y, z)
  BY <1>1, UnderUnder DEF Within
<1>5. ~Under(x, x)
  BY <1>1, UnderUnder
<1> QED
  BY <1>2, <1>3, <1>4, <1>5 DEF Within

\* The place of an entry in the directory e.
LEMMA EntryPlace ==
  ASSUME NEW e \in Directories, NEW n, Append(e, n) \in Paths
  PROVE  /\ Under(e, Append(e, n)) /\ Front(Append(e, n)) = e /\ Last(Append(e, n)) = n
         /\ n \in Names /\ Len(Append(e, n)) = Len(e) + 1
<1>1. e \in Seq(Names) /\ Append(e, n) \in Seq(Names)
  BY PathsAreSequences
<1>2. Len(e) \in Nat /\ Len(Append(e, n)) = Len(e) + 1 /\ Append(e, n)[Len(e) + 1] = n
  BY <1>1
<1>3. n \in Names
  <2>1. Len(e) + 1 \in 1..Len(Append(e, n))
    BY <1>2
  <2> QED
    BY <1>1, <1>2, <2>1
<1>4. Under(e, Append(e, n)) /\ Last(Append(e, n)) = n
  BY <1>1, EntriesLieUnder
<1>5. Front(Append(e, n)) = e
  <2>1. PICK x \in Seq(Names) : x = Append(e, n)
    BY <1>1
  <2>2. Front(x) = SubSeq(x, 1, Len(e))
    BY <1>2, <2>1 DEF Front
  <2>3. SubSeq(x, 1, Len(e)) = e
    BY <1>4, <2>1 DEF Under
  <2> QED
    BY <2>1, <2>2, <2>3
<1> QED
  BY <1>2, <1>3, <1>4, <1>5

\* Every path has a directory and a name in it.
LEMMA PathIsEntry ==
  ASSUME NEW p \in Paths
  PROVE  Front(p) \in Directories /\ Last(p) \in Names /\ p = Append(Front(p), Last(p))
<1>1. PICK l \in Nat \ {0} : l = Len(p) /\ p \in Seq(Names)
  BY PathsAreSequences
<1>2. Front(p) = SubSeq(p, 1, l - 1) /\ Last(p) = p[l] /\ l \in 1..l
  BY <1>1 DEF Front, Last
<1>3. Front(p) \in Directories
  BY FrontIsBeginning DEF Directories
<1>4. Last(p) \in Names
  BY <1>1, <1>2
<1>5. p = Append(Front(p), Last(p))
  BY <1>1, <1>2
<1> QED
  BY <1>3, <1>4, <1>5

\* An entry lies right under its directory, with nothing between them.
LEMMA WithinEntry ==
  ASSUME NEW e \in Directories, NEW n, Append(e, n) \in Paths, NEW x \in Directories
  PROVE  /\ Within(Append(e, n), x) => Under(e, x)
         /\ Within(x, Append(e, n)) => x = Append(e, n) \/ Within(x, e)
         /\ ~Within(Append(e, n), e)
<1>1. PICK w : w = Append(e, n) /\ w \in Paths
  OBVIOUS
<1>2. Under(e, w) /\ w \in Directories /\ Front(w) = e
  BY <1>1, EntryPlace DEF Directories
<1>3. Within(w, x) => Under(e, x)
  BY <1>2, WithinWithin DEF Within
<1>4. Within(x, w) => x = w \/ Within(x, e)
  <2> SUFFICES ASSUME Under(x, w) PROVE Within(x, e)
    BY DEF Within
  <2>1. CASE x \in Paths
    BY <1>1, <1>2, <2>1, FrontIsBeginning DEF Within
  <2>2. CASE x = Root
    <3>1. e \in Seq(Names) /\ Len(e) \in Nat
      BY PathsAreSequences
    <3>2. PICK r, l, t : r = Root /\ l = Len(e) /\ t = SubSeq(e, 1, 0)
      OBVIOUS
    <3>3. Len(r) = 0 /\ t = r /\ (l = 0 => e = r)
      BY <3>1, <3>2 DEF Root
    <3>4. l > 0 => Under(r, e)
      BY <3>2, <3>3 DEF Under
    <3>5. l > 0 \/ l = 0
      BY <3>1, <3>2
    <3> QED
      BY <2>2, <3>2, <3>3, <3>4, <3>5 DEF Within
  <2> QED
    BY <2>1, <2>2 DEF Directories
<1>5. ~Within(w, e)
  BY <1>2, WithinWithin DEF Within
<1> QED
  BY <1>1, <1>3, <1>4, <1>5

\* Entries of one directory lie apart.
LEMMA EntriesApart ==
  ASSUME NEW e \in Directories, NEW n, NEW m, Append(e, n) \in Paths, Append(e, m) \in Paths,
         Within(Append(e, n), Append(e, m))
  PROVE  n = m
<1>1. PICK v, w : v = Append(e, n) /\ w = Append(e, m) /\ v \in Paths /\ w \in Paths
  OBVIOUS
<1>2. Len(v) = Len(e) + 1 /\ Len(w) = Len(e) + 1 /\ Last(v) = n /\ Last(w) = m /\ Len(e) \in Nat
  BY <1>1, EntryPlace, PathsAreSequences
<1>3. ~Under(v, w)
  BY <1>2 DEF Under
<1> QED
  BY <1>1, <1>2, <1>3 DEF Within

\* From a directory to what lies under it, one name further.
LEMMA OneFurther ==
  ASSUME NEW e \in Directories, NEW x \in Directories, Under(e, x)
  PROVE  \E n \in Names : /\ Append(e, n) \in Paths /\ Within(Append(e, n), x)
                          /\ Len(e) + 1 \in DOMAIN x /\ x[Len(e) + 1] = n
<1>1. x \in Paths
  <2>1. x # Root
    <3>1. Len(e) \in Nat
      BY PathsAreSequences
    <3> QED
      BY <3>1 DEF Under, Root
  <2> QED
    BY <2>1 DEF Directories
<1>2. PICK n, w : n = x[Len(e) + 1] /\ w = SubSeq(x, 1, Len(e) + 1)
  OBVIOUS
<1>3. /\ Len(e) + 1 \in DOMAIN x /\ n \in Names /\ w \in Paths /\ w = Append(e, n)
      /\ (Len(x) = Len(e) + 1 => w = x) /\ (Len(x) # Len(e) + 1 => Under(w, x))
  BY <1>1, <1>2, OnTheWay
<1> QED
  BY <1>2, <1>3 DEF Within

-----------------------------------------------------------------------------
(***************************************************************************)
(* The directories and entries of a rule.                                  *)
(***************************************************************************)

\* What DirectoriesOf says of each of them.
LEMMA InDirectoriesOf ==
  ASSUME NEW r, r.dir \in Directories, NEW d \in DirectoriesOf(r)
  PROVE  /\ d \in Directories /\ Within(r.dir, d) /\ (d = r.dir \/ r.recursive)
         /\ DirectoryAt(d) /\ DirectoryAt(r.dir)
         /\ \A i \in (Len(r.dir) + 1)..Len(d) : d[i] \notin Odd
<1>1. /\ d \in Directories /\ (d = r.dir \/ (r.recursive /\ Under(r.dir, d)))
      /\ \A i \in Len(r.dir)..Len(d) : DirectoryAt(SubSeq(d, 1, i))
      /\ \A i \in (Len(r.dir) + 1)..Len(d) : d[i] \notin Odd
  BY DEF DirectoriesOf, Directories
<1>2. d \in Seq(Names) /\ r.dir \in Seq(Names)
  BY <1>1, PathsAreSequences
<1>3. PICK c : c = r.dir
  OBVIOUS
<1>4. PICK l \in Nat, m \in Nat : l = Len(d) /\ m = Len(c)
  <2>1. Len(d) \in Nat /\ Len(c) \in Nat
    BY <1>2, <1>3
  <2> QED
    BY <2>1
<1>5. m <= l /\ SubSeq(d, 1, l) = d /\ SubSeq(d, 1, m) = c
  <2>1. SubSeq(d, 1, l) = d
    BY <1>2, <1>4
  <2>2. CASE d = c
    BY <1>4, <2>1, <2>2
  <2>3. CASE Under(c, d)
    BY <1>4, <2>1, <2>3 DEF Under
  <2> QED
    BY <1>1, <1>3, <2>2, <2>3
<1>6. m \in m..l /\ l \in m..l
  BY <1>4, <1>5
<1>7. DirectoryAt(SubSeq(d, 1, l)) /\ DirectoryAt(SubSeq(d, 1, m))
  BY <1>1, <1>3, <1>4, <1>6
<1>8. DirectoryAt(d) /\ DirectoryAt(r.dir)
  BY <1>3, <1>5, <1>7
<1> QED
  BY <1>1, <1>8 DEF Within

\* The directory of the rule is the first of them.
LEMMA FirstOfRule ==
  ASSUME NEW r, r.dir \in Directories, DirectoryAt(r.dir)
  PROVE  r.dir \in DirectoriesOf(r)
<1>1. PICK c : c = r.dir
  OBVIOUS
<1>2. c \in Seq(Names) /\ c \in Directories /\ DirectoryAt(c)
  BY <1>1, PathsAreSequences
<1>3. PICK m \in Nat : m = Len(c)
  BY <1>2
<1>4. SubSeq(c, 1, m) = c
  BY <1>2, <1>3
<1>5. (\A i \in m..m : i = m) /\ (\A i \in (m + 1)..m : FALSE)
  BY ONLY m \in Nat
<1>6. \A i \in Len(c)..Len(c) : DirectoryAt(SubSeq(c, 1, i))
  BY <1>2, <1>3, <1>4, <1>5
<1>7. \A i \in (Len(c) + 1)..Len(c) : c[i] \notin Odd
  BY <1>3, <1>5
<1> QED
  BY <1>1, <1>2, <1>6, <1>7 DEF DirectoriesOf, Directories

\* An entry of one of them that is a directory is the next.
LEMMA NextOfRule ==
  ASSUME NEW r, r.dir \in Directories, r.recursive, NEW e \in DirectoriesOf(r), NEW n, n \notin Odd,
         Append(e, n) \in Paths, DirectoryAt(Append(e, n))
  PROVE  Append(e, n) \in DirectoriesOf(r)
<1>1. PICK c, x : c = r.dir /\ x = Append(e, n)
  OBVIOUS
<1>2. /\ e \in Directories /\ Within(c, e) /\ x \in Paths /\ c \in Directories
      /\ \A i \in Len(c)..Len(e) : DirectoryAt(SubSeq(e, 1, i))
      /\ \A i \in (Len(c) + 1)..Len(e) : e[i] \notin Odd
  BY <1>1, InDirectoriesOf DEF DirectoriesOf
<1>3. e \in Seq(Names) /\ x \in Seq(Names) /\ c \in Seq(Names)
  BY <1>2, PathsAreSequences
<1>4. PICK m \in Nat, l \in Nat : m = Len(c) /\ l = Len(e) /\ Len(x) = l + 1
  <2>1. Len(c) \in Nat /\ Len(e) \in Nat /\ Len(x) = Len(e) + 1
    BY <1>1, <1>3
  <2> QED
    BY <2>1
<1>5. /\ \A i \in 1..l : x[i] = e[i]
      /\ x[l + 1] = n /\ SubSeq(x, 1, l + 1) = x
  BY <1>1, <1>3, <1>4
<1>6. SubSeq(x, 1, l) = e
  <2>1. Under(e, x)
    BY <1>1, <1>2, EntryPlace
  <2> QED
    BY <1>4, <2>1 DEF Under
<1>7. ASSUME NEW i \in m..l PROVE SubSeq(x, 1, i) = SubSeq(e, 1, i)
  <2>1. l \in 0..Len(x) /\ i \in 0..l
    BY <1>4
  <2>2. SubSeq(SubSeq(x, 1, l), 1, i) = SubSeq(x, 1, i)
    BY <1>3, <2>1, BeginningOfBeginning
  <2> QED
    BY <1>6, <2>2
<1>8. \A i \in m..(l + 1) : i = l + 1 \/ i \in m..l
  BY ONLY m \in Nat, l \in Nat
<1>9. \A i \in (m + 1)..(l + 1) : i = l + 1 \/ (i \in (m + 1)..l /\ i \in 1..l)
  BY ONLY m \in Nat, l \in Nat
<1>10. \A i \in m..(l + 1) : DirectoryAt(SubSeq(x, 1, i))
  <2>1. ASSUME NEW i \in m..l PROVE DirectoryAt(SubSeq(x, 1, i))
    BY <1>2, <1>4, <1>7
  <2>2. DirectoryAt(SubSeq(x, 1, l + 1))
    BY <1>1, <1>5
  <2> QED
    BY <1>8, <2>1, <2>2
<1>11. \A i \in (m + 1)..(l + 1) : x[i] \notin Odd
  BY <1>2, <1>4, <1>5, <1>9
<1>12. Under(c, x)
  BY <1>1, <1>2, EntryPlace, WithinWithin DEF Directories
<1> QED
  BY <1>1, <1>2, <1>4, <1>10, <1>11, <1>12 DEF DirectoriesOf

\* What is on the way to one of them is another.
LEMMA OnTheWayOfRule ==
  ASSUME NEW r, r.dir \in Directories, NEW x \in DirectoriesOf(r),
         NEW d \in Directories, Within(r.dir, d), Within(d, x)
  PROVE  d \in DirectoriesOf(r)
<1> SUFFICES ASSUME x # d PROVE d \in DirectoriesOf(r)
  OBVIOUS
<1>1. PICK c : c = r.dir
  OBVIOUS
<1>2. /\ x \in Directories /\ Within(c, d) /\ Under(d, x) /\ c \in Directories
      /\ \A i \in Len(c)..Len(x) : DirectoryAt(SubSeq(x, 1, i))
      /\ \A i \in (Len(c) + 1)..Len(x) : x[i] \notin Odd
      /\ x = c \/ r.recursive
  BY <1>1, InDirectoriesOf DEF DirectoriesOf, Within
<1>3. d \in Seq(Names) /\ x \in Seq(Names) /\ c \in Seq(Names)
  BY <1>2, PathsAreSequences
<1>4. PICK m \in Nat, l \in Nat, k \in Nat : m = Len(c) /\ l = Len(d) /\ k = Len(x)
  <2>1. Len(c) \in Nat /\ Len(d) \in Nat /\ Len(x) \in Nat
    BY <1>3
  <2> QED
    BY <2>1
<1>5. l < k /\ SubSeq(x, 1, l) = d
  BY <1>2, <1>4 DEF Under
<1>6. ASSUME NEW i \in m..l PROVE SubSeq(d, 1, i) = SubSeq(x, 1, i) /\ i \in m..k
  <2>1. l \in 0..Len(x) /\ i \in 0..l /\ i \in m..k
    BY <1>4, <1>5
  <2>2. SubSeq(SubSeq(x, 1, l), 1, i) = SubSeq(x, 1, i)
    BY <1>3, <2>1, BeginningOfBeginning
  <2> QED
    BY <1>5, <2>1, <2>2
<1>7. ASSUME NEW i \in (m + 1)..l PROVE d[i] = x[i] /\ i \in (m + 1)..k
  <2>1. i \in 1..l /\ i \in (m + 1)..k /\ l <= k
    BY <1>4, <1>5
  <2>2. SubSeq(x, 1, l)[i] = x[i]
    BY <1>3, <1>4, <2>1
  <2> QED
    BY <1>5, <2>1, <2>2
<1>8. \A i \in m..l : DirectoryAt(SubSeq(d, 1, i))
  BY <1>2, <1>4, <1>6
<1>9. \A i \in (m + 1)..l : d[i] \notin Odd
  BY <1>2, <1>4, <1>7
<1>10. d = c \/ (r.recursive /\ Under(c, d))
  <2>1. CASE x = c
    <3>1. d = c
      BY <1>2, <2>1, WithinWithin DEF Within
    <3> QED
      BY <3>1
  <2>2. CASE r.recursive
    BY <1>2, <2>2 DEF Within
  <2> QED
    BY <1>2, <2>1, <2>2
<1> QED
  BY <1>1, <1>2, <1>4, <1>8, <1>9, <1>10 DEF DirectoriesOf, Directories

\* From one of them to another under it, one name further.
LEMMA FurtherInRule ==
  ASSUME NEW r, r.dir \in Directories, NEW e \in DirectoriesOf(r), NEW x \in DirectoriesOf(r), Under(e, x)
  PROVE  /\ r.recursive
         /\ \E n \in Names \ Odd : /\ Append(e, n) \in Paths /\ Within(Append(e, n), x)
                                   /\ Append(e, n) \in DirectoriesOf(r)
<1>1. PICK c : c = r.dir
  OBVIOUS
<1>2. /\ e \in Directories /\ x \in Directories /\ Within(c, e) /\ c \in Directories
      /\ \A i \in (Len(c) + 1)..Len(x) : x[i] \notin Odd
      /\ x = c \/ r.recursive
  BY <1>1, InDirectoriesOf
<1>3. PICK n \in Names : /\ Append(e, n) \in Paths /\ Within(Append(e, n), x)
                         /\ Len(e) + 1 \in DOMAIN x /\ x[Len(e) + 1] = n
  BY <1>2, OneFurther
<1>4. n \notin Odd
  <2>1. e \in Seq(Names) /\ x \in Seq(Names) /\ c \in Seq(Names)
    BY <1>2, PathsAreSequences
  <2>2. Len(c) \in Nat /\ Len(e) \in Nat /\ Len(x) \in Nat /\ Len(e) + 1 \in 1..Len(x)
    BY <1>3, <2>1
  <2>3. Len(c) <= Len(e)
    BY <1>2, <2>2 DEF Within, Under
  <2>4. Len(e) + 1 \in (Len(c) + 1)..Len(x)
    BY <2>2, <2>3
  <2> QED
    BY <1>2, <1>3, <2>4
<1>5. r.recursive
  <2>1. x # c
    BY <1>2, WithinWithin
  <2> QED
    BY <1>2, <2>1
<1>6. PICK w : w = Append(e, n) /\ w \in Directories
  BY <1>3 DEF Directories
<1>7. Within(c, w)
  BY <1>2, <1>3, <1>6, EntryPlace, WithinWithin DEF Within
<1>8. w \in DirectoriesOf(r)
  BY <1>1, <1>3, <1>6, <1>7, OnTheWayOfRule
<1> QED
  BY <1>3, <1>4, <1>5, <1>6, <1>8

-----------------------------------------------------------------------------
(***************************************************************************)
(* Numbers of names, directories and entries.                              *)
(***************************************************************************)

\* As many names are listed as there are.
LEMMA SortedCount ==
  ASSUME NEW names, names \subseteq Names
  PROVE  IsFiniteSet(names) /\ Len(Sorted(names)) = Cardinality(names)
<1>1. PICK u : u = Sorted(names)
  OBVIOUS
<1>2. /\ u \in Seq(names)
      /\ \A n \in names : \E k \in 1..Len(u) : u[k] = n
      /\ \A j, k \in 1..Len(u) : u[j] = u[k] => j = k
  BY <1>1, SortedRight, SortedHas
<1>3. PICK l \in Nat : l = Len(u)
  BY <1>2
<1>4. u \in [1..l -> names] /\ DOMAIN u = 1..l
  BY <1>2, <1>3
<1>5. u \in Bijection(1..l, names)
  BY <1>2, <1>3, <1>4 DEF Bijection, Injection, Surjection, IsInjective
<1>6. IsFiniteSet(1..l) /\ Cardinality(1..l) = l
  <2>1. 1 \in Int /\ l \in Int /\ (1 > l => l = 0)
    OBVIOUS
  <2> QED
    BY <2>1, FS_Interval
<1>7. ExistsBijection(1..l, names)
  BY <1>5 DEF ExistsBijection
<1> QED
  BY <1>1, <1>3, <1>6, <1>7, FS_Bijection

\* There are only so many paths of at most Depth names.
LEMMA PathsFinite == IsFiniteSet(Paths) /\ IsFiniteSet(Directories)
<1>1. IsFiniteSet(Names)
  BY SortedCount
<1>2. IsFiniteSet(1..Depth) /\ IsFiniteSet((1..Depth) \X Names)
  <2>1. IsFiniteSet(1..Depth)
    <3>1. 1 \in Int /\ Depth \in Int
      BY NamesAssumption
    <3> QED
      BY <3>1, FS_Interval
  <2> QED
    BY <1>1, <2>1, FS_Product
<1> DEFINE Places(p) == {<<i, p[i]>> : i \in 1..Len(p)}
<1>3. ASSUME NEW p \in Paths
      PROVE  p \in Seq(Names) /\ Len(p) \in 1..Depth /\ Places(p) \in SUBSET ((1..Depth) \X Names)
  <2>1. PICK n \in 1..Depth : p \in [1..n -> Names]
    BY DEF Paths
  <2>2. p \in Seq(Names) /\ Len(p) = n
    BY <2>1, NamesAssumption
  <2>3. \A i \in 1..n : i \in 1..Depth /\ p[i] \in Names
    BY <2>1, NamesAssumption
  <2> QED
    BY <2>2, <2>3
<1>4. ASSUME NEW p \in Paths, NEW q \in Paths, Places(p) = Places(q)
      PROVE  p = q
  <2>1. \A i \in 1..Len(p) : i \in 1..Len(q) /\ p[i] = q[i]
    <3> SUFFICES ASSUME NEW i \in 1..Len(p) PROVE i \in 1..Len(q) /\ p[i] = q[i]
      OBVIOUS
    <3>1. <<i, p[i]>> \in Places(q)
      BY <1>4
    <3>2. PICK k \in 1..Len(q) : <<i, p[i]>> = <<k, q[k]>>
      BY <3>1
    <3> QED
      BY <3>2
  <2>2. \A i \in 1..Len(q) : i \in 1..Len(p)
    <3> SUFFICES ASSUME NEW i \in 1..Len(q) PROVE i \in 1..Len(p)
      OBVIOUS
    <3>1. <<i, q[i]>> \in Places(p)
      BY <1>4
    <3>2. PICK k \in 1..Len(p) : <<i, q[i]>> = <<k, p[k]>>
      BY <3>1
    <3> QED
      BY <3>2
  <2>3. p \in Seq(Names) /\ q \in Seq(Names) /\ Len(p) \in Nat \ {0} /\ Len(q) \in Nat \ {0}
    BY PathsAreSequences
  <2>4. Len(p) = Len(q)
    <3>1. Len(p) \in 1..Len(q) /\ Len(q) \in 1..Len(p)
      BY <2>1, <2>2, <2>3
    <3> QED
      BY <2>3, <3>1
  <2> QED
    BY <2>1, <2>3, <2>4, SameSequence
<1>5. PICK f : f = [p \in Paths |-> Places(p)]
  OBVIOUS
<1>6. f \in Injection(Paths, SUBSET ((1..Depth) \X Names))
  <2> HIDE DEF Places
  <2>1. f \in [Paths -> SUBSET ((1..Depth) \X Names)]
    BY <1>3, <1>5
  <2>2. IsInjective(f)
    BY <1>4, <1>5 DEF IsInjective
  <2> QED
    BY <2>1, <2>2 DEF Injection
<1>7. IsFiniteSet(SUBSET ((1..Depth) \X Names))
  BY <1>2, FS_SUBSET
<1>8. IsFiniteSet(Paths)
  BY <1>6, <1>7, FS_Injection
<1>9. IsFiniteSet(Paths \cup {Root})
  BY <1>8, FS_AddElement
<1> QED
  BY <1>8, <1>9 DEF Directories

\* So what the rules lead to can be counted.
LEMMA ToWalkFinite ==
  ASSUME TypeOK
  PROVE  IsFiniteSet(ToWalk) /\ IsFiniteSet(ToList)
<1>1. AllRules = 1..Len(source.rules) /\ Len(source.rules) \in Nat
  <2>1. source \in [explicit : Seq(Paths), rules : Seq(Rules)]
    BY SourcesAssumption DEF TypeOK, Directories, Rules
  <2>2. source.rules \in Seq(Rules)
    BY <2>1
  <2> QED
    BY <2>2 DEF AllRules
<1>2. IsFiniteSet(AllRules)
  <2>1. 1 \in Int /\ Len(source.rules) \in Int
    BY <1>1
  <2> QED
    BY <1>1, <2>1, FS_Interval
<1>3. IsFiniteSet(AllRules \X Directories) /\ IsFiniteSet(AllRules \X Paths)
  BY <1>2, PathsFinite, FS_Product
<1>4. ToWalk \in SUBSET (AllRules \X Directories)
  BY DEF ToWalk, DirectoriesOf, Directories
<1>5. ToList \in SUBSET (AllRules \X Paths)
  BY DEF ToList, EntriesOf
<1> QED
  BY <1>3, <1>4, <1>5, FS_Subset

\* The names in the directory that is open, and their types, as they are at its path.
LEMMA NamesHere ==
  ASSUME TypeOK, TreeSound, NEW e \in Directories, NEW inode,
         IF e = Root THEN inode = 0 ELSE fs[e] # None /\ fs[e].id = inode
  PROVE  /\ \A n : n \in NamesIn(inode) <=> n \in Names /\ Append(e, n) \in Paths /\ fs[Append(e, n)] # None
         /\ \A n \in NamesIn(inode) : Reported(inode, n) \in {"unknown", fs[Append(e, n)].type}
<1>1. CASE e = Root
  <2>1. inode = 0 /\ \A n : Append(e, n) = <<n>>
    BY <1>1 DEF Root
  <2>2. \A n : n \in NamesIn(inode) <=> n \in Names /\ <<n>> \in Paths /\ fs[<<n>>] # None
    BY <2>1 DEF NamesIn, Exists
  <2>3. \A n : Reported(inode, n) \in {"unknown", fs[<<n>>].type}
    BY <2>1 DEF Reported
  <2> QED
    BY <2>1, <2>2, <2>3
<1>2. CASE e # Root
  <2>1. e \in Paths /\ fs[e] # None /\ fs[e].id = inode
    BY <1>2 DEF Directories
  <2>2. inode # 0
    <3>1. made \in Nat /\ fs[e].id \in 1..(made - 1)
      BY <2>1 DEF TreeSound, IdsGiven
    <3> QED
      BY <2>1, <3>1
  <2>3. \A x \in Paths : Exists(x) /\ fs[x].id = inode => x = e
    BY <2>1 DEF TreeSound, NoHardLinks, Exists
  <2>4. Exists(e)
    BY <2>1 DEF Exists
  <2>5. (CHOOSE x \in Paths : Exists(x) /\ fs[x].id = inode) = e
    BY <2>1, <2>3, <2>4
  <2>6. \A n : n \in NamesIn(inode) <=> n \in Names /\ Exists(Append(e, n))
    BY <2>1, <2>2, <2>3, <2>4 DEF NamesIn
  <2>7. \A n : Reported(inode, n) \in {"unknown", fs[Append(e, n)].type}
    BY <2>2, <2>5 DEF Reported
  <2> QED
    BY <2>6, <2>7 DEF Exists
<1> QED
  BY <1>1, <1>2

-----------------------------------------------------------------------------
(***************************************************************************)
(* The invariant of a walk that nobody disturbs.  What it still comes to   *)
(* lies in separate parts of the tree, each under a directory that waits,  *)
(* was found or is listed; all else of the rules so far was counted once.  *)
(***************************************************************************)

\* The rule that is walked and its directories.
Here == source.rules[rule]
Dirs == DirectoriesOf(Here)

\* The walk still comes to the directory d.
Waits(d) ==
  \/ \E i \in 1..Len(pending) : Within(pending[i], d)
  \/ phase = "read" /\ Under(dir.path, d)
  \/ phase = "entries" /\ \E i \in 1..Len(children) : Within(children[i], d)
  \/ phase = "entries" /\ \E i \in 1..Len(listing) : Within(Append(dir.path, listing[i].name), d)

\* What the walk has done so far: the directories it opened, the entries it listed.
\* It counted each once, as often as a rule leads to it.
WalkedDirs == {v \in ToWalk : v[1] < rule \/ (v[1] = rule /\ ~Waits(v[2]))}
ListedEntries ==
  {v \in ToList : \/ v[1] < rule
                  \/ /\ v[1] = rule /\ ~Waits(Front(v[2]))
                     /\ ~(phase = "read" /\ Front(v[2]) = dir.path)}

Counted ==
  /\ seenDirs = Cardinality(WalkedDirs)
  /\ seenEntries = Cardinality(ListedEntries) /\ seenEntries <= MaxEntries

\* What waits, is open, was found or is listed belongs to the rule; only its own
\* directory may turn out to be missing.
PendingOK == \A i \in 1..Len(pending) : pending[i] = Here.dir \/ pending[i] \in Dirs
DirOK == phase \in {"read", "entries"} => dir.path \in Dirs
ChildrenOK ==
  phase = "entries" =>
    \A i \in 1..Len(children) :
      children[i] \in Dirs /\ \E n \in Names : children[i] = Append(dir.path, n) /\ Append(dir.path, n) \in Paths
ListedRight(entry, e) ==
  /\ entry.name \notin Odd /\ Append(e, entry.name) \in Paths
  /\ fs[Append(e, entry.name)] # None
  /\ entry.type \in {"unknown", fs[Append(e, entry.name)].type}
ListingOK == phase = "entries" => \A i \in 1..Len(listing) : ListedRight(listing[i], dir.path)

\* No two of these places lie one within the other: nothing is counted twice.
PendingApart == \A i, j \in 1..Len(pending) : Within(pending[i], pending[j]) => i = j
DirApart ==
  phase \in {"read", "entries"} =>
    \A i \in 1..Len(pending) : ~Within(dir.path, pending[i]) /\ ~Within(pending[i], dir.path)
ChildrenApart ==
  phase = "entries" => \A i, j \in 1..Len(children) : children[i] = children[j] => i = j
ListingApart ==
  phase = "entries" =>
    /\ \A i, j \in 1..Len(listing) : listing[i].name = listing[j].name => i = j
    /\ \A i \in 1..Len(children), j \in 1..Len(listing) : children[i] # Append(dir.path, listing[j].name)

\* What was found is configured, what was opened is there.
FilesSound == DOMAIN files \subseteq Discovered
ExplicitSound ==
  /\ DOMAIN explicit \subseteq Range(source.explicit)
  /\ \A i \in 1..Len(todo) : todo[i] \in Range(source.explicit)
RulesOpened ==
  \A i \in 1..rule : DirectoryAt(source.rules[i].dir) \/ (i = rule /\ phase = "walk" /\ pending # <<>>)

InPlace == PendingOK /\ DirOK /\ ChildrenOK /\ ListingOK
Separate == PendingApart /\ DirApart /\ ChildrenApart /\ ListingApart
Quiet == InPlace /\ Separate /\ Counted /\ FilesSound /\ ExplicitSound /\ RulesOpened
QInv == touched = {} => (phase # "done" => Quiet) /\ QuietTreeExact

-----------------------------------------------------------------------------
\* A tree in which the same paths lead to the same types has the same directories,
\* entries and files.
LEMMA SameTree ==
  ASSUME source' = source,
         \A p \in Paths : (fs'[p] # None <=> fs[p] # None) /\ (fs[p] # None => fs'[p].type = fs[p].type)
  PROVE  /\ \A p : DirectoryAt(p)' <=> DirectoryAt(p)
         /\ \A r : DirectoriesOf(r)' = DirectoriesOf(r)
         /\ ToWalk' = ToWalk /\ ToList' = ToList
         /\ Discovered' = Discovered /\ Complete' = Complete
         /\ AllThere' <=> AllThere
         /\ WithinLimits' <=> WithinLimits
<1>1. \A p : Exists(p)' <=> Exists(p)
  BY DEF Exists
<1>2. \A p : DirectoryAt(p)' <=> DirectoryAt(p)
  BY <1>1 DEF DirectoryAt, Exists
<1>3. \A r : DirectoriesOf(r)' = DirectoriesOf(r)
  BY <1>2 DEF DirectoriesOf
<1>4. \A r : EntriesOf(r)' = EntriesOf(r)
  BY <1>1, <1>3 DEF EntriesOf
<1>5. \A r : FilesOf(r)' = FilesOf(r)
  BY <1>4 DEF FilesOf, EntriesOf, Exists
<1>6. AllRules' = AllRules
  BY DEF AllRules
<1>7. ToWalk' = ToWalk
  BY <1>3, <1>6 DEF ToWalk
<1>8. ToList' = ToList
  BY <1>4, <1>6 DEF ToList
<1>9. Discovered' = Discovered
  BY <1>5, <1>6 DEF Discovered
<1>10. Complete' = Complete
  BY <1>9 DEF Complete
<1>11. \A p : RegularAt(p)' # {} <=> RegularAt(p) # {}
  BY <1>1 DEF RegularAt, Exists
<1>12. AllThere' <=> AllThere
  BY <1>2, <1>6, <1>11 DEF AllThere
<1>13. WithinLimits' <=> WithinLimits
  BY <1>7, <1>8, <1>10 DEF WithinLimits
<1> QED
  BY <1>2, <1>3, <1>7, <1>8, <1>9, <1>10, <1>12, <1>13

\* A step of the walk leaves the tree as it is.
LEMMA SameWorld ==
  ASSUME UNCHANGED world
  PROVE  /\ source' = source /\ fs' = fs /\ touched' = touched
         /\ \A p : DirectoryAt(p)' <=> DirectoryAt(p)
         /\ \A r : DirectoriesOf(r)' = DirectoriesOf(r)
         /\ ToWalk' = ToWalk /\ ToList' = ToList
         /\ Discovered' = Discovered /\ Complete' = Complete
         /\ AllThere' <=> AllThere
         /\ WithinLimits' <=> WithinLimits
<1>1. source' = source /\ fs' = fs /\ touched' = touched
  BY DEF world
<1> QED
  BY <1>1, SameTree

\* Counting what a set with a finite number of elements gets.
LEMMA MoreOf ==
  ASSUME NEW S, IsFiniteSet(S), NEW A \in SUBSET S, NEW N \in SUBSET S, A \cap N = {}
  PROVE  /\ Cardinality(A \cup N) = Cardinality(A) + Cardinality(N)
         /\ Cardinality(A) + Cardinality(N) <= Cardinality(S)
         /\ Cardinality(A) \in Nat /\ Cardinality(N) \in Nat /\ Cardinality(S) \in Nat
<1>1. IsFiniteSet(A) /\ IsFiniteSet(N)
  BY FS_Subset
<1>2. Cardinality(A) \in Nat /\ Cardinality(N) \in Nat /\ Cardinality(S) \in Nat
  BY <1>1, FS_CardinalityType
<1>3. Cardinality(A \cup N) = Cardinality(A) + Cardinality(N) - Cardinality(A \cap N)
  BY <1>1, FS_Union
<1>4. Cardinality(A \cap N) = 0
  BY FS_EmptySet
<1>5. Cardinality(A \cup N) <= Cardinality(S)
  <2>1. A \cup N \in SUBSET S
    OBVIOUS
  <2> QED
    BY <2>1, FS_Subset
<1> QED
  BY <1>2, <1>3, <1>4, <1>5

\* The same for one element.
LEMMA OneMoreOf ==
  ASSUME NEW S, IsFiniteSet(S), NEW A \in SUBSET S, NEW x \in S, x \notin A
  PROVE  /\ Cardinality(A \cup {x}) = Cardinality(A) + 1
         /\ Cardinality(A) + 1 <= Cardinality(S)
         /\ Cardinality(A) \in Nat /\ Cardinality(S) \in Nat
<1>1. {x} \in SUBSET S /\ A \cap {x} = {} /\ Cardinality({x}) = 1
  BY FS_Singleton
<1>2. PICK N : N = {x}
  OBVIOUS
<1> QED
  BY <1>1, <1>2, MoreOf

\* A walk that is given up with reason is right to fail.
LEMMA FailsRightly ==
  ASSUME UNCHANGED world, NEW code, Fail(code), ~(AllThere /\ WithinLimits)
  PROVE  QInv'
<1>1. phase' = "done" /\ answer' = [error |-> code]
  BY DEF Fail, Return
<1>2. "files" \notin DOMAIN answer'
  BY <1>1
<1>3. ~(AllThere' /\ WithinLimits')
  BY SameWorld
<1> QED
  BY <1>1, <1>2, <1>3 DEF QInv, QuietTreeExact, Succeeded

\* The rule that is walked.
LEMMA HereRight ==
  ASSUME TypeOK
  PROVE  /\ Len(source.rules) \in Nat /\ AllRules = 1..Len(source.rules) /\ rule \in 0..Len(source.rules)
         /\ \A i \in AllRules : source.rules[i] \in Rules /\ source.rules[i].dir \in Directories
<1>1. source \in [explicit : Seq(Paths), rules : Seq(Rules)]
  BY SourcesAssumption DEF TypeOK, Directories, Rules
<1>2. source.rules \in Seq(Rules)
  BY <1>1
<1>3. \A i \in 1..Len(source.rules) : source.rules[i] \in Rules
  BY <1>2
<1>4. AllRules = 1..Len(source.rules)
  BY <1>2 DEF AllRules
<1> QED
  BY <1>2, <1>3, <1>4 DEF Rules, TypeOK

\* The directories of the rule stay the same with the world.
LEMMA HereSame ==
  ASSUME UNCHANGED world, rule' = rule
  PROVE  Here' = Here /\ Dirs' = Dirs
<1>1. Here' = Here
  BY DEF Here, world
<1>2. \A p : DirectoryAt(p)' <=> DirectoryAt(p)
  BY SameWorld
<1>3. PICK r : r = Here
  OBVIOUS
<1>4. DirectoriesOf(r)' = DirectoriesOf(r)
  BY SameWorld
<1>5. Dirs' = Dirs
  BY <1>1, <1>2, <1>3, <1>4 DEF Dirs, DirectoriesOf
<1> QED
  BY <1>1, <1>5

\* The places the rules are to come to.
LEMMA InToWalk ==
  /\ \A v \in ToWalk : /\ v[1] \in AllRules /\ v[2] \in DirectoriesOf(source.rules[v[1]])
                       /\ v = <<v[1], v[2]>> /\ (v[1] = rule => v[2] \in Dirs)
  /\ \A d \in Dirs : rule \in AllRules => <<rule, d>> \in ToWalk
  /\ \A v \in ToList : /\ v[1] \in AllRules /\ v[2] \in EntriesOf(source.rules[v[1]])
                       /\ v = <<v[1], v[2]>>
                       /\ v[2] \in Paths /\ fs[v[2]] # None
                       /\ Front(v[2]) \in DirectoriesOf(source.rules[v[1]])
                       /\ (v[1] = rule => Front(v[2]) \in Dirs)
  /\ \A p \in Paths : rule \in AllRules /\ fs[p] # None /\ Front(p) \in Dirs => <<rule, p>> \in ToList
<1>1. ASSUME NEW v \in ToWalk
      PROVE  /\ v[1] \in AllRules /\ v[2] \in DirectoriesOf(source.rules[v[1]])
             /\ v = <<v[1], v[2]>> /\ (v[1] = rule => v[2] \in Dirs)
  <2>1. PICK i \in AllRules : v \in {i} \X DirectoriesOf(source.rules[i])
    BY DEF ToWalk
  <2>2. v[1] = i /\ v[2] \in DirectoriesOf(source.rules[i]) /\ v = <<v[1], v[2]>>
    BY <2>1
  <2> QED
    BY <2>2 DEF Dirs, Here
<1>2. ASSUME NEW v \in ToList
      PROVE  /\ v[1] \in AllRules /\ v[2] \in EntriesOf(source.rules[v[1]])
             /\ v = <<v[1], v[2]>>
             /\ v[2] \in Paths /\ fs[v[2]] # None
             /\ Front(v[2]) \in DirectoriesOf(source.rules[v[1]])
             /\ (v[1] = rule => Front(v[2]) \in Dirs)
  <2>1. PICK i \in AllRules : v \in {i} \X EntriesOf(source.rules[i])
    BY DEF ToList
  <2>2. v[1] = i /\ v[2] \in EntriesOf(source.rules[i]) /\ v = <<v[1], v[2]>>
    BY <2>1
  <2> QED
    BY <2>2 DEF Dirs, Here, EntriesOf, Exists
<1>3. ASSUME NEW d \in Dirs, rule \in AllRules PROVE <<rule, d>> \in ToWalk
  BY <1>3 DEF ToWalk, Dirs, Here
<1>4. ASSUME NEW p \in Paths, rule \in AllRules, fs[p] # None, Front(p) \in Dirs PROVE <<rule, p>> \in ToList
  BY <1>4 DEF ToList, EntriesOf, Dirs, Here, Exists
<1> QED
  BY <1>1, <1>2, <1>3, <1>4

\* What is still to come stays so: nothing is counted.
LEMMA CountedStays ==
  ASSUME UNCHANGED <<world, rule, seenDirs, seenEntries>>, Counted,
         \A d \in Dirs : Waits(d)' <=> Waits(d),
         \A d \in Dirs : (phase' = "read" /\ d = dir'.path) <=> (phase = "read" /\ d = dir.path)
  PROVE  Counted'
<1>1. ToWalk' = ToWalk /\ ToList' = ToList /\ rule' = rule
  BY SameWorld
<1>2. WalkedDirs' = WalkedDirs
  <2>1. ASSUME NEW v \in ToWalk
        PROVE  v[1] < rule \/ (v[1] = rule /\ ~Waits(v[2])) <=> v[1] < rule \/ (v[1] = rule /\ ~Waits(v[2])')
    <3>1. v[1] = rule => v[2] \in Dirs
      BY InToWalk
    <3> QED
      BY <3>1
  <2> QED
    BY <1>1, <2>1 DEF WalkedDirs
<1>3. ListedEntries' = ListedEntries
  <2>1. ASSUME NEW v \in ToList, v[1] = rule
        PROVE  /\ Waits(Front(v[2]))' <=> Waits(Front(v[2]))
               /\ (phase' = "read" /\ Front(v[2]) = dir'.path) <=> (phase = "read" /\ Front(v[2]) = dir.path)
    <3>1. PICK d : d = Front(v[2]) /\ d \in Dirs
      BY <2>1, InToWalk
    <3>2. Waits(d)' <=> Waits(d)
      BY <3>1
    <3>3. Waits(Front(v[2]))' <=> Waits(d)'
      BY <3>1 DEF Waits
    <3> QED
      BY <3>1, <3>2, <3>3
  <2> QED
    BY <1>1, <2>1 DEF ListedEntries
<1> QED
  BY <1>2, <1>3 DEF Counted

\* What a rule that is left leaves to come.
LEMMA NothingWaits ==
  ASSUME pending = <<>>, phase \in {"explicit", "walk"}
  PROVE  \A d : ~Waits(d)
<1>1. Len(pending) = 0
  OBVIOUS
<1> QED
  BY <1>1 DEF Waits

\* An explicit file is opened, if it can be.
LEMMA QuietOpenExplicit ==
  ASSUME CInv, Quiet, UNCHANGED world, OpenExplicit
  PROVE  IF phase' = "done" THEN QInv' ELSE Quiet'
<1>1. phase = "explicit" /\ todo # <<>>
  BY DEF OpenExplicit
<1>2. todo \in Seq(Paths)
  BY DEF CInv, DInv, TypeOK
<1>3. PICK h : h = Head(todo)
  OBVIOUS
<1>4. h = todo[1] /\ 1 \in 1..Len(todo) /\ h \in Range(source.explicit)
  BY <1>1, <1>2, <1>3 DEF Quiet, ExplicitSound
<1>5. CASE RegularAt(h) = {}
  <2>1. Fail("ExplicitFileUnavailable")
    BY <1>3, <1>5 DEF OpenExplicit
  <2>2. ~AllThere
    BY <1>4, <1>5 DEF AllThere, Range
  <2>3. phase' = "done"
    BY <2>1 DEF Fail, Return
  <2> QED
    BY <2>1, <2>2, <2>3, FailsRightly
<1>6. CASE RegularAt(h) # {}
  <2>1. /\ explicit' = With(explicit, h, FileAt(h)) /\ todo' = Tail(todo)
        /\ UNCHANGED <<phase, rule, pending, dir, listing, children, files, seenDirs, seenEntries>>
    BY <1>3, <1>6 DEF OpenExplicit, counts
  <2>2. Here' = Here /\ Dirs' = Dirs /\ \A p : DirectoryAt(p)' <=> DirectoryAt(p)
    BY <2>1, HereSame, SameWorld
  <2>3. source' = source /\ fs' = fs /\ Discovered' = Discovered
    BY SameWorld
  <2>4. DOMAIN explicit' = DOMAIN explicit \cup {h}
    BY <2>1, MapsOfFiles
  <2>5. \A i \in 1..Len(Tail(todo)) : Tail(todo)[i] = todo[i + 1] /\ i + 1 \in 1..Len(todo)
    BY <1>1, <1>2
  <2>6. ExplicitSound'
    BY <1>4, <2>1, <2>3, <2>4, <2>5 DEF Quiet, ExplicitSound
  <2>7. Counted'
    BY <2>1, CountedStays DEF Quiet, Waits
  <2>8. InPlace'
    BY <2>1, <2>2, <2>3 DEF Quiet, InPlace, PendingOK, DirOK, ChildrenOK, ListingOK, ListedRight
  <2>9. Separate'
    BY <2>1 DEF Quiet, Separate, PendingApart, DirApart, ChildrenApart, ListingApart
  <2>10. FilesSound' /\ RulesOpened'
    BY <2>1, <2>2, <2>3 DEF Quiet, FilesSound, RulesOpened
  <2>11. phase' # "done"
    BY <1>1, <2>1
  <2> QED
    BY <2>6, <2>7, <2>8, <2>9, <2>10, <2>11 DEF Quiet
<1> QED
  BY <1>5, <1>6

\* The next rule: everything it leads to is still to come.
LEMMA QuietNextRule ==
  ASSUME CInv, Quiet, UNCHANGED world, NextRule
  PROVE  Quiet'
<1>1. /\ phase \in {"explicit", "walk"} /\ pending = <<>> /\ rule < Len(source.rules)
      /\ phase' = "walk" /\ rule' = rule + 1 /\ pending' = <<source.rules[rule + 1].dir>>
      /\ UNCHANGED <<todo, explicit, dir, listing, children, files, seenDirs, seenEntries>>
  BY DEF NextRule, counts
<1>2. source' = source /\ fs' = fs /\ Discovered' = Discovered /\ ToWalk' = ToWalk /\ ToList' = ToList
  BY SameWorld
<1>3. \A p : DirectoryAt(p)' <=> DirectoryAt(p)
  BY SameWorld
<1>4. /\ Len(source.rules) \in Nat /\ AllRules = 1..Len(source.rules) /\ rule \in 0..Len(source.rules)
      /\ \A i \in AllRules : source.rules[i].dir \in Directories
  BY HereRight DEF CInv, DInv
<1>5. rule + 1 \in AllRules
  BY <1>1, <1>4
<1>6. PICK r, d : r = source.rules[rule + 1] /\ d = r.dir /\ d \in Directories
  BY <1>4, <1>5
<1>7. pending' = <<d>> /\ Len(pending') = 1 /\ pending'[1] = d /\ Here' = r
  BY <1>1, <1>2, <1>6 DEF Here
<1>8. \A i \in 1..Len(pending') : pending'[i] = d /\ i = 1
  BY <1>7
<1>9. InPlace'
  BY <1>1, <1>6, <1>7, <1>8 DEF InPlace, PendingOK, DirOK, ChildrenOK, ListingOK
<1>10. Separate'
  BY <1>1, <1>8 DEF Separate, PendingApart, DirApart, ChildrenApart, ListingApart
<1>11. \A x : ~Waits(x)
  BY <1>1, NothingWaits
<1>12. \A x \in DirectoriesOf(r) : Waits(x)'
  <2>1. \A x \in DirectoriesOf(r) : Within(d, x)
    BY <1>6, InDirectoriesOf
  <2>2. 1 \in 1..Len(pending')
    BY <1>7
  <2> QED
    BY <1>7, <2>1, <2>2 DEF Waits
<1>13. \A i \in AllRules : (i < rule \/ i = rule <=> i < rule + 1) /\ (i = rule + 1 => ~(i < rule + 1)) /\ i \in Nat
  BY <1>4
<1>14. WalkedDirs' = WalkedDirs
  <2>1. ASSUME NEW v \in ToWalk
        PROVE  (v[1] < rule \/ (v[1] = rule /\ ~Waits(v[2]))) <=> (v[1] < rule + 1 \/ (v[1] = rule + 1 /\ ~Waits(v[2])'))
    <3>1. v[1] \in AllRules /\ (v[1] = rule + 1 => v[2] \in DirectoriesOf(r))
      BY <1>6, InToWalk
    <3> QED
      BY <1>11, <1>12, <1>13, <3>1
  <2> QED
    BY <1>1, <1>2, <2>1 DEF WalkedDirs
<1>15. ListedEntries' = ListedEntries
  <2>1. ASSUME NEW v \in ToList
        PROVE  /\ v[1] < rule \/ v[1] = rule <=> v[1] < rule + 1
               /\ ~(v[1] = rule + 1 /\ ~Waits(Front(v[2]))')
    <3>1. v[1] \in AllRules /\ (v[1] = rule + 1 => Front(v[2]) \in DirectoriesOf(r))
      BY <1>6, InToWalk
    <3>2. PICK f : f = Front(v[2])
      OBVIOUS
    <3>3. v[1] = rule + 1 => Waits(f)'
      BY <1>12, <3>1, <3>2
    <3>4. Waits(f)' <=> Waits(Front(v[2]))'
      BY <3>2 DEF Waits
    <3> QED
      BY <1>13, <3>1, <3>3, <3>4
  <2>2. \A v \in ToList : v \in ListedEntries <=> v[1] < rule \/ v[1] = rule
    BY <1>1, <1>11 DEF ListedEntries
  <2>3. \A v \in ToList : v \in ListedEntries' <=> v[1] < rule + 1
    BY <1>1, <1>2, <2>1 DEF ListedEntries
  <2>4. ListedEntries \subseteq ToList /\ ListedEntries' \subseteq ToList
    BY <1>2 DEF ListedEntries
  <2> QED
    BY <2>1, <2>2, <2>3, <2>4
<1>16. Counted'
  BY <1>1, <1>14, <1>15 DEF Quiet, Counted
<1>17. RulesOpened'
  <2>1. \A i \in 1..(rule + 1) : i = rule + 1 \/ i \in 1..rule
    BY <1>4
  <2>2. \A i \in 1..rule : DirectoryAt(source.rules[i].dir)
    BY <1>1 DEF Quiet, RulesOpened
  <2>3. pending' # <<>>
    BY <1>7
  <2> QED
    BY <1>1, <1>2, <1>3, <2>1, <2>2, <2>3 DEF RulesOpened
<1>18. FilesSound' /\ ExplicitSound'
  BY <1>1, <1>2 DEF Quiet, FilesSound, ExplicitSound
<1> QED
  BY <1>9, <1>10, <1>16, <1>17, <1>18 DEF Quiet

\* The rule that is walked while directories wait, or one is read.
LEMMA RuleHere ==
  ASSUME CInv, pending # <<>> \/ phase \in {"read", "entries"}
  PROVE  rule \in AllRules /\ Here = source.rules[rule] /\ Here.dir \in Directories /\ rule \in Nat
<1>1. /\ Len(source.rules) \in Nat /\ AllRules = 1..Len(source.rules)
      /\ \A i \in AllRules : source.rules[i].dir \in Directories
  BY HereRight DEF CInv, DInv
<1>2. rule \in AllRules
  <2>1. CASE pending # <<>>
    <3>1. pending \in Seq(Directories)
      BY DEF CInv, DInv, TypeOK, Directories
    <3>2. 1 \in 1..Len(pending)
      BY <2>1, <3>1
    <3>3. Walked(pending[1])
      BY <3>2 DEF CInv, DInv, PendingWalked
    <3> QED
      BY <1>1, <3>3 DEF Walked
  <2>2. CASE phase \in {"read", "entries"}
    BY <1>1, <2>2 DEF CInv, DInv, DirWalked, Walked
  <2> QED
    BY <2>1, <2>2
<1> QED
  BY <1>1, <1>2 DEF Here

\* One more directory is walked, and its entries are still to be listed.
LEMMA CountedOneMore ==
  ASSUME UNCHANGED <<world, rule, seenEntries>>, Counted, rule \in AllRules, rule \in Nat, TypeOK,
         NEW h \in Dirs, Waits(h), seenDirs' = seenDirs + 1,
         phase # "read", phase' = "read", dir'.path = h,
         \A d \in Dirs : Waits(d)' <=> Waits(d) /\ d # h
  PROVE  Counted'
<1>1. ToWalk' = ToWalk /\ ToList' = ToList /\ rule' = rule
  BY SameWorld
<1>2. <<rule, h>> \in ToWalk /\ <<rule, h>> \notin WalkedDirs
  BY InToWalk DEF WalkedDirs
<1>3. WalkedDirs' = WalkedDirs \cup {<<rule, h>>}
  <2>1. ASSUME NEW v \in ToWalk
        PROVE  v[1] < rule \/ (v[1] = rule /\ ~Waits(v[2])') <=>
                 (v[1] < rule \/ (v[1] = rule /\ ~Waits(v[2]))) \/ v = <<rule, h>>
    <3>1. v = <<v[1], v[2]>> /\ (v[1] = rule => v[2] \in Dirs)
      BY InToWalk
    <3>2. v = <<rule, h>> <=> v[1] = rule /\ v[2] = h
      BY <3>1
    <3> QED
      BY <3>1, <3>2
  <2>2. \A v \in ToWalk : v \in WalkedDirs' <=> v \in WalkedDirs \/ v = <<rule, h>>
    BY <1>1, <2>1 DEF WalkedDirs
  <2>3. WalkedDirs' \subseteq ToWalk /\ WalkedDirs \subseteq ToWalk
    BY <1>1 DEF WalkedDirs
  <2> QED
    BY <1>2, <2>2, <2>3
<1>4. ListedEntries' = ListedEntries
  <2>1. ASSUME NEW v \in ToList, v[1] = rule
        PROVE  ~Waits(Front(v[2]))' /\ ~(phase' = "read" /\ Front(v[2]) = dir'.path)
                 <=> ~Waits(Front(v[2])) /\ ~(phase = "read" /\ Front(v[2]) = dir.path)
    <3>1. PICK d : d = Front(v[2]) /\ d \in Dirs
      BY <2>1, InToWalk
    <3>2. Waits(d)' <=> Waits(d) /\ d # h
      BY <3>1
    <3>3. Waits(Front(v[2]))' <=> Waits(d)'
      BY <3>1 DEF Waits
    <3> QED
      BY <3>1, <3>2, <3>3
  <2> QED
    BY <1>1, <2>1 DEF ListedEntries
<1>5. Cardinality(WalkedDirs \cup {<<rule, h>>}) = Cardinality(WalkedDirs) + 1
  <2>1. WalkedDirs \in SUBSET ToWalk /\ IsFiniteSet(ToWalk)
    BY ToWalkFinite DEF WalkedDirs
  <2> QED
    BY <1>2, <2>1, OneMoreOf
<1> QED
  BY <1>3, <1>4, <1>5 DEF Counted

\* A directory is opened, if it can be: it is one of the rule's.
LEMMA QuietOpenDirectory ==
  ASSUME CInv, Quiet, UNCHANGED world, OpenDirectory
  PROVE  IF phase' = "done" THEN QInv' ELSE Quiet'
<1>1. phase = "walk" /\ pending # <<>>
  BY DEF OpenDirectory
<1>2. pending \in Seq(Directories) /\ TypeOK
  BY DEF CInv, DInv, TypeOK, Directories
<1>3. PICK h : h = Head(pending)
  OBVIOUS
<1>4. h = pending[1] /\ 1 \in 1..Len(pending) /\ h \in Directories /\ (h = Here.dir \/ h \in Dirs)
  <2>1. h = pending[1] /\ 1 \in 1..Len(pending) /\ h \in Directories
    BY <1>1, <1>2, <1>3
  <2> QED
    BY <2>1 DEF Quiet, InPlace, PendingOK
<1>5. rule \in AllRules /\ Here = source.rules[rule] /\ Here.dir \in Directories /\ rule \in Nat
  BY <1>1, RuleHere
<1>6. ASSUME NEW code, Fail(code), ~(AllThere /\ WithinLimits)
      PROVE  IF phase' = "done" THEN QInv' ELSE Quiet'
  <2>1. phase' = "done"
    BY <1>6 DEF Fail, Return
  <2> QED
    BY <1>6, <2>1, FailsRightly
<1>7. CASE ~DirectoryAt(h)
  <2>1. h = Here.dir
    BY <1>4, <1>5, <1>7, InDirectoriesOf DEF Dirs
  <2>2. ~AllThere
    BY <1>5, <1>7, <2>1 DEF AllThere
  <2>3. \E code : Fail(code)
    BY <1>3, <1>7 DEF OpenDirectory
  <2> QED
    BY <1>6, <2>2, <2>3
<1>8. CASE DirectoryAt(h)
  <2>1. h \in Dirs
    BY <1>4, <1>5, <1>8, FirstOfRule DEF Dirs
  <2>2. Waits(h)
    BY <1>4 DEF Waits, Within
  <2>3. <<rule, h>> \in ToWalk /\ <<rule, h>> \notin WalkedDirs
    BY <1>5, <2>1, <2>2, InToWalk DEF WalkedDirs
  <2>4. CASE seenDirs >= MaxDirectories
    <3>1. WalkedDirs \in SUBSET ToWalk /\ IsFiniteSet(ToWalk)
      BY <1>2, ToWalkFinite DEF WalkedDirs
    <3>2. Cardinality(WalkedDirs) + 1 <= Cardinality(ToWalk) /\ Cardinality(WalkedDirs) \in Nat /\ Cardinality(ToWalk) \in Nat
      BY <2>3, <3>1, OneMoreOf
    <3>3. seenDirs = Cardinality(WalkedDirs) /\ MaxDirectories \in Nat
      BY LimitsAssumption DEF Quiet, Counted
    <3>4. ~(Cardinality(ToWalk) <= MaxDirectories)
      BY <2>4, <3>2, <3>3
    <3>5. Fail("TooManyDirectories")
      BY <2>4 DEF OpenDirectory
    <3> QED
      BY <1>6, <3>4, <3>5 DEF WithinLimits
  <2>5. CASE ~(seenDirs >= MaxDirectories)
    <3>1. /\ phase' = "read" /\ seenDirs' = seenDirs + 1 /\ dir'.path = h /\ pending' = Tail(pending)
          /\ UNCHANGED <<todo, explicit, rule, listing, children, files, seenEntries>>
      BY <1>3, <1>8, <2>5 DEF OpenDirectory
    <3>2. Here' = Here /\ Dirs' = Dirs
      BY <3>1, HereSame
    <3>3. \A i \in 1..Len(pending') : i + 1 \in 1..Len(pending) /\ pending'[i] = pending[i + 1] /\ i + 1 # 1 /\ i \in Int
      BY <1>1, <1>2, <3>1
    <3>4. \A i \in 1..Len(pending) : i = 1 \/ (i - 1 \in 1..Len(pending') /\ pending'[i - 1] = pending[i])
      BY <1>1, <1>2, <3>1
    <3>5. ASSUME NEW d \in Dirs PROVE Waits(d)' <=> Waits(d) /\ d # h
      <4>1. Waits(d) <=> \E i \in 1..Len(pending) : Within(pending[i], d)
        BY <1>1 DEF Waits
      <4>2. Waits(d)' <=> (\E i \in 1..Len(pending') : Within(pending'[i], d)) \/ Under(h, d)
        BY <3>1 DEF Waits, Within, Under
      <4>3. \A i \in 1..Len(pending) : Within(pending[i], h) => i = 1
        BY <1>4 DEF Quiet, Separate, PendingApart
      <4>4. ~Under(h, h)
        BY <1>4, WithinWithin
      <4>5. Within(h, d) <=> d = h \/ Under(h, d)
        BY DEF Within
      <4>6. ASSUME Waits(d), d # h PROVE Waits(d)'
        <5>1. PICK i \in 1..Len(pending) : Within(pending[i], d)
          BY <4>1, <4>6
        <5>2. CASE i = 1
          BY <1>4, <4>2, <4>5, <4>6, <5>1, <5>2
        <5>3. CASE i # 1
          BY <3>4, <4>2, <5>1, <5>3
        <5> QED
          BY <5>2, <5>3
      <4>7. ASSUME Waits(d)' PROVE Waits(d) /\ d # h
        <5>1. CASE Under(h, d)
          BY <1>4, <4>1, <4>4, <4>5, <5>1
        <5>2. CASE \E i \in 1..Len(pending') : Within(pending'[i], d)
          <6>1. PICK i \in 1..Len(pending') : Within(pending'[i], d)
            BY <5>2
          <6>2. i + 1 \in 1..Len(pending) /\ Within(pending[i + 1], d) /\ i + 1 # 1
            BY <3>3, <6>1
          <6> QED
            BY <4>1, <4>3, <6>2
        <5> QED
          BY <4>2, <4>7, <5>1, <5>2
      <4> QED
        BY <4>6, <4>7
    <3>6. Counted'
      <4>1. Counted /\ phase # "read"
        BY <1>1 DEF Quiet
      <4> QED
        BY <1>2, <1>5, <2>1, <2>2, <3>1, <3>5, <4>1, CountedOneMore
    <3>7. InPlace'
      <4>1. PendingOK'
        BY <3>2, <3>3 DEF Quiet, InPlace, PendingOK
      <4>2. DirOK'
        BY <2>1, <3>1, <3>2 DEF DirOK
      <4> QED
        BY <3>1, <4>1, <4>2 DEF InPlace, ChildrenOK, ListingOK
    <3>8. Separate'
      <4>1. PendingApart'
        <5>1. ASSUME NEW i \in 1..Len(pending'), NEW j \in 1..Len(pending'), Within(pending'[i], pending'[j])
              PROVE  i = j
          <6>1. i + 1 = j + 1
            BY <3>3, <5>1 DEF Quiet, Separate, PendingApart
          <6> QED
            BY <3>3, <6>1
        <5> QED
          BY <5>1 DEF PendingApart, Within, Under
      <4>2. ASSUME NEW i \in 1..Len(pending') PROVE ~Within(h, pending'[i]) /\ ~Within(pending'[i], h)
        BY <1>4, <3>3 DEF Quiet, Separate, PendingApart
      <4>3. DirApart'
        BY <3>1, <4>2 DEF DirApart, Within, Under
      <4> QED
        BY <3>1, <4>1, <4>3 DEF Separate, ChildrenApart, ListingApart
    <3>9. RulesOpened'
      <4>1. source' = source /\ \A p : DirectoryAt(p)' <=> DirectoryAt(p)
        BY SameWorld
      <4>2. DirectoryAt(Here.dir)
        BY <1>5, <2>1, InDirectoriesOf DEF Dirs
      <4>3. \A i \in 1..rule : DirectoryAt(source.rules[i].dir)
        BY <1>5, <4>2 DEF Quiet, RulesOpened
      <4> QED
        BY <3>1, <4>1, <4>3 DEF RulesOpened
    <3>10. FilesSound' /\ ExplicitSound'
      <4>1. source' = source /\ Discovered' = Discovered
        BY SameWorld
      <4> QED
        BY <3>1, <4>1 DEF Quiet, FilesSound, ExplicitSound
    <3>11. phase' # "done"
      BY <3>1
    <3> QED
      BY <3>6, <3>7, <3>8, <3>9, <3>10, <3>11 DEF Quiet
  <2> QED
    BY <2>4, <2>5
<1> QED
  BY <1>7, <1>8

\* Where the elements of two sequences are in both together.
LEMMA BothTogether ==
  ASSUME NEW S, NEW s \in Seq(S), NEW t \in Seq(S)
  PROVE  /\ \A i \in 1..Len(s) : i \in 1..Len(Joined(s, t)) /\ Joined(s, t)[i] = s[i]
         /\ \A i \in 1..Len(t) : Len(s) + i \in 1..Len(Joined(s, t)) /\ Joined(s, t)[Len(s) + i] = t[i]
         /\ \A i \in 1..Len(Joined(s, t)) : i \in 1..Len(s) \/ \E k \in 1..Len(t) : i = Len(s) + k
<1>1. PICK l \in Nat, m \in Nat : l = Len(s) /\ m = Len(t)
  <2>1. Len(s) \in Nat /\ Len(t) \in Nat
    OBVIOUS
  <2> QED
    BY <2>1
<1>2. /\ Len(Joined(s, t)) = l + m
      /\ \A i \in 1..l : Joined(s, t)[i] = s[i]
      /\ \A i \in 1..m : Joined(s, t)[l + i] = t[i]
  <2>1. /\ Len(s \o t) = l + m
        /\ \A i \in 1..l : (s \o t)[i] = s[i]
        /\ \A i \in 1..m : (s \o t)[l + i] = t[i]
    BY <1>1
  <2> QED
    BY <2>1 DEF Joined
<1>3. /\ \A i \in 1..l : i \in 1..(l + m)
      /\ \A i \in 1..m : l + i \in 1..(l + m)
      /\ \A i \in 1..(l + m) : i \in 1..l \/ (i - l \in 1..m /\ i = l + (i - l))
  BY ONLY l \in Nat, m \in Nat
<1>4. \A i \in 1..(l + m) : i \in 1..l \/ \E k \in 1..m : i = l + k
  BY ONLY <1>3
<1> QED
  BY <1>1, <1>2, <1>3, <1>4

\* The directories found are put before those that wait.
LEMMA QuietEndDirectory ==
  ASSUME CInv, Quiet, UNCHANGED world, EndDirectory
  PROVE  Quiet'
<1>1. /\ phase = "entries" /\ listing = <<>> /\ phase' = "walk" /\ children' = <<>>
      /\ pending' = children \o pending
      /\ UNCHANGED <<todo, explicit, rule, dir, listing, files, seenDirs, seenEntries>>
  BY DEF EndDirectory, Deeper, counts
<1>2. children \in Seq(Directories) /\ pending \in Seq(Directories) /\ dir.path \in Directories
  BY DEF CInv, DInv, TypeOK, Directories
<1>3. PICK l : l = Len(children)
  OBVIOUS
<1>4. PICK u : u = Joined(children, pending)
  OBVIOUS
<1>5. /\ \A i \in 1..Len(children) : i \in 1..Len(u) /\ u[i] = children[i]
      /\ \A i \in 1..Len(pending) : l + i \in 1..Len(u) /\ u[l + i] = pending[i]
      /\ \A i \in 1..Len(u) : i \in 1..Len(children) \/ \E k \in 1..Len(pending) : i = l + k
  <2>1. PICK s, t : s \in Seq(Directories) /\ t \in Seq(Directories) /\ s = children /\ t = pending
    BY <1>2
  <2>2. /\ \A i \in 1..Len(s) : i \in 1..Len(Joined(s, t)) /\ Joined(s, t)[i] = s[i]
        /\ \A i \in 1..Len(t) : Len(s) + i \in 1..Len(Joined(s, t)) /\ Joined(s, t)[Len(s) + i] = t[i]
        /\ \A i \in 1..Len(Joined(s, t)) : i \in 1..Len(s) \/ \E k \in 1..Len(t) : i = Len(s) + k
    BY <2>1, BothTogether
  <2> QED
    BY <1>3, <1>4, <2>1, <2>2
<1>6. pending' = u
  BY <1>1, <1>4 DEF Joined
<1>7. Here' = Here /\ Dirs' = Dirs
  BY <1>1, HereSame
<1>8. ASSUME NEW d \in Dirs PROVE Waits(d)' <=> Waits(d)
  <2>1. Waits(d)' <=> \E i \in 1..Len(u) : Within(u[i], d)
    BY <1>1, <1>6 DEF Waits, Within, Under
  <2>2. Len(listing) = 0
    BY <1>1
  <2>3. Waits(d) <=> \/ \E i \in 1..Len(pending) : Within(pending[i], d)
                     \/ \E i \in 1..Len(children) : Within(children[i], d)
    BY <1>1, <2>2 DEF Waits
  <2>4. ASSUME NEW i \in 1..Len(u), Within(u[i], d) PROVE Waits(d)
    <3>1. CASE i \in 1..Len(children)
      BY <1>5, <2>3, <2>4, <3>1
    <3>2. CASE \E k \in 1..Len(pending) : i = l + k
      BY <1>5, <2>3, <2>4, <3>2
    <3> QED
      BY <1>5, <3>1, <3>2
  <2>5. ASSUME Waits(d) PROVE \E i \in 1..Len(u) : Within(u[i], d)
    <3>1. CASE \E i \in 1..Len(pending) : Within(pending[i], d)
      BY <1>5, <3>1
    <3>2. CASE \E i \in 1..Len(children) : Within(children[i], d)
      BY <1>5, <3>2
    <3> QED
      BY <2>3, <2>5, <3>1, <3>2
  <2> QED
    BY <2>1, <2>4, <2>5
<1>9. Counted'
  BY <1>1, <1>8, CountedStays DEF Quiet
<1>10. \A i \in 1..Len(children) : children[i] \in Dirs /\ \E n \in Names : children[i] = Append(dir.path, n) /\ Append(dir.path, n) \in Paths
  BY <1>1 DEF Quiet, InPlace, ChildrenOK
<1>11. InPlace'
  <2>1. ASSUME NEW i \in 1..Len(u) PROVE u[i] = Here.dir \/ u[i] \in Dirs
    <3>1. CASE i \in 1..Len(children)
      BY <1>5, <1>10, <3>1
    <3>2. CASE \E k \in 1..Len(pending) : i = l + k
      BY <1>5, <3>2 DEF Quiet, InPlace, PendingOK
    <3> QED
      BY <1>5, <3>1, <3>2
  <2>2. PendingOK'
    BY <1>6, <1>7, <2>1 DEF PendingOK
  <2> QED
    BY <1>1, <2>2 DEF InPlace, DirOK, ChildrenOK, ListingOK
<1>12. \A i \in 1..Len(pending) : ~Within(dir.path, pending[i]) /\ ~Within(pending[i], dir.path) /\ pending[i] \in Directories
  <2>1. \A i \in 1..Len(pending) : ~Within(dir.path, pending[i]) /\ ~Within(pending[i], dir.path)
    BY <1>1 DEF Quiet, Separate, DirApart
  <2>2. \A i \in 1..Len(pending) : pending[i] \in Directories
    BY <1>2
  <2> QED
    BY <2>1, <2>2
<1>13. ASSUME NEW i \in 1..Len(children), NEW j \in 1..Len(children), Within(children[i], children[j]) PROVE i = j
  <2>1. PICK n \in Names : children[i] = Append(dir.path, n) /\ Append(dir.path, n) \in Paths
    BY <1>10
  <2>2. PICK m \in Names : children[j] = Append(dir.path, m) /\ Append(dir.path, m) \in Paths
    BY <1>10
  <2>3. n = m
    BY <1>2, <1>13, <2>1, <2>2, EntriesApart
  <2> QED
    BY <1>1, <2>1, <2>2, <2>3 DEF Quiet, Separate, ChildrenApart
<1>14. ASSUME NEW i \in 1..Len(children), NEW k \in 1..Len(pending)
       PROVE  ~Within(children[i], pending[k]) /\ ~Within(pending[k], children[i])
  <2>1. PICK n \in Names : children[i] = Append(dir.path, n) /\ Append(dir.path, n) \in Paths
    BY <1>10
  <2>2. PICK e, x, w : e = dir.path /\ x = pending[k] /\ w = Append(e, n)
    OBVIOUS
  <2>3. e \in Directories /\ x \in Directories /\ w \in Paths /\ ~Within(e, x) /\ ~Within(x, e)
    BY <1>2, <1>12, <2>1, <2>2
  <2>4. (Within(w, x) => Under(e, x)) /\ (Within(x, w) => x = w \/ Within(x, e)) /\ Under(e, w)
    BY <2>2, <2>3, WithinEntry, EntryPlace
  <2>5. ~Within(w, x) /\ ~Within(x, w)
    BY <2>3, <2>4 DEF Within
  <2> QED
    BY <2>1, <2>2, <2>5
<1>15. ASSUME NEW i \in 1..Len(u), NEW j \in 1..Len(u), Within(u[i], u[j]) PROVE i = j
  <2>1. CASE i \in 1..Len(children) /\ j \in 1..Len(children)
    BY <1>5, <1>13, <1>15, <2>1
  <2>2. CASE i \in 1..Len(children) /\ \E k \in 1..Len(pending) : j = l + k
    BY <1>5, <1>14, <1>15, <2>2
  <2>3. CASE j \in 1..Len(children) /\ \E k \in 1..Len(pending) : i = l + k
    BY <1>5, <1>14, <1>15, <2>3
  <2>4. CASE (\E k \in 1..Len(pending) : i = l + k) /\ (\E k \in 1..Len(pending) : j = l + k)
    <3>1. PICK k \in 1..Len(pending), m \in 1..Len(pending) : i = l + k /\ j = l + m
      BY <2>4
    <3>2. Within(pending[k], pending[m])
      BY <1>5, <1>15, <3>1
    <3>3. k = m
      BY <3>2 DEF Quiet, Separate, PendingApart
    <3> QED
      BY <3>1, <3>3
  <2> QED
    BY <1>5, <2>1, <2>2, <2>3, <2>4
<1>16. Separate'
  <2>1. PendingApart'
    BY <1>6, <1>15 DEF PendingApart, Within, Under
  <2> QED
    BY <1>1, <2>1 DEF Separate, DirApart, ChildrenApart, ListingApart
<1>17. source' = source /\ Discovered' = Discovered /\ \A p : DirectoryAt(p)' <=> DirectoryAt(p)
  BY SameWorld
<1>18. RulesOpened'
  BY <1>1, <1>17 DEF Quiet, RulesOpened
<1>19. FilesSound' /\ ExplicitSound'
  BY <1>1, <1>17 DEF Quiet, FilesSound, ExplicitSound
<1> QED
  BY <1>9, <1>11, <1>16, <1>18, <1>19 DEF Quiet

\* The entries of the directory e with these names, of the rule i.
EntriesNamed(i, e, names) == {<<i, Append(e, n)>> : n \in names}

\* As many entries as names.
LEMMA AsManyEntries ==
  ASSUME NEW e \in Directories, NEW names, names \subseteq Names, NEW i,
         \A n \in names : Append(e, n) \in Paths
  PROVE  /\ IsFiniteSet(EntriesNamed(i, e, names))
         /\ Cardinality(EntriesNamed(i, e, names)) = Cardinality(names)
<1>0. PICK N : N = EntriesNamed(i, e, names)
  OBVIOUS
<1>1. N = {<<i, Append(e, n)>> : n \in names}
  BY <1>0 DEF EntriesNamed
<1>2. PICK f : f = [n \in names |-> <<i, Append(e, n)>>]
  OBVIOUS
<1>3. \A n, m \in names : Append(e, n) = Append(e, m) => n = m
  BY EntryPlace
<1>4. \A n, m \in names : f[n] = f[m] => n = m
  BY <1>2, <1>3
<1>5. DOMAIN f = names /\ f \in [names -> N] /\ \A x \in N : \E n \in names : f[n] = x
  BY <1>1, <1>2
<1>6. f \in Bijection(names, N)
  BY <1>4, <1>5 DEF Bijection, Injection, Surjection, IsInjective
<1>7. ExistsBijection(names, N)
  BY <1>6 DEF ExistsBijection
<1>8. IsFiniteSet(names)
  BY SortedCount
<1> QED
  BY <1>0, <1>7, <1>8, FS_Bijection

\* The entries of the directory that is open, while nobody touches the tree.
LEMMA EntriesHere ==
  ASSUME CInv, Quiet, touched = {}, phase = "read"
  PROVE  /\ NamesIn(dir.inode) \subseteq Names
         /\ \A n : n \in NamesIn(dir.inode) <=>
                     n \in Names /\ Append(dir.path, n) \in Paths /\ fs[Append(dir.path, n)] # None
         /\ \A n \in NamesIn(dir.inode) : Reported(dir.inode, n) \in {"unknown", fs[Append(dir.path, n)].type}
         /\ dir.path \in Directories /\ dir.path \in Dirs
<1>1. PICK e, inode : e = dir.path /\ inode = dir.inode
  OBVIOUS
<1>2. e \in Directories /\ e \in Dirs
  BY <1>1 DEF CInv, DInv, TypeOK, Directories, Quiet, InPlace, DirOK
<1>3. LeftAlone(dir.path)
  BY DEF LeftAlone
<1>4. IF e = Root THEN inode = 0 ELSE fs[e] # None /\ fs[e].id = inode
  BY <1>1, <1>3 DEF CInv, DirOpen
<1>5. TypeOK /\ TreeSound
  BY DEF CInv, DInv
<1>6. /\ \A n : n \in NamesIn(inode) <=> n \in Names /\ Append(e, n) \in Paths /\ fs[Append(e, n)] # None
      /\ \A n \in NamesIn(inode) : Reported(inode, n) \in {"unknown", fs[Append(e, n)].type}
  BY <1>2, <1>4, <1>5, NamesHere
<1>7. NamesIn(inode) \subseteq Names
  BY <1>6
<1> QED
  BY <1>1, <1>2, <1>6, <1>7

\* What is under the directory that is open lies under one of its entries.
LEMMA UnderEntries ==
  ASSUME CInv, Quiet, touched = {}, phase = "read", NEW d \in Dirs
  PROVE  Under(dir.path, d) <=>
           \E n \in NamesIn(dir.inode) \ Odd : Within(Append(dir.path, n), d)
<1>1. PICK e : e = dir.path
  OBVIOUS
<1>2. /\ e \in Directories /\ e \in Dirs
      /\ \A n : n \in NamesIn(dir.inode) <=> n \in Names /\ Append(e, n) \in Paths /\ fs[Append(e, n)] # None
  BY <1>1, EntriesHere
<1>3. Here.dir \in Directories
  BY RuleHere
<1>4. d \in Directories
  BY <1>3, InDirectoriesOf DEF Dirs
<1>5. ASSUME Under(e, d) PROVE \E n \in NamesIn(dir.inode) \ Odd : Within(Append(e, n), d)
  <2>1. PICK n \in Names \ Odd : /\ Append(e, n) \in Paths /\ Within(Append(e, n), d)
                                 /\ Append(e, n) \in DirectoriesOf(Here)
    BY <1>2, <1>3, <1>5, FurtherInRule DEF Dirs
  <2>2. PICK w : w = Append(e, n) /\ w \in Paths /\ w \in DirectoriesOf(Here)
    BY <2>1
  <2>3. DirectoryAt(w)
    BY <1>3, <2>2, InDirectoriesOf
  <2>4. w # Root
    <3>1. Len(w) # 0
      BY <2>2, PathsAreSequences
    <3> QED
      BY <3>1 DEF Root
  <2>5. fs[w] # None
    BY <2>3, <2>4 DEF DirectoryAt, Exists
  <2> QED
    BY <1>2, <2>1, <2>2, <2>5
<1>6. ASSUME NEW n \in NamesIn(dir.inode) \ Odd, Within(Append(e, n), d) PROVE Under(e, d)
  <2>1. Append(e, n) \in Paths
    BY <1>2
  <2> QED
    BY <1>2, <1>4, <1>6, <2>1, WithinEntry
<1> QED
  BY <1>1, <1>5, <1>6

\* What is listed of the directory.
ListingOf(kept, inode) == [i \in DOMAIN kept |-> [name |-> kept[i], type |-> Reported(inode, kept[i])]]

LEMMA ListingHere ==
  ASSUME NEW names, NEW inode, names \subseteq Names,
         NEW kept, kept = Sorted(names),
         NEW list, list = ListingOf(kept, inode)
  PROVE  /\ \A i \in 1..Len(list) : /\ list[i].name \in names
                                    /\ list[i].type = Reported(inode, list[i].name)
         /\ \A n \in names : \E i \in 1..Len(list) : list[i].name = n
         /\ \A i, j \in 1..Len(list) : list[i].name = list[j].name => i = j
<1>1. /\ kept \in Seq(names)
      /\ \A j, k \in 1..Len(kept) : kept[j] = kept[k] => j = k
  BY SortedRight
<1>2. \A n \in names : \E k \in 1..Len(kept) : kept[k] = n
  BY SortedHas
<1>3. PICK l \in Nat : l = Len(kept) /\ DOMAIN kept = 1..l
  BY <1>1
<1>4. list = [i \in 1..l |-> [name |-> kept[i], type |-> Reported(inode, kept[i])]]
  BY <1>3 DEF ListingOf
<1>5. Len(list) = l /\ \A i \in 1..l : list[i].name = kept[i] /\ list[i].type = Reported(inode, kept[i])
  BY <1>3, <1>4
<1>6. \A i \in 1..l : kept[i] \in names
  BY <1>1, <1>3
<1> QED
  BY <1>1, <1>2, <1>3, <1>5, <1>6

\* The entries of the directory that is read, none of which was counted.
LEMMA EntriesNew ==
  ASSUME CInv, Quiet, touched = {}, phase = "read",
         NEW N, N = {<<rule, Append(dir.path, n)>> : n \in NamesIn(dir.inode)}
  PROVE  /\ \A v \in ToList : v \in N <=> v[1] = rule /\ Front(v[2]) = dir.path
         /\ N \subseteq ToList /\ N \cap ListedEntries = {}
         /\ Cardinality(ListedEntries \cup N) = seenEntries + Len(Sorted(NamesIn(dir.inode)))
         /\ seenEntries + Len(Sorted(NamesIn(dir.inode))) <= Cardinality(ToList)
         /\ Cardinality(ToList) \in Nat /\ seenEntries \in Nat /\ Len(Sorted(NamesIn(dir.inode))) \in Nat
<1>1. PICK e, names : e = dir.path /\ names = NamesIn(dir.inode)
  OBVIOUS
<1>2. /\ e \in Directories /\ e \in Dirs /\ names \subseteq Names
      /\ \A n : n \in names <=> n \in Names /\ Append(e, n) \in Paths /\ fs[Append(e, n)] # None
  BY <1>1, EntriesHere
<1>3. rule \in AllRules /\ N = {<<rule, Append(e, n)>> : n \in names}
  BY <1>1, RuleHere
<1>4. ASSUME NEW v \in ToList, v[1] = rule, Front(v[2]) = e PROVE v \in N
  <2>1. v = <<v[1], v[2]>> /\ v[2] \in Paths /\ fs[v[2]] # None
    BY InToWalk
  <2>2. PICK p : p = v[2] /\ p \in Paths
    BY <2>1
  <2>3. Last(p) \in Names /\ p = Append(Front(p), Last(p))
    BY <2>2, PathIsEntry
  <2>4. Front(p) = e
    BY <1>4, <2>2
  <2>5. Last(p) \in names /\ p = Append(e, Last(p))
    BY <1>2, <2>1, <2>2, <2>3, <2>4
  <2> QED
    BY <1>3, <1>4, <2>1, <2>2, <2>5
<1>5. ASSUME NEW v \in N PROVE v \in ToList /\ v[1] = rule /\ Front(v[2]) = e
  <2>1. PICK n \in names : v = <<rule, Append(e, n)>>
    BY <1>3
  <2>2. PICK p : p = Append(e, n) /\ p \in Paths /\ fs[p] # None
    <3>1. n \in names
      OBVIOUS
    <3>2. Append(e, n) \in Paths /\ fs[Append(e, n)] # None
      BY ONLY <1>2, <3>1
    <3> QED
      BY <3>2
  <2>3. Front(p) = e
    BY <1>2, <2>2, EntryPlace
  <2>4. <<rule, p>> \in ToList
    BY <1>2, <1>3, <2>2, <2>3, InToWalk
  <2>5. v[1] = rule /\ v[2] = p
    BY <2>1, <2>2
  <2>6. Front(v[2]) = e
    BY <2>3, <2>5
  <2> QED
    BY <2>1, <2>2, <2>4, <2>5, <2>6
<1>6. N \cap ListedEntries = {}
  <2>1. ASSUME NEW v \in N PROVE v \notin ListedEntries
    <3>1. v[1] = rule /\ Front(v[2]) = e
      BY <1>5
    <3>2. rule \in Nat /\ ~(rule < rule)
      BY RuleHere
    <3> QED
      BY <1>1, <3>1, <3>2 DEF ListedEntries
  <2> QED
    BY <2>1
<1>7. Cardinality(N) = Len(Sorted(names)) /\ IsFiniteSet(N)
  <2>0. PICK i : i = rule
    OBVIOUS
  <2>1. /\ IsFiniteSet(EntriesNamed(i, e, names))
        /\ Cardinality(EntriesNamed(i, e, names)) = Cardinality(names)
    <3>1. e \in Directories /\ names \subseteq Names /\ \A n \in names : Append(e, n) \in Paths
      BY <1>2
    <3> QED
      BY ONLY <3>1, AsManyEntries
  <2>2. N = EntriesNamed(i, e, names)
    BY <1>3, <2>0 DEF EntriesNamed
  <2>3. Len(Sorted(names)) = Cardinality(names)
    BY <1>2, SortedCount
  <2> QED
    BY <2>1, <2>2, <2>3
<1>8. ListedEntries \in SUBSET ToList /\ N \in SUBSET ToList /\ IsFiniteSet(ToList)
  BY <1>5, ToWalkFinite DEF ListedEntries, CInv, DInv
<1>9. /\ Cardinality(ListedEntries \cup N) = Cardinality(ListedEntries) + Cardinality(N)
      /\ Cardinality(ListedEntries) + Cardinality(N) <= Cardinality(ToList)
      /\ Cardinality(ListedEntries) \in Nat /\ Cardinality(N) \in Nat /\ Cardinality(ToList) \in Nat
  <2>1. PICK S, A : S = ToList /\ A = ListedEntries
    OBVIOUS
  <2>2. A \in SUBSET S /\ N \in SUBSET S /\ IsFiniteSet(S) /\ A \cap N = {}
    BY <1>6, <1>8, <2>1
  <2>3. /\ Cardinality(A \cup N) = Cardinality(A) + Cardinality(N)
        /\ Cardinality(A) + Cardinality(N) <= Cardinality(S)
        /\ Cardinality(A) \in Nat /\ Cardinality(N) \in Nat /\ Cardinality(S) \in Nat
    BY ONLY <2>2, MoreOf
  <2> QED
    BY <2>1, <2>3
<1>10. seenEntries = Cardinality(ListedEntries)
  BY DEF Quiet, Counted
<1>11. \A v \in ToList : v \in N <=> v[1] = rule /\ Front(v[2]) = dir.path
  BY <1>1, <1>4, <1>5
<1> QED
  BY <1>1, <1>6, <1>7, <1>8, <1>9, <1>10, <1>11

\* A directory is read: its entries are listed, and those of the rule's directories
\* under it are still to come.
LEMMA QuietReadDirectory ==
  ASSUME CInv, Quiet, touched = {}, UNCHANGED world, ReadDirectory
  PROVE  IF phase' = "done" THEN QInv' ELSE Quiet'
<1>0. phase = "read"
  BY DEF ReadDirectory
<1>1. PICK e, names, inode : e = dir.path /\ inode = dir.inode /\ names = NamesIn(inode)
  OBVIOUS
<1>2. PICK N : N = {<<rule, Append(dir.path, n)>> : n \in NamesIn(dir.inode)}
  OBVIOUS
<1>3. PICK l : l = Len(Sorted(names))
  OBVIOUS
<1>4. /\ \A v \in ToList : v \in N <=> v[1] = rule /\ Front(v[2]) = e
      /\ N \subseteq ToList
      /\ Cardinality(ListedEntries \cup N) = seenEntries + l
      /\ seenEntries + l <= Cardinality(ToList)
      /\ Cardinality(ToList) \in Nat /\ seenEntries \in Nat /\ l \in Nat
  BY <1>0, <1>1, <1>2, <1>3, EntriesNew
<1>5. /\ names \subseteq Names /\ e \in Directories /\ e \in Dirs
      /\ \A n \in names : Append(e, n) \in Paths /\ fs[Append(e, n)] # None
      /\ \A n \in names : Reported(inode, n) \in {"unknown", fs[Append(e, n)].type}
  BY <1>0, <1>1, EntriesHere
<1>6. CASE TooMany(seenEntries + l)
  <2>1. Fail("TooManyEntries")
    BY <1>1, <1>3, <1>6 DEF ReadDirectory
  <2>2. ~(Cardinality(ToList) <= MaxEntries)
    BY <1>4, <1>6, LimitsAssumption DEF TooMany
  <2>3. phase' = "done"
    BY <2>1 DEF Fail, Return
  <2>4. ~(AllThere /\ WithinLimits)
    BY <2>2 DEF WithinLimits
  <2> QED
    BY <2>1, <2>3, <2>4, FailsRightly
<1>7. CASE ~TooMany(seenEntries + l)
  <2>1. PICK kept : kept = Sorted(names \ Odd)
    OBVIOUS
  <2>2. /\ phase' = "entries" /\ seenEntries' = seenEntries + l
        /\ listing' = [i \in DOMAIN kept |-> [name |-> kept[i], type |-> Reported(inode, kept[i])]]
        /\ children' = <<>>
        /\ UNCHANGED <<todo, explicit, rule, pending, dir, files, seenDirs>>
    BY <1>1, <1>3, <1>7, <2>1 DEF ReadDirectory
  <2>3. names \ Odd \subseteq Names
    BY <1>5
  <2>4. /\ \A i \in 1..Len(listing') : /\ listing'[i].name \in names \ Odd
                                       /\ listing'[i].type = Reported(inode, listing'[i].name)
        /\ \A n \in names \ Odd : \E i \in 1..Len(listing') : listing'[i].name = n
        /\ \A i, j \in 1..Len(listing') : listing'[i].name = listing'[j].name => i = j
    <3>1. PICK list : list = listing'
      OBVIOUS
    <3>2. PICK x : x = names \ Odd
      OBVIOUS
    <3>3. x \subseteq Names /\ kept = Sorted(x)
      BY <2>1, <2>3, <3>2
    <3>4. list = ListingOf(kept, inode)
      BY <2>2, <3>1 DEF ListingOf
    <3>5. /\ \A i \in 1..Len(list) : /\ list[i].name \in x
                                      /\ list[i].type = Reported(inode, list[i].name)
          /\ \A n \in x : \E i \in 1..Len(list) : list[i].name = n
          /\ \A i, j \in 1..Len(list) : list[i].name = list[j].name => i = j
      BY ONLY <3>3, <3>4, ListingHere
    <3> QED
      BY <3>1, <3>2, <3>5
  <2>5. Here' = Here /\ Dirs' = Dirs /\ Len(children') = 0
    BY <2>2, HereSame
  <2>6. ASSUME NEW d \in Dirs PROVE Waits(d)' <=> Waits(d)
    <3>1. Waits(d) <=> (\E i \in 1..Len(pending) : Within(pending[i], d)) \/ Under(e, d)
      BY <1>0, <1>1 DEF Waits
    <3>2. Waits(d)' <=> \/ \E i \in 1..Len(pending) : Within(pending[i], d)
                        \/ \E i \in 1..Len(listing') : Within(Append(e, listing'[i].name), d)
      <4>1. PICK list, pend, ch : list = listing' /\ pend = pending /\ ch = children'
        OBVIOUS
      <4>2. phase' = "entries" /\ dir'.path = e /\ pending' = pend /\ Len(ch) = 0
        BY <1>1, <2>2, <2>5, <4>1
      <4>3. Waits(d)' <=> \/ \E i \in 1..Len(pend) : Within(pend[i], d)
                          \/ \E i \in 1..Len(ch) : Within(ch[i], d)
                          \/ \E i \in 1..Len(list) : Within(Append(e, list[i].name), d)
        BY <4>1, <4>2 DEF Waits, Within, Under
      <4> QED
        BY <4>1, <4>2, <4>3
    <3>3. Under(e, d) <=> \E n \in names \ Odd : Within(Append(e, n), d)
      BY <1>0, <1>1, UnderEntries
    <3>4. (\E i \in 1..Len(listing') : Within(Append(e, listing'[i].name), d))
             <=> \E n \in names \ Odd : Within(Append(e, n), d)
      BY <2>4
    <3> QED
      BY <3>1, <3>2, <3>3, <3>4
  <2>7. ~Waits(e)
    <3>1. \A i \in 1..Len(pending) : ~Within(pending[i], e)
      BY <1>0, <1>1 DEF Quiet, Separate, DirApart
    <3>2. ~Under(e, e)
      BY <1>5, WithinWithin
    <3> QED
      BY <1>0, <1>1, <3>1, <3>2 DEF Waits
  <2>8. WalkedDirs' = WalkedDirs
    <3>1. ToWalk' = ToWalk
      BY SameWorld
    <3>2. ASSUME NEW v \in ToWalk
          PROVE  v[1] < rule \/ (v[1] = rule /\ ~Waits(v[2])) <=> v[1] < rule \/ (v[1] = rule /\ ~Waits(v[2])')
      <4>1. v[1] = rule => v[2] \in Dirs
        BY InToWalk
      <4> QED
        BY <2>6, <4>1
    <3> QED
      BY <2>2, <3>1, <3>2 DEF WalkedDirs
  <2>9. ListedEntries' = ListedEntries \cup N
    <3>1. ToList' = ToList
      BY SameWorld
    <3>2. ASSUME NEW v \in ToList PROVE v \in ListedEntries' <=> v \in ListedEntries \/ v \in N
      <4>1. PICK f : f = Front(v[2])
        OBVIOUS
      <4>2. v[1] = rule => (Waits(f)' <=> Waits(f))
        <5>1. v[1] = rule => f \in Dirs
          BY <4>1, InToWalk
        <5> QED
          BY <2>6, <5>1
      <4>3. Waits(f)' <=> Waits(Front(v[2]))'
        BY <4>1 DEF Waits
      <4>4. v \in ListedEntries' <=> v[1] < rule \/ (v[1] = rule /\ ~Waits(f)')
        BY <2>2, <3>1, <4>3 DEF ListedEntries
      <4>5. v \in ListedEntries <=> v[1] < rule \/ (v[1] = rule /\ ~Waits(f) /\ f # e)
        BY <1>0, <1>1, <4>1 DEF ListedEntries
      <4>6. v \in N <=> v[1] = rule /\ f = e
        BY <1>4, <4>1
      <4>7. f = e => ~Waits(f)
        BY <2>7
      <4> QED
        BY <4>2, <4>4, <4>5, <4>6, <4>7
    <3>3. ListedEntries' \subseteq ToList /\ ListedEntries \subseteq ToList
      BY <3>1 DEF ListedEntries
    <3> QED
      BY <1>4, <3>2, <3>3
  <2>10. Counted'
    <3>1. seenEntries + l <= MaxEntries
      BY <1>4, <1>7, LimitsAssumption DEF TooMany
    <3> QED
      BY <1>4, <2>2, <2>8, <2>9, <3>1 DEF Quiet, Counted
  <2>11. source' = source /\ fs' = fs /\ Discovered' = Discovered /\ \A p : DirectoryAt(p)' <=> DirectoryAt(p)
    BY SameWorld
  <2>12. InPlace'
    <3>1. PendingOK' /\ DirOK' /\ ChildrenOK'
      BY <1>1, <1>5, <2>2, <2>5 DEF Quiet, InPlace, PendingOK, DirOK, ChildrenOK
    <3>2. ASSUME NEW i \in 1..Len(listing') PROVE ListedRight(listing'[i], e)
      BY <1>5, <2>4 DEF ListedRight
    <3>3. ListingOK'
      BY <1>1, <2>2, <2>11, <3>2 DEF ListingOK, ListedRight
    <3> QED
      BY <3>1, <3>3 DEF InPlace
  <2>13. Separate'
    <3>1. PendingApart' /\ DirApart'
      BY <1>0, <2>2 DEF Quiet, Separate, PendingApart, DirApart, Within, Under
    <3>2. ChildrenApart' /\ ListingApart'
      BY <2>4, <2>5 DEF ChildrenApart, ListingApart
    <3> QED
      BY <3>1, <3>2 DEF Separate
  <2>14. RulesOpened'
    BY <1>0, <2>2, <2>11 DEF Quiet, RulesOpened
  <2>15. FilesSound' /\ ExplicitSound'
    BY <2>2, <2>11 DEF Quiet, FilesSound, ExplicitSound
  <2>16. phase' # "done"
    BY <2>2
  <2> QED
    BY <2>10, <2>12, <2>13, <2>14, <2>15, <2>16 DEF Quiet
<1> QED
  BY <1>6, <1>7

\* What all rules and the explicit files lead to is finite.
LEMMA CompleteFinite ==
  ASSUME TypeOK
  PROVE  Range(source.explicit) \subseteq Paths /\ Complete \subseteq Paths /\ IsFiniteSet(Complete)
<1>1. source.explicit \in Seq(Paths)
  BY SourcesAssumption DEF TypeOK
<1>2. Range(source.explicit) \subseteq Paths
  BY <1>1 DEF Range
<1>3. Discovered \subseteq Paths
  BY DEF Discovered, FilesOf, EntriesOf
<1>4. Complete \in SUBSET Paths
  BY <1>2, <1>3 DEF Complete
<1> QED
  BY <1>2, <1>4, PathsFinite, FS_Subset

\* The entry that is looked at next.
LEMMA EntryHere ==
  ASSUME CInv, Quiet, phase = "entries", listing # <<>>,
         NEW w, w = Append(dir.path, Head(listing).name)
  PROVE  /\ dir.path \in Directories /\ dir.path \in Dirs /\ w \in Paths /\ fs[w] # None
         /\ Head(listing) = listing[1] /\ 1 \in 1..Len(listing) /\ Head(listing).name \notin Odd
         /\ Head(listing).type \in {"unknown", fs[w].type}
         /\ \A i \in 1..Len(Tail(listing)) : i + 1 \in 1..Len(listing) /\ Tail(listing)[i] = listing[i + 1] /\ i + 1 # 1
         /\ \A i \in 1..Len(listing) : i = 1 \/ (i - 1 \in 1..Len(Tail(listing)) /\ Tail(listing)[i - 1] = listing[i])
<1>1. PICK S : listing \in Seq(S)
  BY DEF CInv, ListingTyped
<1>2. Head(listing) = listing[1] /\ 1 \in 1..Len(listing)
  BY <1>1
<1>3. /\ \A i \in 1..Len(Tail(listing)) : i + 1 \in 1..Len(listing) /\ Tail(listing)[i] = listing[i + 1] /\ i + 1 # 1
      /\ \A i \in 1..Len(listing) : i = 1 \/ (i - 1 \in 1..Len(Tail(listing)) /\ Tail(listing)[i - 1] = listing[i])
  BY <1>1
<1>4. ListedRight(Head(listing), dir.path)
  BY <1>2 DEF Quiet, InPlace, ListingOK
<1>5. dir.path \in Directories /\ dir.path \in Dirs
  BY DEF CInv, DInv, TypeOK, Directories, Quiet, InPlace, DirOK
<1> QED
  BY <1>2, <1>3, <1>4, <1>5 DEF ListedRight

\* In a tree that nobody touches an entry still is what it was when it was listed.
LEMMA EntryOutcome ==
  ASSUME CInv, Quiet, Entry, NEW w, w = Append(dir.path, Head(listing).name)
  PROVE  \/ Child(w) /\ Recursive /\ DirectoryAt(w)
         \/ PassOver /\ ~(Recursive /\ DirectoryAt(w))
         \/ Record(w) /\ Matches(w) /\ fs[w].type = "file" /\ ~DirectoryAt(w)
<1>1. phase = "entries" /\ listing # <<>>
  BY DEF Entry
<1>2. PICK t : t = Head(listing).type
  OBVIOUS
<1>3. w \in Paths /\ fs[w] # None /\ t \in {"unknown", fs[w].type}
  BY <1>1, <1>2, EntryHere
<1>4. w # Root
  <2>1. Len(w) # 0
    BY <1>3, PathsAreSequences
  <2> QED
    BY <2>1 DEF Root
<1>5. (DirectoryAt(w) <=> fs[w].type = "dir") /\ (RegularAt(w) # {} <=> fs[w].type = "file")
  BY <1>3, <1>4 DEF DirectoryAt, RegularAt, Exists
<1>6. CASE t = "link"
  <2>1. PassOver
    BY <1>2, <1>6 DEF Entry
  <2>2. fs[w].type = "link"
    BY <1>3, <1>6
  <2> QED
    BY <1>5, <2>1, <2>2
<1>7. CASE t = "dir"
  <2>1. DirectoryAt(w)
    BY <1>3, <1>5, <1>7
  <2>2. IF ~Recursive THEN PassOver ELSE Child(w)
    BY <1>2, <1>7, <2>1 DEF Entry
  <2> QED
    BY <2>1, <2>2
<1>8. CASE t = "file"
  <2>1. fs[w].type = "file"
    BY <1>3, <1>8
  <2>2. IF ~Matches(w) THEN PassOver ELSE Record(w)
    BY <1>2, <1>5, <1>8, <2>1 DEF Entry
  <2> QED
    BY <1>5, <2>1, <2>2
<1>9. CASE t # "link" /\ t # "dir" /\ t # "file"
  <2>1. IF Recursive /\ DirectoryAt(w) THEN Child(w)
        ELSE IF Matches(w) /\ RegularAt(w) # {} THEN Record(w)
        ELSE PassOver
    BY <1>2, <1>9 DEF Entry
  <2> QED
    BY <1>5, <2>1
<1> QED
  BY <1>6, <1>7, <1>8, <1>9

\* A directory of the rule under an entry: the entry is one too.
LEMMA EntryLeads ==
  ASSUME CInv, Quiet, phase = "entries", NEW w \in Paths, NEW n, w = Append(dir.path, n),
         NEW d \in Dirs, Within(w, d)
  PROVE  Recursive /\ DirectoryAt(w)
<1>1. PICK e : e = dir.path
  OBVIOUS
<1>2. e \in Directories /\ e \in Dirs
  BY <1>1 DEF CInv, DInv, TypeOK, Directories, Quiet, InPlace, DirOK
<1>3. Here.dir \in Directories /\ Here = source.rules[rule]
  BY RuleHere
<1>4. w \in Directories /\ d \in Directories /\ Within(Here.dir, e)
  BY <1>2, <1>3, InDirectoriesOf DEF Dirs, Directories
<1>5. Under(e, w) /\ Under(e, d)
  BY <1>1, <1>2, <1>4, EntryPlace, WithinEntry
<1>6. Within(Here.dir, w)
  BY <1>2, <1>3, <1>4, <1>5, WithinWithin DEF Within
<1>7. w \in DirectoriesOf(Here)
  BY <1>3, <1>4, <1>6, OnTheWayOfRule DEF Dirs
<1>8. DirectoryAt(w)
  BY <1>3, <1>7, InDirectoriesOf
<1>9. Recursive
  BY <1>2, <1>3, <1>5, FurtherInRule DEF Dirs, Recursive
<1> QED
  BY <1>8, <1>9

\* A directory of the rule is found: it waits among the children.
LEMMA QuietChild ==
  ASSUME CInv, Quiet, UNCHANGED world, phase = "entries", listing # <<>>,
         NEW w, w = Append(dir.path, Head(listing).name), Child(w), Recursive, DirectoryAt(w)
  PROVE  Quiet' /\ phase' # "done"
<1>1. /\ children' = Append(children, w) /\ listing' = Tail(listing)
      /\ UNCHANGED <<phase, todo, explicit, rule, pending, dir, files, seenDirs, seenEntries>>
  BY DEF Child, counts
<1>2. PICK e, n : e = dir.path /\ n = Head(listing).name
  OBVIOUS
<1>3. /\ e \in Directories /\ e \in Dirs /\ w \in Paths /\ w = Append(e, n) /\ n = listing[1].name
      /\ 1 \in 1..Len(listing) /\ n \notin Odd
      /\ \A i \in 1..Len(listing') : i + 1 \in 1..Len(listing) /\ listing'[i] = listing[i + 1] /\ i + 1 # 1 /\ i \in Int
      /\ \A i \in 1..Len(listing) : i = 1 \/ (i - 1 \in 1..Len(listing') /\ listing'[i - 1] = listing[i])
  <2>1. /\ dir.path \in Directories /\ dir.path \in Dirs /\ w \in Paths
        /\ Head(listing) = listing[1] /\ 1 \in 1..Len(listing) /\ Head(listing).name \notin Odd
        /\ \A i \in 1..Len(Tail(listing)) : i + 1 \in 1..Len(listing) /\ Tail(listing)[i] = listing[i + 1] /\ i + 1 # 1
        /\ \A i \in 1..Len(listing) : i = 1 \/ (i - 1 \in 1..Len(Tail(listing)) /\ Tail(listing)[i - 1] = listing[i])
    BY EntryHere
  <2>2. \A k : \A i \in 1..k : i \in Int
    OBVIOUS
  <2>3. PICK list : list = Tail(listing)
    OBVIOUS
  <2>4. listing' = list
    BY <1>1, <2>3
  <2> QED
    BY <1>2, <2>1, <2>2, <2>3, <2>4
<1>4. Here.dir \in Directories /\ Here = source.rules[rule]
  BY RuleHere
<1>5. w \in Dirs /\ n \in Names
  <2>1. PICK r : r = Here
    OBVIOUS
  <2>2. r.dir \in Directories /\ r.recursive /\ e \in DirectoriesOf(r) /\ n \notin Odd
        /\ Append(e, n) \in Paths /\ DirectoryAt(Append(e, n))
    BY <1>3, <1>4, <2>1 DEF Dirs, Recursive
  <2>3. Append(e, n) \in DirectoriesOf(r)
    BY ONLY <2>2, NextOfRule
  <2> QED
    BY <1>3, <2>1, <2>3, EntryPlace DEF Dirs
<1>6. children \in Seq(Directories)
  BY DEF CInv, DInv, TypeOK, Directories
<1>7. /\ \A i \in 1..Len(children) : i \in 1..Len(children') /\ children'[i] = children[i]
      /\ \A i \in 1..Len(children') : i \in 1..Len(children) \/ children'[i] = w
      /\ \A i, j \in 1..Len(children') : i \in 1..Len(children) \/ j \in 1..Len(children) \/ i = j
      /\ \E i \in 1..Len(children') : children'[i] = w
  <2>1. PICK l \in Nat : l = Len(children)
    BY <1>6
  <2>2. /\ Len(children') = l + 1 /\ children'[l + 1] = w
        /\ \A i \in 1..l : children'[i] = children[i]
    BY <1>1, <1>6, <2>1
  <2>3. /\ \A i \in 1..l : i \in 1..(l + 1)
        /\ \A i \in 1..(l + 1) : i \in 1..l \/ i = l + 1
        /\ l + 1 \in 1..(l + 1)
    BY ONLY l \in Nat
  <2> QED
    BY <2>1, <2>2, <2>3
<1>8. Here' = Here /\ Dirs' = Dirs
  BY <1>1, HereSame
<1>9. ASSUME NEW d \in Dirs PROVE Waits(d)' <=> Waits(d)
  <2>1. PICK list, pend, ch : list = listing' /\ pend = pending /\ ch = children'
    OBVIOUS
  <2>2. Waits(d)' <=> \/ \E i \in 1..Len(pend) : Within(pend[i], d)
                      \/ \E i \in 1..Len(ch) : Within(ch[i], d)
                      \/ \E i \in 1..Len(list) : Within(Append(e, list[i].name), d)
    <3>1. phase' = "entries" /\ dir'.path = e /\ pending' = pend
      BY <1>1, <1>2, <2>1
    <3> QED
      BY <2>1, <3>1 DEF Waits, Within, Under
  <2>3. Waits(d) <=> \/ \E i \in 1..Len(pend) : Within(pend[i], d)
                     \/ \E i \in 1..Len(children) : Within(children[i], d)
                     \/ \E i \in 1..Len(listing) : Within(Append(e, listing[i].name), d)
    BY <1>2, <2>1 DEF Waits
  <2>4. (\E i \in 1..Len(ch) : Within(ch[i], d)) <=> (\E i \in 1..Len(children) : Within(children[i], d)) \/ Within(w, d)
    BY <1>7, <2>1
  <2>5. (\E i \in 1..Len(listing) : Within(Append(e, listing[i].name), d))
          <=> (\E i \in 1..Len(list) : Within(Append(e, list[i].name), d)) \/ Within(w, d)
    <3>1. ASSUME NEW i \in 1..Len(listing), Within(Append(e, listing[i].name), d)
          PROVE  (\E k \in 1..Len(list) : Within(Append(e, list[k].name), d)) \/ Within(w, d)
      <4>1. CASE i = 1
        BY <1>3, <3>1, <4>1
      <4>2. CASE i # 1
        BY <1>3, <2>1, <3>1, <4>2
      <4> QED
        BY <4>1, <4>2
    <3>2. ASSUME NEW i \in 1..Len(list), Within(Append(e, list[i].name), d)
          PROVE  \E k \in 1..Len(listing) : Within(Append(e, listing[k].name), d)
      BY <1>3, <2>1, <3>2
    <3>3. Within(w, d) => \E i \in 1..Len(listing) : Within(Append(e, listing[i].name), d)
      BY <1>3
    <3> QED
      BY <3>1, <3>2, <3>3
  <2> QED
    BY <2>2, <2>3, <2>4, <2>5
<1>10. Counted'
  BY <1>1, <1>9, CountedStays DEF Quiet
<1>11. source' = source /\ fs' = fs /\ Discovered' = Discovered /\ \A p : DirectoryAt(p)' <=> DirectoryAt(p)
  BY SameWorld
<1>12. InPlace'
  <2>1. PendingOK' /\ DirOK'
    BY <1>1, <1>8 DEF Quiet, InPlace, PendingOK, DirOK
  <2>2. ASSUME NEW i \in 1..Len(children')
        PROVE  children'[i] \in Dirs /\ \E m \in Names : children'[i] = Append(e, m) /\ Append(e, m) \in Paths
    BY <1>2, <1>3, <1>5, <1>7 DEF Quiet, InPlace, ChildrenOK
  <2>3. ChildrenOK'
    BY <1>1, <1>2, <1>8, <2>2 DEF ChildrenOK
  <2>4. \A i \in 1..Len(listing') : ListedRight(listing'[i], e)
    BY <1>2, <1>3 DEF Quiet, InPlace, ListingOK
  <2>5. ListingOK'
    BY <1>1, <1>2, <1>11, <2>4 DEF ListingOK, ListedRight
  <2> QED
    BY <2>1, <2>3, <2>5 DEF InPlace
<1>13. Separate'
  <2>1. PendingApart' /\ DirApart'
    BY <1>1 DEF Quiet, Separate, PendingApart, DirApart, Within, Under
  <2>2. \A i \in 1..Len(children) : children[i] # w
    BY <1>2, <1>3 DEF Quiet, Separate, ListingApart
  <2>3. ChildrenApart'
    BY <1>7, <2>2 DEF Quiet, Separate, ChildrenApart
  <2>4. \A i, j \in 1..Len(listing) : listing[i].name = listing[j].name => i = j
    BY DEF Quiet, Separate, ListingApart
  <2>5. \A i, j \in 1..Len(listing') : listing'[i].name = listing'[j].name => i = j
    <3>1. ASSUME NEW i \in 1..Len(listing'), NEW j \in 1..Len(listing'), listing'[i].name = listing'[j].name
          PROVE  i = j
      <4>0. /\ i + 1 \in 1..Len(listing) /\ listing'[i] = listing[i + 1]
            /\ j + 1 \in 1..Len(listing) /\ listing'[j] = listing[j + 1]
        BY <1>3
      <4>1. i + 1 = j + 1
        BY <2>4, <3>1, <4>0
      <4> QED
        BY <1>3, <4>1
    <3> QED
      BY <3>1
  <2>6. \A i \in 1..Len(children), j \in 1..Len(listing') : children[i] # Append(e, listing'[j].name)
    BY <1>2, <1>3 DEF Quiet, Separate, ListingApart
  <2>7. ASSUME NEW j \in 1..Len(listing') PROVE w # Append(e, listing'[j].name)
    <3>1. PICK m : m = listing'[j].name
      OBVIOUS
    <3>2. m # n
      BY <1>3, <2>4, <3>1
    <3>3. w = Append(e, m) => m = n
      BY <1>3, EntryPlace
    <3> QED
      BY <3>1, <3>2, <3>3
  <2>8. \A i \in 1..Len(children'), j \in 1..Len(listing') : children'[i] # Append(e, listing'[j].name)
    BY <1>7, <2>6, <2>7
  <2>9. ListingApart'
    BY <1>1, <1>2, <2>5, <2>8 DEF ListingApart
  <2> QED
    BY <2>1, <2>3, <2>9 DEF Separate
<1>14. RulesOpened'
  BY <1>1, <1>11 DEF Quiet, RulesOpened
<1>15. FilesSound' /\ ExplicitSound'
  BY <1>1, <1>11 DEF Quiet, FilesSound, ExplicitSound
<1>16. phase' # "done"
  BY <1>1
<1> QED
  BY <1>10, <1>12, <1>13, <1>14, <1>15, <1>16 DEF Quiet

\* An entry that leads to no directory of the rule is done with.
LEMMA QuietPast ==
  ASSUME CInv, Quiet, UNCHANGED world, phase = "entries", listing # <<>>,
         NEW w, w = Append(dir.path, Head(listing).name), ~(Recursive /\ DirectoryAt(w)),
         listing' = Tail(listing), FilesSound',
         UNCHANGED <<phase, todo, explicit, rule, pending, dir, children, seenDirs, seenEntries>>
  PROVE  Quiet' /\ phase' # "done"
<1>2. PICK e, n : e = dir.path /\ n = Head(listing).name
  OBVIOUS
<1>3. /\ e \in Directories /\ e \in Dirs /\ w \in Paths /\ w = Append(e, n) /\ n = listing[1].name
      /\ 1 \in 1..Len(listing)
      /\ \A i \in 1..Len(listing') : i + 1 \in 1..Len(listing) /\ listing'[i] = listing[i + 1] /\ i + 1 # 1 /\ i \in Int
      /\ \A i \in 1..Len(listing) : i = 1 \/ (i - 1 \in 1..Len(listing') /\ listing'[i - 1] = listing[i])
  <2>1. /\ dir.path \in Directories /\ dir.path \in Dirs /\ w \in Paths
        /\ Head(listing) = listing[1] /\ 1 \in 1..Len(listing) /\ Head(listing).name \notin Odd
        /\ \A i \in 1..Len(Tail(listing)) : i + 1 \in 1..Len(listing) /\ Tail(listing)[i] = listing[i + 1] /\ i + 1 # 1
        /\ \A i \in 1..Len(listing) : i = 1 \/ (i - 1 \in 1..Len(Tail(listing)) /\ Tail(listing)[i - 1] = listing[i])
    BY EntryHere
  <2>2. \A k : \A i \in 1..k : i \in Int
    OBVIOUS
  <2>3. PICK list : list = Tail(listing)
    OBVIOUS
  <2>4. listing' = list
    BY <2>3
  <2> QED
    BY <1>2, <2>1, <2>2, <2>3, <2>4
<1>8. Here' = Here /\ Dirs' = Dirs
  BY HereSame
<1>9. ASSUME NEW d \in Dirs PROVE Waits(d)' <=> Waits(d)
  <2>1. PICK list, pend, ch : list = listing' /\ pend = pending /\ ch = children
    OBVIOUS
  <2>2. Waits(d)' <=> \/ \E i \in 1..Len(pend) : Within(pend[i], d)
                      \/ \E i \in 1..Len(ch) : Within(ch[i], d)
                      \/ \E i \in 1..Len(list) : Within(Append(e, list[i].name), d)
    <3>1. phase' = "entries" /\ dir'.path = e /\ pending' = pend /\ children' = ch
      BY <1>2, <2>1
    <3> QED
      BY <2>1, <3>1 DEF Waits, Within, Under
  <2>3. Waits(d) <=> \/ \E i \in 1..Len(pend) : Within(pend[i], d)
                     \/ \E i \in 1..Len(ch) : Within(ch[i], d)
                     \/ \E i \in 1..Len(listing) : Within(Append(e, listing[i].name), d)
    BY <1>2, <2>1 DEF Waits
  <2>4. ~Within(w, d)
    BY <1>2, <1>3, EntryLeads
  <2>5. (\E i \in 1..Len(listing) : Within(Append(e, listing[i].name), d))
          <=> (\E i \in 1..Len(list) : Within(Append(e, list[i].name), d))
    <3>1. ASSUME NEW i \in 1..Len(listing), Within(Append(e, listing[i].name), d)
          PROVE  \E k \in 1..Len(list) : Within(Append(e, list[k].name), d)
      <4>1. i # 1
        BY <1>3, <2>4, <3>1
      <4> QED
        BY <1>3, <2>1, <3>1, <4>1
    <3>2. ASSUME NEW i \in 1..Len(list), Within(Append(e, list[i].name), d)
          PROVE  \E k \in 1..Len(listing) : Within(Append(e, listing[k].name), d)
      BY <1>3, <2>1, <3>2
    <3> QED
      BY <3>1, <3>2
  <2> QED
    BY <2>2, <2>3, <2>5
<1>10. Counted'
  BY <1>9, CountedStays DEF Quiet
<1>11. source' = source /\ fs' = fs /\ Discovered' = Discovered /\ \A p : DirectoryAt(p)' <=> DirectoryAt(p)
  BY SameWorld
<1>12. InPlace'
  <2>1. PendingOK' /\ DirOK' /\ ChildrenOK'
    BY <1>8 DEF Quiet, InPlace, PendingOK, DirOK, ChildrenOK
  <2>4. \A i \in 1..Len(listing') : ListedRight(listing'[i], e)
    BY <1>2, <1>3 DEF Quiet, InPlace, ListingOK
  <2>5. ListingOK'
    BY <1>2, <1>11, <2>4 DEF ListingOK, ListedRight
  <2> QED
    BY <2>1, <2>5 DEF InPlace
<1>13. Separate'
  <2>1. PendingApart' /\ DirApart' /\ ChildrenApart'
    BY DEF Quiet, Separate, PendingApart, DirApart, ChildrenApart, Within, Under
  <2>4. \A i, j \in 1..Len(listing) : listing[i].name = listing[j].name => i = j
    BY DEF Quiet, Separate, ListingApart
  <2>5. \A i, j \in 1..Len(listing') : listing'[i].name = listing'[j].name => i = j
    <3>1. ASSUME NEW i \in 1..Len(listing'), NEW j \in 1..Len(listing'), listing'[i].name = listing'[j].name
          PROVE  i = j
      <4>0. /\ i + 1 \in 1..Len(listing) /\ listing'[i] = listing[i + 1]
            /\ j + 1 \in 1..Len(listing) /\ listing'[j] = listing[j + 1]
        BY <1>3
      <4>1. i + 1 = j + 1
        BY <2>4, <3>1, <4>0
      <4> QED
        BY <1>3, <4>1
    <3> QED
      BY <3>1
  <2>6. \A i \in 1..Len(children), j \in 1..Len(listing') : children[i] # Append(e, listing'[j].name)
    BY <1>2, <1>3 DEF Quiet, Separate, ListingApart
  <2>9. ListingApart'
    BY <1>2, <2>5, <2>6 DEF ListingApart
  <2> QED
    BY <2>1, <2>9 DEF Separate
<1>14. RulesOpened'
  BY <1>11 DEF Quiet, RulesOpened
<1>15. ExplicitSound'
  BY <1>11 DEF Quiet, ExplicitSound
<1> QED
  BY <1>10, <1>12, <1>13, <1>14, <1>15 DEF Quiet

\* An entry is looked at.
LEMMA QuietEntry ==
  ASSUME CInv, Quiet, UNCHANGED world, Entry
  PROVE  IF phase' = "done" THEN QInv' ELSE Quiet'
<1>1. phase = "entries" /\ listing # <<>>
  BY DEF Entry
<1>2. PICK w : w = Append(dir.path, Head(listing).name)
  OBVIOUS
<1>3. source' = source /\ Discovered' = Discovered
  BY SameWorld
<1>4. CASE Child(w) /\ Recursive /\ DirectoryAt(w)
  BY <1>1, <1>2, <1>4, QuietChild
<1>5. CASE PassOver /\ ~(Recursive /\ DirectoryAt(w))
  <2>1. /\ listing' = Tail(listing) /\ files' = files
        /\ UNCHANGED <<phase, todo, explicit, rule, pending, dir, children, seenDirs, seenEntries>>
    BY <1>5 DEF PassOver, counts
  <2>2. FilesSound'
    BY <1>3, <2>1 DEF Quiet, FilesSound
  <2> QED
    BY <1>1, <1>2, <1>5, <2>1, <2>2, QuietPast
<1>6. CASE Record(w) /\ Matches(w) /\ fs[w].type = "file" /\ ~DirectoryAt(w)
  <2>1. dir.path \in Directories /\ dir.path \in Dirs /\ w \in Paths /\ fs[w] # None
    BY <1>1, <1>2, EntryHere
  <2>2. rule \in AllRules /\ Here = source.rules[rule]
    BY <1>1, RuleHere
  <2>3. w \in Discovered
    <3>1. PICK e, n : e = dir.path /\ n = Head(listing).name
      OBVIOUS
    <3>2. Front(w) = e
      BY <1>2, <2>1, <3>1, EntryPlace
    <3>3. w \in FilesOf(source.rules[rule])
      BY <1>6, <2>1, <2>2, <3>1, <3>2 DEF FilesOf, EntriesOf, Exists, Matches, Dirs
    <3> QED
      BY <2>2, <3>3 DEF Discovered
  <2>4. CASE w \notin DOMAIN files /\ Cardinality(DOMAIN files) >= MaxFiles
    <3>1. Fail("TooManyFiles")
      BY <1>6, <2>4 DEF Record
    <3>2. DOMAIN files \in SUBSET Complete /\ w \in Complete /\ IsFiniteSet(Complete)
      BY <2>3, CompleteFinite DEF Quiet, FilesSound, Complete, CInv, DInv
    <3>3. Cardinality(DOMAIN files) + 1 <= Cardinality(Complete) /\ Cardinality(DOMAIN files) \in Nat /\ Cardinality(Complete) \in Nat
      BY <2>4, <3>2, OneMoreOf
    <3>4. ~(Cardinality(Complete) <= MaxFiles)
      BY <2>4, <3>3, LimitsAssumption
    <3>5. phase' = "done"
      BY <3>1 DEF Fail, Return
    <3> QED
      BY <3>1, <3>4, <3>5, FailsRightly DEF WithinLimits
  <2>5. CASE ~(w \notin DOMAIN files /\ Cardinality(DOMAIN files) >= MaxFiles)
    <3>1. /\ listing' = Tail(listing)
          /\ files' = IF w \in DOMAIN files THEN files ELSE With(files, w, FileAt(w))
          /\ UNCHANGED <<phase, todo, explicit, rule, pending, dir, children, seenDirs, seenEntries>>
      BY <1>6, <2>5 DEF Record, counts
    <3>2. DOMAIN files' \subseteq DOMAIN files \cup {w}
      BY <3>1 DEF With
    <3>3. FilesSound'
      BY <1>3, <2>3, <3>2 DEF Quiet, FilesSound
    <3> QED
      BY <1>1, <1>2, <1>6, <3>1, <3>3, QuietPast
  <2> QED
    BY <2>4, <2>5
<1> QED
  BY <1>2, <1>4, <1>5, <1>6, EntryOutcome

\* A file the rules lead to is one they allow, and its name is UTF-8.
LEMMA DiscoveredSteady ==
  ASSUME TypeOK, touched = {}, NEW i \in AllRules, NEW p \in FilesOf(source.rules[i])
  PROVE  Steady(p) /\ Allows(source.rules[i], p)
<1>1. PICK r : r = source.rules[i]
  OBVIOUS
<1>2. r \in Rules /\ r.dir \in Directories
  BY <1>1, HereRight
<1>3. p \in Paths /\ Exists(p) /\ Front(p) \in DirectoriesOf(r) /\ fs[p].type = "file" /\ Last(p) \in r.names
  BY <1>1 DEF FilesOf, EntriesOf
<1>4. PICK e, n, c : e = Front(p) /\ n = Last(p) /\ c = r.dir
  OBVIOUS
<1>5. e \in Directories /\ n \in Names /\ p = Append(e, n)
  BY <1>3, <1>4, PathIsEntry
<1>6. /\ Within(c, e) /\ (e = c \/ r.recursive) /\ c \in Directories
      /\ \A k \in (Len(c) + 1)..Len(e) : e[k] \notin Odd
  BY <1>2, <1>3, <1>4, InDirectoriesOf
<1>7. n \notin Odd
  BY <1>2, <1>3, <1>4 DEF Rules
<1>8. \A k \in DOMAIN c : c[k] \notin Odd
  BY <1>1, <1>4, ConfiguredAreUtf8 DEF TypeOK, AllRules
<1>9. e \in Seq(Names) /\ c \in Seq(Names) /\ p \in Seq(Names)
  BY <1>3, <1>5, <1>6, PathsAreSequences
<1>10. PICK m \in Nat, l \in Nat : m = Len(c) /\ l = Len(e)
  <2>1. Len(c) \in Nat /\ Len(e) \in Nat
    BY <1>9
  <2> QED
    BY <2>1
<1>11. Len(p) = l + 1 /\ p[l + 1] = n /\ \A k \in 1..l : p[k] = e[k]
  BY <1>5, <1>9, <1>10
<1>12. \A k \in 1..m : k <= l => e[k] = c[k]
  <2>1. CASE e = c
    BY <2>1
  <2>2. CASE Under(c, e)
    <3>1. SubSeq(e, 1, m) = c /\ l > m
      BY <1>10, <2>2 DEF Under
    <3>2. \A k \in 1..m : SubSeq(e, 1, m)[k] = e[k]
      BY <1>9, <1>10, <3>1
    <3> QED
      BY <3>1, <3>2
  <2> QED
    BY <1>6, <2>1, <2>2 DEF Within
<1>13. \A k \in 1..m : c[k] \notin Odd
  BY <1>8, <1>9, <1>10
<1>14. \A k \in 1..(l + 1) : k = l + 1 \/ (k \in 1..l /\ (k \in (m + 1)..l \/ (k \in 1..m /\ k <= l)))
  BY ONLY m \in Nat, l \in Nat
<1>15. \A k \in 1..(l + 1) : p[k] \notin Odd
  <2>1. \A k \in (m + 1)..l : e[k] \notin Odd
    BY <1>6, <1>10
  <2>2. \A k \in 1..m : k <= l => e[k] \notin Odd
    BY <1>12, <1>13
  <2> QED
    BY <1>7, <1>11, <1>14, <2>1, <2>2
<1>16. Utf8(p)
  BY <1>9, <1>11, <1>15 DEF Utf8
<1>17. Steady(p)
  BY <1>3, <1>16 DEF Steady, LeftAlone, Exists
<1>18. Under(c, p)
  <2>1. Under(e, p)
    BY <1>3, <1>5, EntryPlace
  <2>2. p \in Directories
    BY <1>3 DEF Directories
  <2> QED
    BY <1>5, <1>6, <2>1, <2>2, WithinWithin
<1>19. r.recursive \/ Len(p) = Len(c) + 1
  BY <1>6, <1>10, <1>11
<1> QED
  BY <1>1, <1>3, <1>4, <1>17, <1>18, <1>19 DEF Allows

\* When the walk is over everything was counted, opened and found.
LEMMA AllCounted ==
  ASSUME CInv, Quiet, touched = {},
         phase \in {"explicit", "walk"}, todo = <<>>, pending = <<>>, rule = Len(source.rules)
  PROVE  AllThere /\ DOMAIN explicit = Range(source.explicit) /\ DOMAIN files = Discovered
         /\ Cardinality(ToWalk) <= MaxDirectories /\ Cardinality(ToList) <= MaxEntries
<1>1. AllRules = 1..rule /\ rule \in Nat
  BY HereRight DEF CInv, DInv
<1>2. \A d : ~Waits(d)
  BY NothingWaits
<1>3. \A i \in 1..rule : i < rule \/ i = rule
  BY <1>1
<1>4. WalkedDirs = ToWalk
  BY <1>1, <1>2, <1>3, InToWalk DEF WalkedDirs
<1>5. ListedEntries = ToList
  BY <1>1, <1>2, <1>3, InToWalk DEF ListedEntries
<1>6. Cardinality(ToWalk) <= MaxDirectories /\ Cardinality(ToList) <= MaxEntries
  <2>1. seenDirs <= MaxDirectories
    BY LimitsAssumption DEF CInv, DInv, TypeOK
  <2> QED
    BY <1>4, <1>5, <2>1 DEF Quiet, Counted
<1>7. source.explicit \in Seq(Paths) /\ DOMAIN source.explicit = 1..Len(source.explicit) /\ Len(todo) = 0
  <2>1. source.explicit \in Seq(Paths)
    BY SourcesAssumption DEF CInv, DInv, TypeOK
  <2> QED
    BY <2>1
<1>8. \A i \in DOMAIN source.explicit : source.explicit[i] \in DOMAIN explicit
  BY <1>7 DEF CInv, ExplicitCovered
<1>9. \A p \in DOMAIN explicit : RegularAt(p) # {}
  <2>1. \A p \in DOMAIN explicit : p \in Paths /\ StillThere(p, explicit[p])
    BY DEF CInv, DInv, Reopen, LeftAlone
  <2> QED
    BY <2>1 DEF StillThere, RegularAt, Exists
<1>10. AllThere
  BY <1>1, <1>8, <1>9 DEF AllThere, Quiet, RulesOpened
<1>11. DOMAIN explicit = Range(source.explicit)
  BY <1>8 DEF Range, Quiet, ExplicitSound
<1>12. ASSUME NEW p \in Discovered PROVE p \in DOMAIN files
  <2>1. PICK i \in AllRules : p \in FilesOf(source.rules[i])
    BY DEF Discovered
  <2>2. Steady(p) /\ Allows(source.rules[i], p)
    BY <2>1, DiscoveredSteady DEF CInv, DInv
  <2>3. ~Ahead(p)
    <3>1. Len(pending) = 0
      OBVIOUS
    <3> QED
      BY <3>1 DEF Ahead, ByPending, ByRead, ByChildren, ByListing
  <2> QED
    BY <1>1, <2>2, <2>3 DEF CInv, RulesCovered, Covered, Steady
<1>13. DOMAIN files = Discovered
  BY <1>12 DEF Quiet, FilesSound
<1> QED
  BY <1>6, <1>10, <1>11, <1>13

\* The files are merged: they are the files of the configuration.
LEMMA QuietFinish ==
  ASSUME CInv, Quiet, touched = {}, UNCHANGED world, Finish
  PROVE  QInv'
<1>1. phase \in {"explicit", "walk"} /\ todo = <<>> /\ pending = <<>> /\ rule = Len(source.rules)
  BY DEF Finish
<1>2. /\ AllThere /\ DOMAIN explicit = Range(source.explicit) /\ DOMAIN files = Discovered
      /\ Cardinality(ToWalk) <= MaxDirectories /\ Cardinality(ToList) <= MaxEntries
  BY <1>1, AllCounted
<1>3. PICK m : m = Merged(explicit, files)
  OBVIOUS
<1>4. DOMAIN m = Complete
  BY <1>2, <1>3, MapsOfFiles DEF Complete
<1>5. Cardinality(Complete) \in Nat
  BY CompleteFinite, FS_CardinalityType DEF CInv, DInv
<1>6. CASE Cardinality(Complete) > MaxFiles
  <2>1. Fail("TooManyFiles")
    BY <1>3, <1>4, <1>6 DEF Finish
  <2>2. ~(Cardinality(Complete) <= MaxFiles)
    BY <1>5, <1>6, LimitsAssumption
  <2> QED
    BY <2>1, <2>2, FailsRightly DEF WithinLimits
<1>7. CASE ~(Cardinality(Complete) > MaxFiles)
  <2>1. phase' = "done" /\ answer' = [files |-> m]
    BY <1>3, <1>4, <1>7 DEF Finish, Return
  <2>2. Cardinality(Complete) <= MaxFiles
    BY <1>5, <1>7, LimitsAssumption
  <2>3. AllThere' /\ WithinLimits' /\ Complete' = Complete
    BY <1>2, <2>2, SameWorld DEF WithinLimits
  <2>4. "files" \in DOMAIN answer' /\ answer'.files = m
    BY <2>1
  <2>5. Succeeded' /\ Found' = Complete'
    BY <1>4, <2>1, <2>3, <2>4 DEF Succeeded, Done, Found
  <2> QED
    BY <2>1, <2>3, <2>5 DEF QInv, QuietTreeExact
<1> QED
  BY <1>6, <1>7

\* As long as nothing changes but the size of files.
LEMMA QuietStays ==
  ASSUME QInv, UNCHANGED <<source, touched, phase, todo, explicit, rule, pending, dir, listing, children,
                           files, seenDirs, seenEntries, answer>>,
         \A p \in Paths : (fs'[p] # None <=> fs[p] # None) /\ (fs[p] # None => fs'[p].type = fs[p].type)
  PROVE  QInv'
<1> SUFFICES ASSUME touched' = {} PROVE (phase' # "done" => Quiet') /\ QuietTreeExact'
  BY DEF QInv
<1>1. (phase # "done" => Quiet) /\ QuietTreeExact
  BY DEF QInv
<1>2. /\ \A p : DirectoryAt(p)' <=> DirectoryAt(p)
      /\ \A r : DirectoriesOf(r)' = DirectoriesOf(r)
      /\ ToWalk' = ToWalk /\ ToList' = ToList
      /\ Discovered' = Discovered /\ Complete' = Complete
      /\ AllThere' <=> AllThere
      /\ WithinLimits' <=> WithinLimits
  BY SameTree
<1>3. QuietTreeExact'
  BY <1>1, <1>2 DEF QuietTreeExact, Succeeded, Done, Found
<1>4. Here' = Here /\ Dirs' = Dirs
  <2>1. Here' = Here
    BY DEF Here
  <2>2. PICK r : r = Here
    OBVIOUS
  <2>3. DirectoriesOf(r)' = DirectoriesOf(r)
    BY <1>2
  <2>4. Dirs' = Dirs
    BY <1>2, <2>1, <2>2, <2>3 DEF Dirs, DirectoriesOf
  <2> QED
    BY <2>1, <2>4
<1>5. ASSUME Quiet PROVE Quiet'
  <2>1. \A d : Waits(d)' <=> Waits(d)
    BY DEF Waits, Within, Under
  <2>2. WalkedDirs' = WalkedDirs
    BY <1>2, <2>1 DEF WalkedDirs
  <2>3. ListedEntries' = ListedEntries
    <3>1. \A v : Waits(Front(v[2]))' <=> Waits(Front(v[2]))
      BY DEF Waits, Within, Under
    <3> QED
      BY <1>2, <3>1 DEF ListedEntries
  <2>4. Counted'
    BY <1>5, <2>2, <2>3 DEF Quiet, Counted
  <2>5. PendingOK' /\ DirOK' /\ ChildrenOK'
    BY <1>4, <1>5 DEF Quiet, InPlace, PendingOK, DirOK, ChildrenOK
  <2>6. ListingOK'
    <3>1. \A entry, e : ListedRight(entry, e) => ListedRight(entry, e)'
      BY DEF ListedRight
    <3>2. ASSUME phase = "entries", NEW i \in 1..Len(listing) PROVE ListedRight(listing[i], dir.path)'
      <4>1. PICK entry, e : entry = listing[i] /\ e = dir.path
        OBVIOUS
      <4>2. ListedRight(entry, e)'
        BY <1>5, <3>1, <3>2, <4>1 DEF Quiet, InPlace, ListingOK
      <4> QED
        BY <4>1, <4>2 DEF ListedRight
    <3> QED
      BY <3>2 DEF ListingOK
  <2>7. Separate'
    BY <1>5 DEF Quiet, Separate, PendingApart, DirApart, ChildrenApart, ListingApart, Within, Under
  <2>8. FilesSound' /\ ExplicitSound' /\ RulesOpened'
    BY <1>2, <1>5 DEF Quiet, FilesSound, ExplicitSound, RulesOpened
  <2> QED
    BY <2>4, <2>5, <2>6, <2>7, <2>8 DEF Quiet, InPlace
<1> QED
  BY <1>1, <1>3, <1>5

\* The walk starts with nothing counted, and nothing it comes to.
LEMMA QuietInit == Init => QInv
<1> SUFFICES ASSUME Init PROVE QInv
  OBVIOUS
<1>1. /\ phase = "explicit" /\ rule = 0 /\ pending = <<>> /\ listing = <<>> /\ children = <<>>
      /\ seenDirs = 0 /\ seenEntries = 0 /\ todo = source.explicit
      /\ DOMAIN explicit = {} /\ DOMAIN files = {}
  BY DEF Init, Empty
<1>2. AllRules = 1..Len(source.rules) /\ Len(source.rules) \in Nat /\ TypeOK
  BY TypeInit, HereRight
<1>3. \A i \in AllRules : ~(i < 0) /\ i # 0
  BY <1>2
<1>4. WalkedDirs = {} /\ ListedEntries = {}
  BY <1>1, <1>3, InToWalk DEF WalkedDirs, ListedEntries
<1>5. Counted
  BY <1>1, <1>4, FS_EmptySet, LimitsAssumption DEF Counted
<1>6. Len(pending) = 0
  BY <1>1
<1>7. InPlace /\ Separate
  BY <1>1, <1>6 DEF InPlace, PendingOK, DirOK, ChildrenOK, ListingOK,
                    Separate, PendingApart, DirApart, ChildrenApart, ListingApart
<1>8. \A i \in 1..Len(todo) : todo[i] \in Range(source.explicit)
  <2>1. source.explicit \in Seq(Paths)
    BY <1>2, SourcesAssumption DEF TypeOK
  <2> QED
    BY <1>1, <2>1 DEF Range
<1>9. FilesSound /\ ExplicitSound /\ RulesOpened
  BY <1>1, <1>8 DEF FilesSound, ExplicitSound, RulesOpened
<1>10. ~Done
  BY <1>1 DEF Done
<1> QED
  BY <1>5, <1>7, <1>9, <1>10 DEF QInv, Quiet, QuietTreeExact

\* Whatever the walk does next.
LEMMA QuietStep == CInv /\ QInv /\ Step /\ UNCHANGED world => QInv'
<1> SUFFICES ASSUME CInv, QInv, Step, UNCHANGED world, touched' = {} PROVE QInv'
  BY DEF QInv
<1>1. touched = {}
  BY DEF world
<1>2. phase # "done"
  BY DEF Step, OpenExplicit, NextRule, OpenDirectory, ReadDirectory, Entry, EndDirectory, Finish
<1>3. Quiet
  BY <1>1, <1>2 DEF QInv
<1>4. ASSUME IF phase' = "done" THEN QInv' ELSE Quiet' PROVE QInv'
  BY <1>4 DEF QInv, QuietTreeExact, Done
<1>5. CASE OpenExplicit
  BY <1>3, <1>4, <1>5, QuietOpenExplicit
<1>6. CASE NextRule
  <2>1. phase' # "done"
    BY <1>6 DEF NextRule
  <2> QED
    BY <1>3, <1>4, <1>6, <2>1, QuietNextRule
<1>7. CASE OpenDirectory
  BY <1>3, <1>4, <1>7, QuietOpenDirectory
<1>8. CASE ReadDirectory
  BY <1>1, <1>3, <1>4, <1>8, QuietReadDirectory
<1>9. CASE Entry
  BY <1>3, <1>4, <1>9, QuietEntry
<1>10. CASE EndDirectory
  <2>1. phase' # "done"
    BY <1>10 DEF EndDirectory
  <2> QED
    BY <1>3, <1>4, <1>10, <2>1, QuietEndDirectory
<1>11. CASE Finish
  BY <1>1, <1>3, <1>11, QuietFinish
<1> QED
  BY <1>5, <1>6, <1>7, <1>8, <1>9, <1>10, <1>11 DEF Step

\* While nobody touched the tree other programs only made files longer.
LEMMA QuietOthers == TypeOK /\ QInv /\ Environment => QInv'
<1> SUFFICES ASSUME TypeOK, QInv, Environment, touched' = {} PROVE QInv'
  BY DEF QInv
<1>1. \A p \in Paths : LeftAlone(p)'
  BY DEF LeftAlone
<1>2. touched = {}
  BY DEF Environment, Create, Delete, Rename, Grow, Others
<1>3. UNCHANGED <<source, phase, todo, explicit, rule, pending, dir, listing, children, files,
                  seenDirs, seenEntries, answer>>
  BY LeftAloneKeeps DEF walk, counts
<1>4. \A p \in Paths : (fs'[p] # None <=> fs[p] # None) /\ (fs[p] # None => fs'[p].type = fs[p].type)
  BY <1>1, LeftAloneKeeps
<1> QED
  BY <1>2, <1>3, <1>4, QuietStays

\* In a tree nobody touches a snapshot has exactly the configured files, and the walk
\* fails exactly when something is missing or a limit is exceeded.
THEOREM QuietWalkExact == Spec => []QuietTreeExact
<1>1. CInv /\ QInv /\ [Next]_vars => QInv'
  <2> SUFFICES ASSUME CInv, QInv, [Next]_vars PROVE QInv'
    OBVIOUS
  <2>1. CASE Step /\ UNCHANGED world
    BY <2>1, QuietStep
  <2>2. CASE Environment
    BY <2>2, QuietOthers DEF CInv, DInv
  <2>3. CASE UNCHANGED vars
    <3>1. UNCHANGED <<source, fs, touched, phase, todo, explicit, rule, pending, dir, listing, children,
                      files, seenDirs, seenEntries, answer>>
      BY <2>3 DEF vars, world, walk, counts
    <3> QED
      BY <3>1, QuietStays
  <2> QED
    BY <2>1, <2>2, <2>3 DEF Next
<1>2. QInv => QuietTreeExact
  BY DEF QInv, QuietTreeExact
<1> QED
  BY <1>1, <1>2, QuietInit, CoverInvariant, PTL DEF Spec
=============================================================================
