----------------------------- MODULE Discovery -----------------------------
(***************************************************************************)
(* ConfiguredSource::snapshot_files of src/src/source_registry.rs: the     *)
(* explicit files of a source are opened, then discover_regular_files of   *)
(* source_discovery.rs walks the directories of its rules, each object     *)
(* opened by its path through safe_fs.rs.  Programs that create, remove    *)
(* and rename entries work on the tree between any two system calls.       *)
(*                                                                         *)
(* A path is the sequence of its names below the source root, <<>> is the  *)
(* root (".").  What a name is made of only matters for two questions: is  *)
(* it UTF-8, and does it end with a suffix of the rule.                    *)
(***************************************************************************)
EXTENDS Integers, Sequences, SequencesExt, FiniteSets, Functions

CONSTANTS
  None,
  NameOrder,       \* the names of entries in byte order
  Odd,             \* those that are not UTF-8
  Depth,           \* bound: the longest path
  Sources,         \* the sources as configured: [explicit, rules]
  Trees,           \* the trees a walk may find
  FirstInode,      \* inode numbers from here on are given out during the walk
  Touchable,       \* bound: the paths other programs work on
  MaxEvents,       \* bound: how often they do
  MaxFiles,        \* the max_files of the call
  MaxEntries,      \* MAX_DISCOVERY_ENTRIES
  MaxDirectories   \* MAX_DISCOVERY_DIRECTORIES

Names == Range(NameOrder)
Root == <<>>
Paths == UNION {[1..n -> Names] : n \in 1..Depth}

ASSUME NamesAssumption ==
  NameOrder \in Seq(Names) /\ IsInjective(NameOrder) /\ Depth \in Nat

\* Explicit files are paths of the configuration; the names of a rule are those
\* that end with one of its include_suffixes.
ASSUME SourcesAssumption ==
  Sources \subseteq
    [explicit : Seq(Paths),
     rules : Seq([dir : Paths \cup {Root}, recursive : BOOLEAN, names : SUBSET (Names \ Odd)])]
\* The configuration is UTF-8 text.
ASSUME ConfiguredAreUtf8 ==
  \A s \in Sources : \A i \in DOMAIN s.rules :
    \A k \in DOMAIN s.rules[i].dir : s.rules[i].dir[k] \notin Odd
\* snapshot_files refuses a max_files of 0.
ASSUME LimitsAssumption ==
  MaxFiles \in Nat \ {0} /\ MaxEntries \in Nat /\ MaxDirectories \in Nat

\* What a path may lead to.  "other" stands for pipes, sockets and devices.
Types == {"file", "dir", "link", "other"}
NodesBefore(inode) == [type : Types, id : 1..(inode - 1), size : Nat]
Nodes == [type : Types, id : Nat, size : Nat]

\* What lies in a tree lies in directories, and nothing lies there twice: there
\* are no hard links.
InDirectories(tree) ==
  \A p \in Paths : tree[p] # None =>
    \A n \in 1..(Len(p) - 1) : tree[SubSeq(p, 1, n)] # None /\ tree[SubSeq(p, 1, n)].type = "dir"
NoHardLinks(tree) ==
  \A p, q \in Paths : tree[p] # None /\ tree[q] # None /\ tree[p].id = tree[q].id => p = q

ASSUME TreesAssumption ==
  /\ FirstInode \in Nat \ {0}
  /\ None \notin Nodes
  /\ Trees \subseteq [Paths -> NodesBefore(FirstInode) \cup {None}]
  /\ \A tree \in Trees : InDirectories(tree) /\ NoHardLinks(tree)
ASSUME TouchableAssumption == Touchable \subseteq Paths

VARIABLES
  \* the source and the file system
  source,    \* the configuration of the source
  typed,     \* the file system reports the types of directory entries
  fs,        \* what each path leads to, None for nothing
  made,      \* how many objects were ever made: the next inode number
  touched,   \* the paths that were created, removed or renamed during the walk
  events,    \* how often that was
  \* the call of snapshot_files
  phase,     \* "explicit", "walk", "read", "entries" or "done"
  todo,      \* explicit files still to be opened
  explicit,  \* the explicit files opened: their identity and size by path
  rule,      \* the number of the rule that is walked, 0 before the first
  pending,   \* directories still to be walked, the next one in front
  dir,       \* the directory that is walked: its path and the inode that is open
  listing,   \* its entries still to be looked at
  children,  \* its directories found so far
  files,     \* the files discovered: their identity and size by path
  seenDirs,  \* directories_seen
  seenEntries, \* entries_seen
  answer     \* what snapshot_files returns: an error or the files by path

world == <<source, typed, fs, made, touched, events>>
counts == <<seenDirs, seenEntries>>
walk == <<phase, todo, explicit, rule, pending, dir, listing, children, files, counts, answer>>
vars == <<world, walk>>

-----------------------------------------------------------------------------
(***************************************************************************)
(* Paths and the objects they lead to.                                     *)
(***************************************************************************)

Empty == [p \in {} |-> None]

\* Maps of files by path: g where f has none; f with one more or another.
Merged(f, g) == [p \in DOMAIN f \cup DOMAIN g |-> IF p \in DOMAIN f THEN f[p] ELSE g[p]]
With(f, p, file) == [q \in DOMAIN f \cup {p} |-> IF q = p THEN file ELSE f[q]]

Under(d, p) == Len(p) > Len(d) /\ SubSeq(p, 1, Len(d)) = d
Exists(p) == p \in Paths /\ fs[p] # None
DirectoryAt(p) == p = Root \/ (Exists(p) /\ fs[p].type = "dir")
InodeAt(p) == IF p = Root THEN 0 ELSE fs[p].id

\* Mutant: an open that follows links.
FollowLinks(p) ==
  IF Exists(p) /\ fs[p].type = "link"
  THEN {fs[q] : q \in {x \in Paths : Exists(x) /\ fs[x].type = "file"}}
  ELSE IF Exists(p) /\ fs[p].type = "file" THEN {fs[p]} ELSE {}

\* SafeRoot::open_regular_file: the file at p, unless p leads to nothing or to
\* something else.  Links are refused wherever they are on the path.
RegularAt(p) == IF Exists(p) /\ fs[p].type = "file" THEN {fs[p]} ELSE {}

FileAt(p) == LET f == CHOOSE n \in RegularAt(p) : TRUE IN [id |-> f.id, size |-> f.size]

\* The names in the directory whose inode is open, wherever it is by now; a
\* directory that was removed is empty.
NamesIn(inode) ==
  IF inode = 0 THEN {n \in Names : Exists(<<n>>)}
  ELSE {n \in Names : \E p \in Paths : Exists(p) /\ fs[p].id = inode /\ Exists(Append(p, n))}

\* The type readdir reports of an entry.
Reported(inode, n) ==
  LET place == IF inode = 0 THEN <<n>>
               ELSE Append(CHOOSE p \in Paths : Exists(p) /\ fs[p].id = inode, n)
  IN  IF typed THEN fs[place].type ELSE "unknown"

\* Mutant: a rule that allows only files in its directory itself.
AllowsHere(r, p) == Last(p) \in r.names /\ Under(r.dir, p) /\ Len(p) = Len(r.dir) + 1

\* directory_rule_allows
Allows(r, p) ==
  /\ Last(p) \in r.names
  /\ Under(r.dir, p)
  /\ r.recursive \/ Len(p) = Len(r.dir) + 1

\* ConfiguredSource::path_is_configured
PathIsConfigured(p) ==
  \/ \E i \in DOMAIN source.explicit : source.explicit[i] = p
  \/ \E i \in DOMAIN source.rules : Allows(source.rules[i], p)

\* ConfiguredSource::open_snapshot_file for a file of the answer, now.
OpenSnapshot(p) ==
  IF ~PathIsConfigured(p) THEN "PathNotConfigured"
  ELSE IF RegularAt(p) = {} THEN "FileUnavailable"
  ELSE IF FileAt(p).id # answer.files[p].id \/ FileAt(p).size < answer.files[p].size THEN "FileChanged"
  ELSE "Opened"

-----------------------------------------------------------------------------
(***************************************************************************)
(* snapshot_files.                                                         *)
(***************************************************************************)

Init ==
  /\ source \in Sources
  /\ typed \in BOOLEAN
  /\ fs \in Trees
  /\ made = FirstInode
  /\ touched = {} /\ events = 0
  /\ phase = "explicit"
  /\ todo = source.explicit
  /\ explicit = Empty /\ files = Empty
  /\ rule = 0
  /\ pending = <<>> /\ listing = <<>> /\ children = <<>>
  /\ dir = [path |-> Root, inode |-> 0]
  /\ seenDirs = 0 /\ seenEntries = 0
  /\ answer = None

Return(a) == phase' = "done" /\ answer' = a

\* The walk is given up: nothing found so far is returned.
Fail(code) ==
  /\ Return([error |-> code])
  /\ UNCHANGED <<todo, explicit, rule, pending, dir, listing, children, files, counts>>

OpenExplicit ==
  /\ phase = "explicit" /\ todo # <<>>
  /\ IF RegularAt(Head(todo)) = {} THEN Fail("ExplicitFileUnavailable")
     ELSE /\ explicit' = With(explicit, Head(todo), FileAt(Head(todo)))
          /\ todo' = Tail(todo)
          /\ UNCHANGED <<phase, rule, pending, dir, listing, children, files, counts, answer>>

\* The next rule starts with its own directory.
NextRule ==
  /\ phase \in {"explicit", "walk"} /\ todo = <<>> /\ pending = <<>>
  /\ rule < Len(source.rules)
  /\ phase' = "walk"
  /\ rule' = rule + 1
  /\ pending' = <<source.rules[rule + 1].dir>>
  /\ UNCHANGED <<todo, explicit, dir, listing, children, files, counts, answer>>

\* open_directory_fd for the next directory.
OpenDirectory ==
  /\ phase = "walk" /\ pending # <<>>
  /\ IF seenDirs >= MaxDirectories THEN Fail("TooManyDirectories")
     ELSE IF ~DirectoryAt(Head(pending)) THEN Fail("DirectoryOpen")
     ELSE /\ phase' = "read"
          /\ seenDirs' = seenDirs + 1
          /\ dir' = [path |-> Head(pending), inode |-> InodeAt(Head(pending))]
          /\ pending' = Tail(pending)
          /\ UNCHANGED <<todo, explicit, rule, listing, children, files, seenEntries, answer>>

\* Mutant: the limit is reached one entry too early.
TooManyAtLimit(n) == n >= MaxEntries

TooMany(n) == n > MaxEntries

\* Those of the names in byte order.
Sorted(names) ==
  LET upTo[i \in 0..Len(NameOrder)] ==
        IF i = 0 THEN <<>>
        ELSE IF NameOrder[i] \in names THEN Append(upTo[i - 1], NameOrder[i])
        ELSE upTo[i - 1]
  IN  upTo[Len(NameOrder)]

\* The directory is read to its end and its entries are sorted.
ReadDirectory ==
  /\ phase = "read"
  /\ LET found == Sorted(NamesIn(dir.inode))
     IN  IF TooMany(seenEntries + Len(found)) THEN Fail("TooManyEntries")
         ELSE /\ phase' = "entries"
              /\ seenEntries' = seenEntries + Len(found)
              /\ LET kept == Sorted(NamesIn(dir.inode) \ Odd)
                 IN  listing' = [i \in DOMAIN kept |->
                                  [name |-> kept[i], type |-> Reported(dir.inode, kept[i])]]
              /\ children' = <<>>
              /\ UNCHANGED <<todo, explicit, rule, pending, dir, files, seenDirs, answer>>

Recursive == source.rules[rule].recursive
Matches(p) == Last(p) \in source.rules[rule].names

\* A directory is to be walked, a file is recorded, an entry is passed over.
Child(p) ==
  /\ children' = Append(children, p)
  /\ listing' = Tail(listing)
  /\ UNCHANGED <<phase, todo, explicit, rule, pending, dir, files, counts, answer>>

Record(p) ==
  IF p \notin DOMAIN files /\ Cardinality(DOMAIN files) >= MaxFiles THEN Fail("TooManyFiles")
  ELSE /\ files' = IF p \in DOMAIN files THEN files ELSE With(files, p, FileAt(p))
       /\ listing' = Tail(listing)
       /\ UNCHANGED <<phase, todo, explicit, rule, pending, dir, children, counts, answer>>

PassOver ==
  /\ listing' = Tail(listing)
  /\ UNCHANGED <<phase, todo, explicit, rule, pending, dir, children, files, counts, answer>>

\* Whatever the entry was when it was listed, it is opened now: what is no longer
\* of its type ends the walk, except where no type was reported.
Entry ==
  /\ phase = "entries" /\ listing # <<>>
  /\ LET p == Append(dir.path, Head(listing).name)
         type == Head(listing).type
     IN  CASE type = "link" -> PassOver
           [] type = "dir" ->
                IF ~Recursive THEN PassOver
                ELSE IF DirectoryAt(p) THEN Child(p) ELSE Fail("DirectoryOpen")
           [] type = "file" ->
                IF ~Matches(p) THEN PassOver
                ELSE IF p \in DOMAIN files \/ RegularAt(p) # {} THEN Record(p)
                ELSE Fail("FileOpen")
           [] OTHER ->
                IF Recursive /\ DirectoryAt(p) THEN Child(p)
                ELSE IF Matches(p) /\ RegularAt(p) # {} THEN Record(p)
                ELSE PassOver

\* Mutant: the directories next to the one just read are forgotten.
OnlyDeeper(found, waiting) == found

\* The directories found are walked before those that wait.
Deeper(found, waiting) == found \o waiting

EndDirectory ==
  /\ phase = "entries" /\ listing = <<>>
  /\ pending' = Deeper(children, pending)
  /\ children' = <<>>
  /\ phase' = "walk"
  /\ UNCHANGED <<todo, explicit, rule, dir, listing, files, counts, answer>>

\* Explicit and discovered files are merged by path.
Finish ==
  /\ phase \in {"explicit", "walk"} /\ todo = <<>> /\ pending = <<>>
  /\ rule = Len(source.rules)
  /\ LET candidates == Merged(explicit, files)
     IN  IF Cardinality(DOMAIN candidates) > MaxFiles THEN Fail("TooManyFiles")
         ELSE /\ Return([files |-> candidates])
              /\ UNCHANGED <<todo, explicit, rule, pending, dir, listing, children, files, counts>>

Step ==
  \/ OpenExplicit \/ NextRule \/ OpenDirectory \/ ReadDirectory \/ Entry \/ EndDirectory
  \/ Finish

-----------------------------------------------------------------------------
(***************************************************************************)
(* Programs that work on the tree: they write logs, rotate them by rename, *)
(* and remove old ones.                                                    *)
(***************************************************************************)

Others(paths) ==
  /\ events < MaxEvents
  /\ events' = events + 1
  /\ touched' = touched \cup paths
  /\ UNCHANGED <<source, typed, walk>>

Create(p, type) ==
  /\ fs[p] = None /\ DirectoryAt(Front(p))
  /\ fs' = [fs EXCEPT ![p] = [type |-> type, id |-> made, size |-> 0]]
  /\ made' = made + 1
  /\ Others({p})

Delete(p) ==
  /\ Exists(p) /\ ~\E q \in Paths : Under(p, q) /\ Exists(q)
  /\ fs' = [fs EXCEPT ![p] = None]
  /\ Others({p}) /\ UNCHANGED made

\* rename(2) of a file over nothing or another file, of a directory with
\* everything in it.
Rename(p, q) ==
  /\ Exists(p) /\ p # q /\ ~Under(p, q) /\ DirectoryAt(Front(q))
  /\ fs[p].type = "dir" => ~Exists(q)
  /\ Exists(q) => fs[q].type # "dir"
  /\ LET Behind(x) == SubSeq(x, Len(p) + 1, Len(x))
         moved == {p} \cup {x \in Paths : Under(p, x)}
         place == [x \in moved |-> q \o Behind(x)]
     IN  /\ \A x \in moved : Exists(x) => place[x] \in Paths
         /\ fs' = [x \in Paths |->
                     IF x \in Range(place) THEN fs[CHOOSE y \in moved : place[y] = x]
                     ELSE IF x \in moved THEN None ELSE fs[x]]
         /\ Others({p, q})
  /\ UNCHANGED made

\* A file a program appends to keeps its name: it is not touched.
Grow(p) ==
  /\ Exists(p) /\ fs[p].type = "file"
  /\ fs' = [fs EXCEPT ![p].size = @ + 1]
  /\ Others({}) /\ UNCHANGED made

Environment ==
  \E p \in Touchable :
    \/ \E type \in {"file", "dir", "link"} : Create(p, type)
    \/ Delete(p)
    \/ \E q \in Touchable : Rename(p, q)
    \/ Grow(p)

Next == (Step /\ UNCHANGED world) \/ Environment

Spec == Init /\ [][Next]_vars

-----------------------------------------------------------------------------
(***************************************************************************)
(* Properties.                                                             *)
(***************************************************************************)

Done == phase = "done"
Succeeded == Done /\ "files" \in DOMAIN answer
Found == DOMAIN answer.files

\* The limits of the walk are never passed: not by its directories, nor by the
\* files it holds at any moment; and the paths it holds are paths below the root.
TypeOK ==
  /\ source \in Sources
  /\ fs \in [Paths -> Nodes \cup {None}] /\ made \in Nat
  /\ phase \in {"explicit", "walk", "read", "entries", "done"}
  /\ todo \in Seq(Paths)
  /\ rule \in 0..Len(source.rules)
  /\ pending \in Seq(Paths \cup {Root}) /\ children \in Seq(Paths \cup {Root})
  /\ dir.path \in Paths \cup {Root}
  /\ DOMAIN explicit \subseteq Paths
  /\ DOMAIN files \subseteq Paths
  /\ IsFiniteSet(DOMAIN files) /\ Cardinality(DOMAIN files) <= MaxFiles
  /\ seenDirs \in 0..MaxDirectories

\* A path whose entries stayed what they were, down from the root.
LeftAlone(p) == \A n \in 1..Len(p) : SubSeq(p, 1, n) \notin touched

Utf8(p) == \A i \in DOMAIN p : p[i] \notin Odd

\* The walk, said without walking: the directories of a rule, and its files.
DirectoriesOf(r) ==
  {d \in Paths \cup {Root} :
     /\ d = r.dir \/ (r.recursive /\ Under(r.dir, d))
     /\ \A i \in Len(r.dir)..Len(d) : DirectoryAt(SubSeq(d, 1, i))
     /\ \A i \in (Len(r.dir) + 1)..Len(d) : d[i] \notin Odd}
EntriesOf(r) == {p \in Paths : Exists(p) /\ Front(p) \in DirectoriesOf(r)}
FilesOf(r) == {p \in EntriesOf(r) : fs[p].type = "file" /\ Last(p) \in r.names}

\* What two rules lead to is walked twice, and counted twice.
AllRules == DOMAIN source.rules
ToWalk == UNION {{i} \X DirectoriesOf(source.rules[i]) : i \in AllRules}
ToList == UNION {{i} \X EntriesOf(source.rules[i]) : i \in AllRules}
Discovered == UNION {FilesOf(source.rules[i]) : i \in AllRules}
Complete == Range(source.explicit) \cup Discovered

\* A snapshot that succeeds has every file the source is configured for that
\* lay in its place throughout the walk, whatever was created, removed or
\* renamed beside it; and it has the file itself, not an earlier one.
NothingMissed ==
  Succeeded =>
    \A p \in Paths :
      (Exists(p) /\ fs[p].type = "file" /\ LeftAlone(p) /\ PathIsConfigured(p) /\ Utf8(p)) =>
        /\ p \in Found
        /\ answer.files[p].id = fs[p].id
        /\ answer.files[p].size <= fs[p].size

\* No file is in a snapshot under two paths, so that a search would return its
\* lines twice, unless it was renamed during the walk from the one to the other.
OneSnapshotPerFile ==
  Succeeded =>
    \A p, q \in Found :
      (p # q /\ answer.files[p].id = answer.files[q].id) => ~LeftAlone(p) /\ ~LeftAlone(q)

\* What discovery found and path_is_configured allows agree: every file of a
\* snapshot can be opened again by open_snapshot_file as long as nobody touches
\* it, and what is answered otherwise is never that it is not configured.
SnapshotsReopen ==
  Succeeded =>
    \A p \in Found :
      /\ OpenSnapshot(p) # "PathNotConfigured"
      /\ LeftAlone(p) => OpenSnapshot(p) = "Opened"

\* What the walk must be able to open, and the limits it must keep.
AllThere ==
  /\ \A i \in DOMAIN source.explicit : RegularAt(source.explicit[i]) # {}
  /\ \A i \in AllRules : DirectoryAt(source.rules[i].dir)
WithinLimits ==
  /\ Cardinality(Complete) <= MaxFiles
  /\ Cardinality(ToWalk) <= MaxDirectories
  /\ Cardinality(ToList) <= MaxEntries

\* In a tree nobody touches the walk returns the files of the configuration, no
\* more and no less, and it fails exactly when it must: an explicit file or the
\* directory of a rule is missing, or a limit is exceeded.
QuietTreeExact ==
  (Done /\ touched = {}) =>
    IF AllThere /\ WithinLimits THEN Succeeded /\ Found = Complete ELSE ~Succeeded
=============================================================================
