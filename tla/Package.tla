------------------------------- MODULE Package -------------------------------
(***************************************************************************)
(* build_package: the walk of the script's directory into a tar file and a *)
(* manifest, while the user may go on editing.  The walk lists one         *)
(* directory at a time, in whatever order the file system has; a file's    *)
(* size is read first and so many bytes of it afterwards.                  *)
(***************************************************************************)
EXTENDS Ordering, SequencesExt

CONSTANTS
  Root,       \* the script's directory
  Dirs,       \* the directories below it
  Parent,     \* the directory each of them is in
  Ignored,    \* the ones of an ignored name
  Skipped,    \* symbolic links to a directory and unreadable ones
  Names,      \* names of files
  Excluded,   \* names that are never packaged: secrets.toml, .pyc
  Specs,      \* requirements.txt and pyproject.toml
  Requirements, \* "requirements.txt"
  Contents,   \* what files may hold: records [version, size]
  Frozen,     \* the frozen requirements of the environment
  Trees,      \* what the directory may hold in the beginning: functions from
              \* paths <<dir, name>> to contents, NoFile where there is none
  NoFile,
  PathLess(_, _), \* the order of relative paths
  MaxChanges  \* bound on the changes that are made during the walk

ASSUME PackageAssumption ==
  /\ Root \notin Dirs /\ Parent \in [Dirs -> {Root} \cup Dirs]
  /\ Ignored \subseteq Dirs /\ Skipped \subseteq Dirs /\ Excluded \subseteq Names
  /\ Requirements \in Specs \ Excluded /\ Specs \subseteq Names /\ MaxChanges \in Nat

Paths == ({Root} \cup Dirs) \X Names

\* A content has a size, and nothing is none.
ASSUME ContentsAssumption ==
  /\ \A c \in Contents \cup {Frozen} :
       c = [version |-> c.version, size |-> c.size] /\ c.size \in Nat
  /\ NoFile \notin Contents
  /\ Trees \subseteq [Paths -> Contents \cup {NoFile}]

\* Relative paths are strings, one below the other.
ASSUME PathAssumption ==
  /\ \A p, q \in Paths : PathLess(p, q) => ~PathLess(q, p)
  /\ \A p, q \in Paths : p = q \/ PathLess(p, q) \/ PathLess(q, p)
  /\ \A p, q, r \in Paths : PathLess(p, q) /\ PathLess(q, r) => PathLess(p, r)

VARIABLES
  tree,     \* the directory as it is
  changes,  \* changes made during the walk
  walk,     \* "walking", "done" or "failed"
  dirs,     \* directories still to be listed
  listed,   \* history: directories that have been
  listing,  \* files of the present directory still to be packaged
  current,  \* the file being packaged and the size it was found to have
  tar,      \* members written so far, in that order: <<path, content>>
  manifest, \* the entries recorded so far: [path, size, hash]
  package   \* the finished package: [manifest, hash]

packageVars == <<tree, changes, walk, dirs, listed, listing, current, tar, manifest, package>>

PackageInit ==
  /\ tree \in Trees /\ changes = 0
  /\ walk = "walking" /\ dirs = {Root} /\ listed = {} /\ listing = {} /\ current = <<>>
  /\ tar = <<>> /\ manifest = <<>> /\ package = <<>>

\* A file is written, or removed.
Change ==
  /\ walk = "walking" /\ changes < MaxChanges /\ changes' = changes + 1
  /\ \E p \in Paths, c \in Contents \cup {NoFile} :
       c # tree[p] /\ tree' = [tree EXCEPT ![p] = c]
  /\ UNCHANGED <<walk, dirs, listed, listing, current, tar, manifest, package>>

Pruned_Not(found) == found

\* The directories the walk goes on to.
Pruned(found) == found \ Ignored

\* What is in a directory.  os.walk follows no links, and takes a directory it
\* may not read for an empty one.
FilesIn(d) == {p \in Paths : p[1] = d /\ d \notin Skipped /\ tree[p] # NoFile}
DirsIn(d) == {e \in Dirs : Parent[e] = d /\ d \notin Skipped}

\* os.walk lists a directory.
ListDir ==
  /\ walk = "walking" /\ current = <<>> /\ listing = {}
  /\ \E d \in dirs :
       /\ listing' = {p \in FilesIn(d) : p[2] \notin Excluded}
       /\ dirs' = (dirs \ {d}) \cup Pruned(DirsIn(d))
       /\ listed' = listed \cup {d}
  /\ UNCHANGED <<tree, changes, walk, current, tar, manifest, package>>

Fail == walk' = "failed"

\* stat: raises when the file is gone.
Stat ==
  /\ walk = "walking" /\ current = <<>>
  /\ \E p \in listing :
       /\ listing' = listing \ {p}
       /\ IF tree[p] = NoFile THEN Fail /\ UNCHANGED current
          ELSE current' = <<p, tree[p].size>> /\ UNCHANGED walk
  /\ UNCHANGED <<tree, changes, dirs, listed, tar, manifest, package>>

Hash_OfFile(p, size) == tree[p]

\* What _HashingReader has seen when size bytes have been read.
Hash(p, size) == [tree[p] EXCEPT !.size = size]

\* tar.addfile copies as many bytes as the header says; it raises when the
\* file is gone or has become shorter.
AddFile ==
  /\ walk = "walking" /\ current # <<>>
  /\ LET p == current[1]
         size == current[2]
     IN IF tree[p] = NoFile \/ tree[p].size < size
        THEN Fail /\ UNCHANGED <<tar, manifest>>
        ELSE /\ tar' = Append(tar, <<p, [tree[p] EXCEPT !.size = size]>>)
             /\ manifest' = Append(manifest, [path |-> p, size |-> size, hash |-> Hash(p, size)])
             /\ UNCHANGED walk
  /\ current' = <<>>
  /\ UNCHANGED <<tree, changes, dirs, listed, listing, package>>

IsSpec_AnyDir(path) == path[2] \in Specs
IsSpec(path) == path[1] = Root /\ path[2] \in Specs

Sorted_AsWalked(entries) == entries
ByPath(entries) ==
  {p \in ToSet(entries) \X ToSet(entries) : PathLess(p[1].path, p[2].path)}
Sorted(entries) == SortedBy(entries, ByPath(entries))

\* The walk is over: requirements are frozen if the directory names none, and
\* the sorted manifest is written and hashed.
Finish ==
  /\ walk = "walking" /\ current = <<>> /\ listing = {} /\ dirs = {}
  /\ LET p == <<Root, Requirements>>
         add == ~ \E i \in DOMAIN manifest : IsSpec(manifest[i].path)
         entry == [path |-> p, size |-> Frozen.size, hash |-> Frozen]
         entries == Sorted(manifest \o IF add THEN <<entry>> ELSE <<>>)
     IN /\ tar' = tar \o IF add THEN <<<<p, Frozen>>>> ELSE <<>>
        /\ manifest' = entries
        /\ package' = [manifest |-> entries,
                       hash |-> [i \in DOMAIN entries |-> <<entries[i].path, entries[i].hash>>]]
  /\ walk' = "done"
  /\ UNCHANGED <<tree, changes, dirs, listed, listing, current>>

PackageNext == Change \/ ListDir \/ Stat \/ AddFile \/ Finish

-----------------------------------------------------------------------------
(* Properties                                                              *)

\* The manifest describes what is in the tar file, size and hash, also of files
\* that are written while they are packaged.
ManifestMatchesTar ==
  {<<e.path, e.hash>> : e \in ToSet(manifest)} = ToSet(tar)
  /\ \A e \in ToSet(manifest) : e.size = e.hash.size

\* The package's hash is a function of what is packaged: two walks of the same
\* files have the same hash, in whatever order they have met them.
HashIgnoresOrder ==
  walk = "done" =>
    \A i, j \in DOMAIN package.hash : i < j => PathLess(package.hash[i][1], package.hash[j][1])

\* The builder finds one dependency file or more at the top, and never two
\* members of one name.
HasRequirements ==
  walk = "done" =>
    /\ \E m \in ToSet(tar) : m[1][1] = Root /\ m[1][2] \in Specs
    /\ \A i, j \in DOMAIN tar : tar[i][1] = tar[j][1] => i = j

\* The directories below the script's that are neither of an ignored name nor
\* inside one that is ignored or skipped.
Reachable(S) == /\ Root \in S
                /\ \A e \in Dirs \ Ignored : Parent[e] \in S \ Skipped => e \in S
Walked == {d \in {Root} \cup Dirs : \A S \in SUBSET ({Root} \cup Dirs) : Reachable(S) => d \in S}

\* A directory nobody touches is packaged as it is, at every depth, but for
\* what is ignored and what cannot be read.
PackageIsDirectory ==
  walk = "done" /\ changes = 0 =>
    {m \in ToSet(tar) : tree[m[1]] # NoFile} =
      {<<p, tree[p]>> : p \in {q \in Paths : tree[q] # NoFile /\ q[1] \in Walked \ Skipped
                                             /\ q[2] \notin Excluded}}
=============================================================================
