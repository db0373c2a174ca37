------------------------------ MODULE Workspace ------------------------------
(***************************************************************************)
(* The filesystem tool (fs.rs) over the one sandbox root of the daemon,    *)
(* its workspace, with the directory of a session in it that marshalld     *)
(* deletes and that the tool, which refuses the root only, may delete or   *)
(* move as well.  Calls overlap: the tool holds no lock, and each of its   *)
(* awaits is a job of the blocking pool that goes on when the call is      *)
(* dropped.                                                                *)
(*                                                                         *)
(* A path is the sequence of its names below the root, << >> the root; a   *)
(* file is the sequence of its pieces, and what the n-th call writes is    *)
(* the piece n.  There are no symbolic links, so that a path resolves to   *)
(* itself; what a path outside of the root resolves to is not modelled.    *)
(***************************************************************************)
EXTENDS Naturals, Sequences, SequencesExt, FiniteSets, FiniteSetsExt, Functions

CONSTANTS
  Workers,     \* calls that may overlap
  Paths,       \* the paths a call may name
  Home,        \* the directory of the session
  Writable,    \* FileSystemTool::writable
  ReadLimit,   \* read_limit, in pieces
  SearchLimit, \* the 1 MiB of a file that search looks at, in pieces
  MaxMatches,  \* the 1000 of search and glob
  Directory,   \* what a path holds that is not a file
  IoFaults,    \* fault model: may a read, a write or a removal fail half way
  MaxCalls     \* bound: calls of a behaviour

ASSUME WorkspaceAssumption ==
  /\ Paths \subseteq Seq(STRING) /\ IsFiniteSet(Paths) /\ << >> \in Paths
  /\ \A p \in Paths : \A k \in 1..Len(p) : SubSeq(p, 1, k) \in Paths
  /\ Home \in Paths /\ Len(Home) = 1
  /\ Directory \notin Seq(Nat)
  /\ {ReadLimit, SearchLimit, MaxMatches} \subseteq Nat \ {0} /\ MaxCalls \in Nat
  /\ Writable \in BOOLEAN /\ IoFaults \in BOOLEAN

VARIABLES
  files,    \* path -> Directory or the pieces of a file
  session,  \* the session is in AppState.sessions
  work,     \* worker -> its call
  calls     \* calls begun so far

workspaceVars == <<files, session, work, calls>>

\* The piece that patch and search look for.
Needle == 0

IsDir(tree, p) == p \in DOMAIN tree /\ tree[p] = Directory
IsFile(tree, p) == p \in DOMAIN tree /\ tree[p] # Directory
Under(tree, p) == {q \in DOMAIN tree : IsPrefix(p, q)}
Below(tree, p) == Under(tree, p) \ {p}
Put(tree, p, node) == [q \in DOMAIN tree \cup {p} |-> IF q = p THEN node ELSE tree[q]]
Cut(tree, gone) == Restrict(tree, DOMAIN tree \ gone)

\* at: the await the call is at; seen: what it read; before, alone, failed:
\* ghosts, the tree it began with and whether nothing disturbed it since.
NoCall == [op |-> "none", at |-> "idle", n |-> 0, path |-> << >>, dest |-> << >>, deep |-> FALSE,
           seen |-> << >>, dirs |-> {}, found |-> {}, before |-> << >>,
           alone |-> FALSE, failed |-> FALSE, answer |-> "none"]

WorkspaceInit ==
  /\ \E f \in {p \in Paths : Len(p) = 2 /\ IsPrefix(Home, p)} :
       files = [p \in {<< >>, Home, f} |-> IF p = f THEN <<Needle>> ELSE Directory]
  /\ session = TRUE
  /\ work = [w \in Workers |-> NoCall]
  /\ calls = 0

-----------------------------------------------------------------------------
(* Beginning a call: validate, the resolution of its paths and what execute *)
(* refuses before its first await.                                          *)

Exists(p) == p \in DOMAIN files                              \* resolve_existing
Creatable(p) == p # << >> /\ IsDir(files, Front(p))          \* resolve_for_create

Reads  == {"read", "stat", "list", "glob", "search"}
Writes == {"write", "append", "mkdir", "delete", "copy", "move", "patch"}

Accepted(op, p, dest) ==
  /\ op \in Writes => Writable
  /\ op \in Reads \cup {"delete", "copy", "move", "patch"} => Exists(p)
  /\ op \in {"write", "append", "mkdir"} => Creatable(p)
  /\ IF op \in {"copy", "move"} THEN Creatable(dest) ELSE dest = << >>

\* same_file, refused_move_root, refused_delete_root, not_a_directory
Refused(op, p, dest) ==
  \/ op = "copy" /\ p = dest
  \/ op \in {"move", "delete"} /\ p = << >>
  \/ op = "list" /\ ~IsDir(files, p)

\* The first await of each operation.
FirstAwait(op) ==
  CASE op = "write" -> "truncate"
    [] op \in {"append", "patch"} -> "read"
    [] op = "copy" -> "open"
    [] op = "delete" -> "remove"
    [] OTHER -> op

\* From now on the calls in progress share the tree: a call is alone as long as
\* those that overlap it only read.
Joins(w, call) ==
  /\ calls < MaxCalls /\ calls' = calls + 1
  /\ work' = [v \in Workers |->
       IF v = w THEN [call EXCEPT !.n = calls', !.before = files,
                        !.alone = \A u \in Workers : work[u].op \in Reads \cup {"none"}]
       ELSE [work[v] EXCEPT !.alone = @ /\ call.op \in Reads]]

Begin(w) ==
  /\ work[w].at = "idle"
  /\ \E op \in Reads \cup Writes, p, dest \in Paths, deep \in BOOLEAN :
       /\ op # "search" => ~deep
       /\ Accepted(op, p, dest) /\ ~Refused(op, p, dest)
       /\ Joins(w, [NoCall EXCEPT !.op = op, !.path = p, !.dest = dest, !.deep = deep,
                      !.at = FirstAwait(op), !.dirs = IF op = "search" THEN {p} ELSE {}])
  /\ UNCHANGED <<files, session>>

\* delete_session: the entry goes, then the directory, if it is there.
DeleteSession(w) ==
  /\ work[w].at = "idle" /\ session
  /\ session' = FALSE
  /\ Joins(w, [NoCall EXCEPT !.op = "end", !.path = Home, !.at = "remove"])
  /\ UNCHANGED files

-----------------------------------------------------------------------------
(* The jobs of a call.                                                      *)

At(w, op, at) == work[w].op = op /\ work[w].at = at /\ UNCHANGED <<session, calls>>

Ends(w, answer, found) ==
  work' = [work EXCEPT ![w] = [NoCall EXCEPT !.answer = answer, !.found = found,
                                              !.failed = work[w].failed]]

Fails(w) == Ends(w, "failed", {}) /\ UNCHANGED files

GoesTo(w, at, seen) == work' = [work EXCEPT ![w].at = at, ![w].seen = seen]

Capped(text, limit) == SubSeq(text, 1, IF Len(text) < limit THEN Len(text) ELSE limit)

\* read answers the pieces up to the limit and whether there were more.
Content(p, text) == {<<p, Capped(text, ReadLimit), Len(text) > ReadLimit>>}

Read(w) ==
  LET p == work[w].path IN
  /\ At(w, "read", "read")
  /\ IF IsFile(files, p) THEN Ends(w, "ok", Content(p, files[p])) /\ UNCHANGED files ELSE Fails(w)

\* What stat, list and glob find, who look once; glob is cut at its cap.
StatOf(tree, p) == {{<<q>> : q \in DOMAIN tree \cap {p}}}
ListOf(tree, p) == {{<<q>> : q \in {q \in Below(tree, p) : Len(q) = Len(p) + 1}}}
GlobOf(tree, p) ==
  LET all == {<<q>> : q \in Below(tree, p)}
  IN  IF Cardinality(all) <= MaxMatches THEN {all} ELSE kSubset(MaxMatches, all)

Looked(op, tree, p) ==
  CASE op = "stat" -> StatOf(tree, p)
    [] op = "list" -> ListOf(tree, p)
    [] op = "glob" -> GlobOf(tree, p)

Look(w) ==
  \E op \in {"stat", "list", "glob"} :
    /\ At(w, op, op)
    /\ IF Exists(work[w].path)
       THEN \E found \in Looked(op, files, work[w].path) : Ends(w, "ok", found)
       ELSE Ends(w, IF op = "glob" THEN "ok" ELSE "failed", {})
    /\ UNCHANGED files

Searchable == IF ReadLimit < SearchLimit THEN ReadLimit ELSE SearchLimit

\* The matching pieces of a file: huge files are skipped, long ones are cut.
Matches(tree, p) ==
  IF ~IsFile(tree, p) \/ Len(tree[p]) > 4 * ReadLimit THEN {}
  ELSE {<<p, i>> : i \in {i \in DOMAIN Capped(tree[p], Searchable) : tree[p][i] = Needle}}

\* What one directory adds (search of a file looks at that file).
SearchedIn(tree, p) ==
  IF IsDir(tree, p)
  THEN UNION {Matches(tree, q) : q \in {q \in Below(tree, p) : Len(q) = Len(p) + 1}}
  ELSE Matches(tree, p)

\* The walk: one directory of the stack at a time, until the cap is met.
SearchDirectory(w) ==
  /\ At(w, "search", "search")
  /\ \E p \in work[w].dirs :
       LET found == work[w].found \cup SearchedIn(files, p)
           dirs  == (work[w].dirs \ {p}) \cup
                    {q \in Below(files, p) : work[w].deep /\ Len(q) = Len(p) + 1 /\ IsDir(files, q)}
       IN  IF Cardinality(found) >= MaxMatches
           THEN \E cut \in {s \in kSubset(MaxMatches, found) : work[w].found \subseteq s} :
                  Ends(w, "ok", cut)
           ELSE work' = [work EXCEPT ![w].found = found, ![w].dirs = dirs]
  /\ UNCHANGED files

SearchEnds(w) ==
  /\ At(w, "search", "search") /\ work[w].dirs = {}
  /\ Ends(w, "ok", work[w].found) /\ UNCHANGED files

\* fs::read of append: what it cannot read it takes for empty.
AppendRead(w) ==
  LET p == work[w].path IN
  /\ At(w, "append", "read")
  /\ \/ IsFile(files, p) /\ GoesTo(w, "truncate", files[p] \o <<work[w].n>>)
     \/ ~IsFile(files, p) /\ GoesTo(w, "truncate", <<work[w].n>>)
     \/ /\ IoFaults
        /\ work' = [work EXCEPT ![w].at = "truncate", ![w].seen = <<work[w].n>>,
                                ![w].failed = TRUE]
  /\ UNCHANGED files

\* fs::read of patch, which replaces the first piece it looks for.
PatchRead(w) ==
  LET p == work[w].path IN
  /\ At(w, "patch", "read")
  /\ IF /\ IsFile(files, p) /\ Len(files[p]) <= ReadLimit
        /\ \E i \in DOMAIN files[p] : files[p][i] = Needle
     THEN LET i == Min({i \in DOMAIN files[p] : files[p][i] = Needle})
          IN  GoesTo(w, "truncate", [files[p] EXCEPT ![i] = work[w].n])
     ELSE Ends(w, "failed", {})
  /\ UNCHANGED files

\* fs::write of a path, and fs::copy of one: the file is truncated, then filled.
TruncatedPath(call) == IF call.op = "copy" THEN call.dest ELSE call.path

\* Faulty variant of Truncate: the file is opened without O_TRUNC, and what it held stays.
Truncate_Kept(w) ==
  LET p == TruncatedPath(work[w]) IN
  /\ work[w].at = "truncate" /\ UNCHANGED <<session, calls>>
  /\ IF p # << >> /\ IsDir(files, Front(p)) /\ ~IsDir(files, p)
     THEN /\ files' = Put(files, p, IF IsFile(files, p) THEN files[p] ELSE << >>)
          /\ GoesTo(w, "fill", IF work[w].op = "write" THEN <<work[w].n>> ELSE work[w].seen)
     ELSE Fails(w)

Truncate(w) ==
  LET p == TruncatedPath(work[w]) IN
  /\ work[w].at = "truncate" /\ UNCHANGED <<session, calls>>
  /\ IF p # << >> /\ IsDir(files, Front(p)) /\ ~IsDir(files, p)
     THEN /\ files' = Put(files, p, << >>)
          /\ GoesTo(w, "fill", IF work[w].op = "write" THEN <<work[w].n>> ELSE work[w].seen)
     ELSE Fails(w)

\* The pieces are written from the start of the open file, over what an other
\* call has put there since; the file may have lost its name by now.  A copy
\* reads its source as late as this.
Filling(call) ==
  IF call.op = "copy" /\ IsFile(files, call.path) THEN files[call.path] ELSE call.seen

Over(new, old) == new \o SubSeq(old, Len(new) + 1, Len(old))

Fill(w) ==
  LET p == TruncatedPath(work[w]) IN
  /\ work[w].at = "fill" /\ UNCHANGED <<session, calls>>
  /\ \/ /\ files' = IF IsFile(files, p) THEN Put(files, p, Over(Filling(work[w]), files[p]))
                     ELSE files
        /\ Ends(w, "ok", {})
     \/ IoFaults /\ Fails(w)

\* fs::copy opens its source before it truncates the destination.
CopyOpen(w) ==
  /\ At(w, "copy", "open")
  /\ IF IsFile(files, work[w].path)
     THEN GoesTo(w, "truncate", files[work[w].path]) /\ UNCHANGED files ELSE Fails(w)

CreateDirAll(w) ==
  LET p == work[w].path IN
  /\ At(w, "mkdir", "mkdir")
  /\ IF \E q \in DOMAIN files : IsPrefix(q, p) /\ files[q] # Directory THEN Fails(w)
     ELSE /\ files' = [q \in DOMAIN files \cup {q \in Paths : IsPrefix(q, p)} |->
                         IF q \in DOMAIN files THEN files[q] ELSE Directory]
          /\ Ends(w, "ok", {})

Moved(tree, p, dest) == {dest \o SubSeq(q, Len(p) + 1, Len(q)) : q \in Under(tree, p)}

\* rename: onto nothing, a file onto a file, a directory onto an empty one.
Renames(tree, p, dest) ==
  /\ p \in DOMAIN tree /\ IsDir(tree, Front(dest)) /\ ~IsStrictPrefix(p, dest)
  /\ Moved(tree, p, dest) \subseteq Paths   \* or the name is too long
  /\ dest \in DOMAIN tree => /\ IsDir(tree, p) <=> IsDir(tree, dest)
                             /\ p = dest \/ Below(tree, dest) = {}

Renamed(tree, p, dest) ==
  LET moved == Moved(tree, p, dest)
      kept  == DOMAIN tree \ (Under(tree, p) \cup {dest})
  IN  [q \in kept \cup moved |->
         IF q \in moved THEN tree[p \o SubSeq(q, Len(dest) + 1, Len(q))] ELSE tree[q]]

Rename(w) ==
  LET p == work[w].path  dest == work[w].dest IN
  /\ At(w, "move", "move")
  /\ IF Renames(files, p, dest) THEN files' = Renamed(files, p, dest) /\ Ends(w, "ok", {})
     ELSE Fails(w)

Removes(w) == work[w].op \in {"delete", "end"} /\ work[w].at = "remove"

\* marshalld ignores that a removal failed and answers as if it had not.
RemoveAnswer(w) == IF work[w].op = "end" THEN "ok" ELSE "failed"

\* What remove_dir_all of marshalld does not remove: nothing, or a file.
NotHere(call) == call.path \notin DOMAIN files \/ (call.op = "end" /\ IsFile(files, call.path))

\* remove_dir_all and remove_file: what is below goes one by one, then the path.
RemoveNext(w) ==
  LET p == work[w].path IN
  /\ Removes(w) /\ UNCHANGED <<session, calls>>
  /\ \/ \E q \in Below(files, p) :
          /\ Below(files, q) = {}
          /\ files' = Cut(files, {q}) /\ UNCHANGED work
     \/ /\ ~NotHere(work[w]) /\ Below(files, p) = {}
        /\ files' = Cut(files, {p}) /\ Ends(w, "ok", {})
     \/ NotHere(work[w]) /\ Ends(w, RemoveAnswer(w), {}) /\ UNCHANGED files

\* It fails half way.
RemoveFails(w) ==
  /\ IoFaults /\ Removes(w)
  /\ work' = [work EXCEPT ![w] = [NoCall EXCEPT !.failed = TRUE, !.answer = RemoveAnswer(w)]]
  /\ UNCHANGED <<files, session, calls>>

\* The client leaves between two jobs; a job that has begun goes on alone.
Leave(w) ==
  /\ work[w].at = "truncate" /\ work[w].op \in {"append", "patch"}
  /\ Fails(w) /\ UNCHANGED <<session, calls>>

WorkspaceNext ==
  \E w \in Workers :
    \/ Begin(w) \/ DeleteSession(w) \/ Read(w) \/ Look(w) \/ SearchDirectory(w)
    \/ SearchEnds(w) \/ AppendRead(w) \/ PatchRead(w) \/ Truncate(w) \/ Fill(w) \/ CopyOpen(w)
    \/ CreateDirAll(w) \/ Rename(w) \/ RemoveNext(w) \/ RemoveFails(w) \/ Leave(w)

WorkspaceSpec == WorkspaceInit /\ [][WorkspaceNext]_workspaceVars

-----------------------------------------------------------------------------
\* The root is always there, whatever becomes of the session's directory, and a
\* parent is a directory; a search that goes on has not met its cap.
WorkspaceTypeOK ==
  /\ DOMAIN files \subseteq Paths
  /\ \A p \in DOMAIN files \ {<< >>} : IsDir(files, Front(p))
  /\ IsDir(files, << >>)
  /\ \A w \in Workers : work[w].op = "search" => Cardinality(work[w].found) < MaxMatches
  /\ calls \in 0..MaxCalls

\* What the answer `found` and the tree of an operation are to be.
Promised(call, tree, found) ==
  LET old == call.before
      p   == call.path
      text(q) == IF IsFile(old, q) THEN old[q] ELSE << >>
      hits == UNION {Matches(old, q) : q \in {q \in Under(old, p) :
                       q = p \/ Len(q) = Len(p) + 1 \/ call.deep}}
  IN CASE call.op = "read" -> tree = old /\ found = Content(p, old[p])
       [] call.op \in {"stat", "list", "glob"} -> tree = old /\ found \in Looked(call.op, old, p)
       [] call.op = "search" -> /\ tree = old /\ found \subseteq hits
                                /\ found = hits \/ Cardinality(found) = MaxMatches
       [] call.op = "write" -> tree = Put(old, p, <<call.n>>)
       [] call.op = "append" -> tree = Put(old, p, text(p) \o <<call.n>>)
       [] call.op = "patch" -> \E i \in DOMAIN text(p) :
                                 /\ text(p)[i] = Needle /\ \A j \in 1..(i - 1) : text(p)[j] # Needle
                                 /\ tree = Put(old, p, [text(p) EXCEPT ![i] = call.n])
       [] call.op = "copy" -> tree = Put(old, call.dest, text(p))
       [] call.op = "mkdir" -> tree = Put(old, p, Directory)
       [] call.op = "move" -> Renames(old, p, call.dest) /\ tree = Renamed(old, p, call.dest)
       [] call.op = "delete" -> tree = Cut(old, Under(old, p))
       [] call.op = "end" -> tree = IF IsFile(old, p) THEN old ELSE Cut(old, Under(old, p))

Succeeds(w) == work[w].at # "idle" /\ work'[w].at = "idle" /\ work'[w].answer = "ok"

(* An operation that answers success, that no writing call overlapped and  *)
(* none of whose reads or removals failed, did in one piece what it        *)
(* promises, however many jobs it took (FileSystemTool::execute and        *)
(* delete_session): nothing lost, nothing left, nothing else touched.      *)
AloneIsAtomic ==
  [][\A w \in Workers :
       Succeeds(w) /\ work[w].alone /\ ~work'[w].failed
         => Promised(work[w], files', work'[w].found)]_workspaceVars

(* append is an "atomic read+write": all that the file holds at the moment *)
(* it is replaced is in what replaces it, before the piece of the call.    *)
AppendAtomic ==
  [][\A w \in Workers :
       LET p == work[w].path IN
       work[w].op = "append" /\ work[w].at = "truncate" /\ work'[w].at = "fill" /\ IsFile(files, p)
         => IsPrefix(files[p], work[w].seen)]_workspaceVars
=============================================================================
