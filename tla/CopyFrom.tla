------------------------------ MODULE CopyFrom ------------------------------
(***************************************************************************)
(* Sandbox.CopyFrom: start the sandbox if need be, ask the daemon for the  *)
(* archive of a path, and extract it: into the destination when that is a  *)
(* directory, else into a staging directory beside it that is renamed into *)
(* place.  Other processes may change the destination and the sandbox in   *)
(* between, requests, the stream and the disk may fail, and the process    *)
(* may crash.                                                              *)
(*                                                                         *)
(* dest and staging are trees (see Untar) rooted at localPath and at the   *)
(* staging directory; the archive's names begin with Base.  The directory  *)
(* above localPath is there and writable.                                  *)
(***************************************************************************)
EXTENDS Untar

CONSTANTS
    Base,       \* the base name of sandboxPath
    Sources,    \* what the path may be in the sandbox: trees over Base
    Dests       \* what localPath may be on the host: trees or Absent

Rooted(p) == <<Base>> \o p
Top == <<Base>>

\* What an archive holds: a tree whose names begin with Base, each name below
\* directories, and hard links to files of the tree.
Archive(s) ==
    /\ Top \in DOMAIN s
    /\ \A p \in DOMAIN s :
        /\ p \in Seq(STRING) /\ p # <<>> /\ Head(p) = Base
        /\ \A i \in 1..(Len(p) - 1) : Is(s, SubSeq(p, 1, i), "dir")
        /\ s[p].kind \in {"file", "dir", "link", "hard", "other"}
        /\ s[p].kind = "dir" => s[p] = Dir(s[p].mode)
        /\ s[p].kind = "hard" => Is(s, s[p].to, "file")

\* What a directory or a file of the host is: names below directories.
Tree(d) ==
    /\ <<>> \in DOMAIN d
    /\ \A q \in DOMAIN d :
        /\ q \in Seq(STRING)
        /\ \A i \in 0..(Len(q) - 1) : Is(d, SubSeq(q, 1, i), "dir")
        /\ d[q].kind = "dir" => d[q] = Dir(d[q].mode)

ASSUME CopyFromAssumption ==
    /\ Superuser \in BOOLEAN
    /\ Base \in STRING \ {".."}
    /\ \A s \in Sources : Archive(s)
    /\ \A d \in Dests : d # Absent => Tree(d)

VARIABLES
    box,        \* daemon: the sandbox
    there,      \* sandbox: there is something at sandboxPath
    source,     \* sandbox: the tree at sandboxPath, if there is one
    named,      \* the handle still holds the sandbox's name (s.info.Name)
    pc,
    into,       \* where Extract writes
    dest, staging,
    todo,       \* the names the stream still holds
    dirModes,   \* directories whose mode is still to be applied
    result,
    theirs,     \* dest as others left it last (observed)
    meddled,    \* others have changed the sandbox or dest (observed)
    faults      \* what has failed under the copy so far (observed)

observed == <<theirs, meddled, faults>>
remote == <<box, there, source>>
vars == <<remote, named, pc, into, dest, staging, todo, dirModes, result, observed>>

\* "request": a request fails; "body": the answer to the inspection loses its
\* body; "stream": the archive breaks off; "disk": a file operation fails.
AllFaults == {"request", "body", "stream", "disk"}

Results == {"none", "nil", "notFound", "exists", "error"}

Init ==
    /\ box \in {"running", "stopped", "gone"}
    /\ source \in Sources /\ there \in BOOLEAN /\ named = TRUE
    /\ dest \in Dests
    /\ theirs = dest
    /\ pc = "inspect" /\ into = "none" /\ result = "none"
    /\ staging = Absent /\ todo = {} /\ dirModes = {}
    /\ meddled = FALSE /\ faults = {}

Goto(l) == pc' = l /\ UNCHANGED result
Return(r) == pc' = "cleanup" /\ result' = r

Faulted(f) == faults' = faults \cup {f}

-----------------------------------------------------------------------------
(* CopyFrom up to the extraction.  Every request may fail or be cancelled.  *)

RequestFails == Faulted("request") /\ Return("error")

\* The daemon answers 404 otherwise, also to the route of a handle that has
\* lost its name; MapError makes it ErrSandboxNotFound.
Found == named /\ box # "gone"

\* Inspect replaces s.info: an answer without its body takes the name away and
\* reads as a sandbox that is not running.
ensureRunningForCopy ==
    /\ pc = "inspect"
    /\ \/ RequestFails /\ UNCHANGED named
       \/ ~Found /\ Return("notFound") /\ UNCHANGED <<named, faults>>
       \/ /\ Found /\ Goto(IF box = "running" THEN "get" ELSE "start")
          /\ UNCHANGED <<named, faults>>
       \/ Found /\ Goto("start") /\ Faulted("body") /\ named' = FALSE
    /\ UNCHANGED <<remote, into, dest, staging, todo, dirModes, theirs, meddled>>

\* A start request that fails may have started the sandbox.
Start ==
    /\ pc = "start"
    /\ \/ RequestFails /\ box' \in {box} \cup (IF Found THEN {"running"} ELSE {})
       \/ ~Found /\ Return("notFound") /\ UNCHANGED <<box, faults>>
       \/ Found /\ Goto("get") /\ box' = "running" /\ UNCHANGED faults
    /\ UNCHANGED <<there, source, named, into, dest, staging, todo, dirModes,
                   theirs, meddled>>

\* GET files: 404 stands for the sandbox as for the path, and 409 for a sandbox
\* that does not run is mapped to ErrSandboxExists.
GetFiles ==
    /\ pc = "get"
    /\ \/ RequestFails /\ UNCHANGED todo
       \/ /\ ~Found \/ (box = "running" /\ ~there)
          /\ Return("notFound") /\ UNCHANGED <<todo, faults>>
       \/ Found /\ box = "stopped" /\ Return("exists") /\ UNCHANGED <<todo, faults>>
       \/ /\ Found /\ box = "running" /\ there
          /\ Goto("stat") /\ todo' = DOMAIN source /\ UNCHANGED faults
    /\ UNCHANGED <<remote, named, into, dest, staging, dirModes, theirs, meddled>>

IsDir(t) == t # Absent /\ t[<<>>].kind = "dir"
Where_always(d) == "dest"       \* mutant: never staged
Where(d) == IF IsDir(d) THEN "dest" ELSE "staging"

\* os.Stat of localPath, and the staging directory.
Stat ==
    /\ pc = "stat"
    /\ Goto("open")
    /\ into' = Where(dest)
    /\ staging' = IF into' = "staging" THEN Fresh ELSE Absent
    /\ UNCHANGED <<remote, named, dest, todo, dirModes, observed>>

-----------------------------------------------------------------------------
(* untar.Extract.                                                           *)

tree == IF into = "dest" THEN dest ELSE staging
Writes(t) == IF into = "dest" THEN dest' = t /\ UNCHANGED staging
                              ELSE staging' = t /\ UNCHANGED dest

\* os.MkdirAll of the directory, which may be gone by now, or a file.
OpenRoot ==
    /\ pc = "open"
    /\ IF tree = Absent THEN Writes(Fresh) ELSE Writes(tree)
    /\ IF tree = Absent \/ IsDir(tree) THEN Goto("extract") ELSE Return("error")
    /\ UNCHANGED <<remote, named, into, todo, dirModes, observed>>

\* The stream holds a hard link after the file it names.
Ready(p) == p \in todo /\ (source[p].kind = "hard" => source[p].to \notin todo)

ExtractEntry(p) ==
    LET e == Extracted(tree, p, source[p])
    IN  /\ pc = "extract" /\ Ready(p)
        /\ Writes(e.tree)
        /\ todo' = todo \ {p}
        /\ dirModes' = IF e.ok /\ source[p].kind = "dir" THEN dirModes \cup {p} ELSE dirModes
        /\ IF e.ok THEN Goto("extract") ELSE Return("error")
        /\ UNCHANGED <<remote, named, into, observed>>

\* The stream breaks, or the disk fails, between two entries or inside a file.
StreamCut ==
    /\ pc = "extract"
    /\ \/ Writes(tree)
       \/ \E p \in todo : source[p].kind = "file" /\ Writes(HalfWritten(tree, p))
    /\ \E f \in {"stream", "disk"} : Faulted(f)
    /\ Return("error")
    /\ UNCHANGED <<remote, named, into, todo, dirModes, theirs, meddled>>

StreamEnd_modesForgotten == "place"     \* mutant: applyDirModes is not called
StreamEnd == IF dirModes = {} THEN "place" ELSE "modes"

EndOfStream ==
    /\ pc = "extract" /\ todo = {}
    /\ Goto(StreamEnd)
    /\ UNCHANGED <<remote, named, into, dest, staging, todo, dirModes, observed>>

applyDirModes(p) ==
    LET e == Chmod(tree, p, source[p].mode)
    IN  /\ pc = "modes" /\ p \in NextModes(dirModes)
        /\ Writes(e.tree)
        /\ dirModes' = dirModes \ {p}
        /\ IF ~e.ok THEN Return("error")
           ELSE Goto(IF dirModes' = {} THEN "place" ELSE "modes")
        /\ UNCHANGED <<remote, named, into, todo, observed>>

-----------------------------------------------------------------------------
(* The end of CopyFrom.                                                     *)

\* The tree at Base, and os.Rename: a directory takes the place of nothing
\* or of an empty directory, a file that of nothing or of a file; a directory
\* that changes its parent must be writable.
Inside(t) == {p \in DOMAIN t : p # <<>> /\ Head(p) = Base}
Subtree(t) == [r \in {Tail(p) : p \in Inside(t)} |-> t[Rooted(r)]]
Renames(t, d) ==
    /\ Top \in DOMAIN t
    /\ t[Top].kind = "dir" => May(t, Top, {"w"})
    /\ d # Absent => /\ (t[Top].kind = "dir") = (d[<<>>].kind = "dir")
                     /\ d[<<>>].kind = "dir" => Below(d, <<>>) = {}

Rename ==
    /\ pc = "place"
    /\ IF into = "dest" THEN Return("nil") /\ UNCHANGED <<dest, staging>>
       ELSE IF Renames(staging, dest)
       THEN /\ Return("nil")
            /\ dest' = Subtree(staging)
            /\ staging' = [p \in DOMAIN staging \ Inside(staging) |-> staging[p]]
       ELSE Return("error") /\ UNCHANGED <<dest, staging>>
    /\ UNCHANGED <<remote, named, into, todo, dirModes, observed>>

\* os.RemoveAll, whose error is dropped: it stays at a directory that it may
\* not empty.
RemoveAll(t) ==
    IF \A q \in DOMAIN t : t[q].kind = "dir" /\ Below(t, q) # {} => May(t, q, All)
    THEN Absent ELSE t

Cleanup ==
    /\ pc = "cleanup"
    /\ Goto("done")
    /\ staging' = IF staging = Absent THEN Absent ELSE RemoveAll(staging)
    /\ UNCHANGED <<remote, named, into, dest, todo, dirModes, observed>>

\* The disk fails where nothing is half done: making the parents and the staging
\* directory, opening it, applying a mode, renaming.
DiskFails ==
    /\ pc \in {"stat", "open", "modes", "place"}
    /\ pc = "stat" => Where(dest) = "staging"
    /\ pc = "place" => into = "staging"
    /\ Faulted("disk") /\ Return("error")
    /\ UNCHANGED <<remote, named, into, dest, staging, todo, dirModes, theirs, meddled>>

-----------------------------------------------------------------------------
(* Everybody else (external).                                               *)

Crash ==
    /\ pc \notin {"done", "crashed"}
    /\ pc' = "crashed"
    /\ UNCHANGED <<remote, named, into, dest, staging, todo, dirModes, result, observed>>

\* The sandbox is stopped, started or removed; bound: others act once.
OthersUseSandbox ==
    /\ ~meddled /\ box # "gone" /\ pc \in {"start", "get"}
    /\ box' \in {"running", "stopped", "gone"} \ {box}
    /\ meddled' = TRUE
    /\ UNCHANGED <<there, source, named, pc, into, dest, staging, todo, dirModes,
                   result, theirs, faults>>

\* The destination changes while the copy relies on what Stat saw.
OthersChangeDest ==
    /\ ~meddled
    /\ pc = "open" \/ (pc \in {"extract", "modes", "place"} /\ into = "staging")
    /\ dest' \in Dests \ {dest}
    /\ theirs' = dest' /\ meddled' = TRUE
    /\ UNCHANGED <<remote, named, pc, into, staging, todo, dirModes, result, faults>>

Others == OthersUseSandbox \/ OthersChangeDest
Terminated == pc \in {"done", "crashed"} /\ UNCHANGED vars

Next ==
    \/ ensureRunningForCopy \/ Start \/ GetFiles \/ Stat
    \/ DiskFails \/ OpenRoot \/ (\E p \in todo : ExtractEntry(p)) \/ StreamCut \/ EndOfStream
    \/ (\E p \in dirModes : applyDirModes(p)) \/ Rename \/ Cleanup
    \/ Crash \/ Others \/ Terminated

Spec == Init /\ [][Next]_vars

-----------------------------------------------------------------------------
TypeOK ==
    /\ box \in {"running", "stopped", "gone"}
    /\ source \in Sources /\ there \in BOOLEAN /\ named \in BOOLEAN
    /\ pc \in {"inspect", "start", "get", "stat", "open", "extract", "modes",
               "place", "cleanup", "done", "crashed"}
    /\ into \in {"none", "dest", "staging"}
    /\ todo \subseteq DOMAIN source /\ dirModes \subseteq DOMAIN source
    /\ dirModes # {} => pc \in {"extract", "modes", "cleanup", "done", "crashed"}
    /\ result \in Results /\ (pc = "done" => result # "none")
    /\ meddled \in BOOLEAN /\ faults \subseteq AllFaults

\* What the source holds at p: a hard link is the file that it names.
Original(p) == IF source[p].kind = "hard" THEN source[source[p].to] ELSE source[p]

\* The source as CopyFrom places it at a destination that does not exist.
Wanted == [r \in DOMAIN Subtree(source) |-> Original(Rooted(r))]

\* Where the archive's name p leads in a tree that other things live in.
Lands(t, p) == IF source[p].kind = "dir" THEN Follow(t, p) ELSE Place(t, p)

\* Links in directories the caller may not change: writeFile drops the error of
\* its Remove and writes through them, although a link "must be replaced, not
\* written through" (internal/untar/untar.go:168).
LockedLinks(t) == {q \in DOMAIN t : Is(t, q, "link") /\ ~May(t, Front(q), All)}

\* A nil error means that all of the source is at the destination: every
\* entry with its contents and its permission bits, at the path itself or,
\* in a directory that was there and had no locked links, below the base name.
CopyComplete ==
    result = "nil" /\ pc = "cleanup" =>
        \/ into = "staging" /\ dest = Wanted
        \/ /\ into = "dest"
           /\ LockedLinks(theirs) = {} => \A p \in DOMAIN source :
                Lands(dest, p) \in DOMAIN dest /\ dest[Lands(dest, p)] = Original(p)

\* A copy to a path that was no directory is all or nothing, also when the
\* process crashes: whoever looks finds what others left there, or the whole
\* source, and the source exactly if the copy says nil.
AllOrNothing ==
    into = "staging" \/ (into # "none" /\ ~meddled /\ ~IsDir(theirs)) =>
        /\ dest \in {theirs, Wanted}
        /\ pc = "done" => (result = "nil" => dest = Wanted)
        /\ pc = "done" /\ result # "nil" => dest = theirs

\* Copying into a directory leaves alone everything in it that the archive
\* does not name; a link in it that an entry replaces is not written through,
\* unless it is locked.
OthersKept ==
    [][into = "dest" /\ dest # Absent /\ LockedLinks(theirs) = {} /\ ~OthersChangeDest =>
         \A q \in DOMAIN dest :
             \/ q \in {Lands(dest, p) : p \in DOMAIN source}
             \/ q \in DOMAIN dest' /\ dest'[q] = dest[q]]_vars

\* The kinds at a name clash: a directory is in the way of a file, or
\* something else in the way of a directory.
Clash(t) ==
    \E p \in DOMAIN source :
        LET q == Lands(t, p)
        IN  q = Nowhere \/ (q \in DOMAIN t /\ (t[q].kind = "dir") # (source[p].kind = "dir"))

Barred(t) == \E q \in DOMAIN t : t[q].kind = "dir" /\ ~May(t, q, All)

\* An entry that Extract refuses: a name or a link that leads out, or a kind it
\* does not know.
Refusable == \E p \in DOMAIN source : Refused(p, source[p])

\* A copy fails for a cause that is there.  ErrSandboxNotFound: the sandbox is
\* gone, or only the path is missing, or the inspection's answer was lost.
\* ErrSandboxExists: somebody stopped the sandbox.  Another error: a request,
\* the stream or the disk failed, the archive holds an entry to refuse, others
\* changed the destination, something of another kind is in the way, or a
\* directory of the destination may not be changed or one of the source moved.
FailsForCause ==
    pc = "done" =>
        /\ result = "notFound" => box = "gone" \/ ~there \/ "body" \in faults
        /\ result = "exists" => meddled
        /\ result = "error" =>
              \/ faults \cap {"request", "stream", "disk"} # {}
              \/ meddled \/ Refusable
              \/ into = "dest" /\ (Clash(theirs) \/ Barred(theirs))
              \/ into = "staging" /\ theirs # Absent /\ source[Top].kind = "dir"
              \/ into = "staging" /\ ~Superuser /\ "w" \notin source[Top].mode

\* sandbox/cp.go: "stage in a sibling directory so a failure leaves nothing
\* behind."
FailureLeavesNothing == pc = "done" /\ result # "nil" => staging = Absent
=============================================================================
