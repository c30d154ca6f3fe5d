------------------------------- MODULE Untar --------------------------------
(***************************************************************************)
(* What untar.Extract does to a directory tree: one operator per branch of *)
(* its loop, and the modes it applies at the end.                          *)
(*                                                                         *)
(* A tree is a function from paths (sequences of names, <<>> the root) to  *)
(* nodes.  A mode is the owner's "w" and "x" bits.  A link's `to` is its   *)
(* target as written: relative to the link, or headed by "/" when absolute.*)
(* Links do not chain, and os.Root is the confinement it promises: it      *)
(* follows a link inside the root and refuses one that leads out of it.    *)
(***************************************************************************)
EXTENDS Naturals, SequencesExt

CONSTANT Superuser    \* the caller bypasses permission bits

All == {"w", "x"}
File(d, m) == [kind |-> "file", data |-> d, mode |-> m, to |-> <<>>]
Dir(m)     == [kind |-> "dir", data |-> <<>>, mode |-> m, to |-> <<>>]
Link(q)    == [kind |-> "link", data |-> <<>>, mode |-> All, to |-> q]
Hard(q)    == [kind |-> "hard", data |-> <<>>, mode |-> All, to |-> q]
Other      == [kind |-> "other", data |-> <<>>, mode |-> All, to |-> <<>>]
Absent     == <<>>      \* no tree at all
Fresh      == [r \in {<<>>} |-> Dir(All)]
Nowhere    == <<"..">>  \* where a link that dangles or leads out ends

Is(t, q, kind) == q \in DOMAIN t /\ t[q].kind = kind
Put(t, q, n) == [r \in DOMAIN t \cup {q} |-> IF r = q THEN n ELSE t[r]]
Below(t, q) == {r \in DOMAIN t : IsStrictPrefix(q, r)}
May(t, q, bits) == Superuser \/ bits \subseteq t[q].mode
Done(t) == [ok |-> TRUE, tree |-> t]
Failed(t) == [ok |-> FALSE, tree |-> t]

\* path.Clean of a relative path.
Clean(p) ==
    FoldLeft(LAMBDA q, n : IF n = ".." /\ q # <<>> /\ Last(q) # ".." THEN Front(q)
                           ELSE Append(q, n), <<>>, p)

\* safeName and checkSymlinkTarget refuse what leaves the root.
safeName(p) == Head(p) # "/" /\ Head(Clean(p)) # ".."
checkSymlinkTarget(p, to) ==
    /\ to # <<>>
    /\ \/ Head(to) = "/"
       \/ LET resolved == Clean(Front(p) \o to)
          IN  resolved = <<>> \/ Head(resolved) # ".."

\* Where a name leads, links included: Walk(t, p)[i] after i components.
Step(t, q, n) ==
    LET r == Append(q, n)
        to == Clean(q \o t[r].to)
    IN  IF q = Nowhere THEN Nowhere
        ELSE IF ~Is(t, r, "link") THEN r
        ELSE IF Head(t[r].to) = "/" \/ to \notin DOMAIN t THEN Nowhere
        ELSE to
Walk(t, p) ==
    LET at[i \in 0..Len(p)] == IF i = 0 THEN <<>> ELSE Step(t, at[i - 1], p[i]) IN at
Follow(t, p) == Walk(t, p)[Len(p)]

Place(t, p) == LET d == Follow(t, Front(p))
               IN  IF d = Nowhere THEN Nowhere ELSE Append(d, Last(p))

\* root.MkdirAll: missing directories are made with every permission.
MkdirAll(t, p) ==
    LET q == Follow(t, p)
        missing == {r \in {SubSeq(q, 1, i) : i \in 1..Len(q)} : r \notin DOMAIN t}
        made == [r \in DOMAIN t \cup missing |-> IF r \in missing THEN Dir(All) ELSE t[r]]
    IN  IF /\ q # Nowhere
           /\ \A i \in 0..Len(q) : LET r == SubSeq(q, 1, i) IN
                r \in DOMAIN t => Is(t, r, "dir") /\ (missing # {} => May(t, r, {"x"}))
           /\ \A r \in missing : Front(r) \in DOMAIN t => May(t, Front(r), All)
        THEN Done(made) ELSE Failed(t)

\* root.Remove, whose error is dropped: a directory that is not empty stays.
rootRemove(t, q) ==
    IF q \in DOMAIN t /\ Below(t, q) = {} /\ May(t, Front(q), All)
    THEN [r \in DOMAIN t \ {q} |-> t[r]] ELSE t

\* writeFile: what is at the name is replaced, but for a directory; a link
\* that could not be removed is written through.
writeFile_through(t, p, n) ==     \* mutant: nothing is removed first
    LET q == Follow(t, p)
    IN  IF q = Nowhere \/ Is(t, q, "dir") THEN Failed(t) ELSE Done(Put(t, q, n))
writeFile_umask(t, p, n) ==        \* mutant: the mode is left to O_CREATE
    Done(Put(t, Place(t, p), File(n.data, All)))
writeFile(t, p, n) ==
    LET at == Place(t, p)
        r == IF Is(t, at, "dir") THEN t ELSE rootRemove(t, at)
        q == Follow(r, p)
    IN  IF /\ q # Nowhere /\ ~Is(r, q, "dir")
           /\ IF q \in DOMAIN r THEN May(r, q, {"w"}) ELSE May(r, Front(q), All)
        THEN Done(Put(r, q, n)) ELSE Failed(r)

symlink(t, p, n) ==
    LET q == Place(t, p)
        r == rootRemove(t, q)
    IN  IF q \notin DOMAIN r /\ May(r, Front(q), All) THEN Done(Put(r, q, n)) ELSE Failed(r)

hardlink(t, p, n) ==
    LET q == Place(t, p)
        r == rootRemove(t, q)
        target == Follow(r, n.to)
    IN  IF q \notin DOMAIN r /\ Is(r, target, "file") /\ May(r, Front(q), All)
        THEN Done(Put(r, q, r[target])) ELSE Failed(r)

\* One entry of the stream: name p, what it is, and the tree so far.
Refused(p, n) ==
    \/ ~safeName(p)
    \/ n.kind = "link" /\ ~checkSymlinkTarget(p, n.to)
    \/ n.kind = "hard" /\ ~safeName(n.to)
    \/ n.kind = "other"                 \* a device, a pipe: unsupported
Extracted(t, p, n) ==
    LET up == MkdirAll(t, Front(p))   \* mkParents
    IN  IF Refused(p, n) THEN Failed(t)
        ELSE IF n.kind = "dir" THEN MkdirAll(t, p)
        ELSE IF ~up.ok THEN up
        ELSE CASE n.kind = "file" -> writeFile(up.tree, p, n)
               [] n.kind = "link" -> symlink(up.tree, p, n)
               [] n.kind = "hard" -> hardlink(up.tree, p, n)

\* The stream ends inside the file p: what was written stays.
HalfWritten(t, p) ==
    LET up == MkdirAll(t, Front(p))
    IN  IF up.ok THEN writeFile(up.tree, p, File("half", All)).tree ELSE t

\* applyDirModes: the recorded directories come by the length of their names,
\* so a directory comes after all those below it and the rest in any order.
NextModes_shallow(modes) ==   \* mutant: the shortest name first
    {p \in modes : \A q \in modes : ~IsStrictPrefix(q, p)}
NextModes(modes) == {p \in modes : \A q \in modes : ~IsStrictPrefix(p, q)}

\* root.Chmod follows links, and needs to search the directories above.
Chmod(t, p, m) ==
    LET q == Follow(t, p)
    IN  IF /\ q \in DOMAIN t
           /\ \A i \in 1..(Len(q) - 1) : May(t, SubSeq(q, 1, i), {"x"})
        THEN Done(Put(t, q, [t[q] EXCEPT !.mode = m])) ELSE Failed(t)
=============================================================================
