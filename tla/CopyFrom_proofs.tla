-------------------------- MODULE CopyFrom_proofs --------------------------
(***************************************************************************)
(* Proofs about CopyFrom for every archive, every destination and any user:*)
(* a copy to a path that is no directory is all or nothing; nil means that *)
(* everything is there; nothing else is touched; failures have a cause.    *)
(***************************************************************************)
EXTENDS CopyFrom, SequenceTheorems, WellFoundedInduction, TLAPS

(* Names and where they lead.                                               *)

LEMMA Least ==
    ASSUME NEW S \in SUBSET Nat, S # {}
    PROVE  \E n \in S : \A m \in S : n <= m
<1>1. PICK n \in S : \A m \in S : ~(<<m, n>> \in OpToRel(<, Nat))
  BY WFMin, NatLessThanWellFounded
<1>2. \A m \in S : ~(m < n)
  BY <1>1 DEF OpToRel
<1>3. QED
  BY <1>2

\* The walk along a name is what its recursive definition says, if there is a
\* walk at all.
LEMMA WalkSteps ==
    ASSUME NEW t, NEW p, NEW g,
           g = [i \in 0..Len(p) |-> IF i = 0 THEN <<>> ELSE Step(t, g[i - 1], p[i])]
    PROVE  Walk(t, p) =
              [i \in 0..Len(p) |-> IF i = 0 THEN <<>> ELSE Step(t, Walk(t, p)[i - 1], p[i])]
<1> DEFINE F(f) == [i \in 0..Len(p) |-> IF i = 0 THEN <<>> ELSE Step(t, f[i - 1], p[i])]
           at == Walk(t, p)
<1>1. at = CHOOSE f : f = F(f)
  BY DEF Walk
<1>2. g = F(g)
  OBVIOUS
<1>3. at = F(at)
  <2> HIDE DEF F, at
  <2> QED
    BY <1>1, <1>2
<1> QED
  BY <1>3

\* A name that crosses no link leads to itself.
LEMMA Straight ==
    ASSUME NEW t, NEW p \in Seq(STRING),
           \A i \in 1..Len(p) : ~Is(t, SubSeq(p, 1, i), "link") /\ SubSeq(p, 1, i) # Nowhere
    PROVE  Follow(t, p) = p
<1> DEFINE at == Walk(t, p)
           g == [i \in 0..Len(p) |-> SubSeq(p, 1, i)]
<1>1. \A i \in 0..Len(p) :
         SubSeq(p, 1, i) = IF i = 0 THEN <<>> ELSE Step(t, SubSeq(p, 1, i - 1), p[i])
  <2> SUFFICES ASSUME NEW i \in 0..Len(p)
               PROVE  SubSeq(p, 1, i) = IF i = 0 THEN <<>> ELSE Step(t, SubSeq(p, 1, i - 1), p[i])
    OBVIOUS
  <2>1. CASE i = 0
    BY <2>1
  <2>2. CASE i # 0
    <3>1. SubSeq(p, 1, i) = Append(SubSeq(p, 1, i - 1), p[i])
      BY <2>2
    <3>2. SubSeq(p, 1, i - 1) # Nowhere /\ ~Is(t, SubSeq(p, 1, i), "link")
      BY <2>2 DEF Nowhere
    <3> QED
      BY <2>2, <3>1, <3>2 DEF Step
  <2> QED
    BY <2>1, <2>2
<1>2. \A i \in 0..Len(p) : g[i] = SubSeq(p, 1, i) /\ (i # 0 => g[i - 1] = SubSeq(p, 1, i - 1))
  OBVIOUS
<1>3. g = [i \in 0..Len(p) |-> IF i = 0 THEN <<>> ELSE Step(t, g[i - 1], p[i])]
  BY <1>1, <1>2
<1>4. at = [i \in 0..Len(p) |-> IF i = 0 THEN <<>> ELSE Step(t, at[i - 1], p[i])]
  <2> HIDE DEF g
  <2> QED
    BY <1>3, WalkSteps
<1>5. \A i \in 0..Len(p) : at[i] = SubSeq(p, 1, i)
  <2> DEFINE bad == {i \in 0..Len(p) : at[i] # SubSeq(p, 1, i)}
  <2>1. ASSUME bad # {} PROVE FALSE
    <3>1. PICK i \in bad : \A j \in bad : i <= j
      <4>1. bad \in SUBSET Nat
        OBVIOUS
      <4> QED
        BY <2>1, <4>1, Least
    <3>2. i \in 0..Len(p) /\ at[i] # SubSeq(p, 1, i)
      BY <3>1
    <3>3. CASE i = 0
      BY <1>1, <1>4, <3>2, <3>3
    <3>4. CASE i # 0
      <4>1. i - 1 \in 0..Len(p) /\ i - 1 \notin bad
        BY <3>1, <3>2, <3>4
      <4>2. at[i - 1] = SubSeq(p, 1, i - 1)
        BY <4>1
      <4> QED
        BY <1>1, <1>4, <3>2, <3>4, <4>2
    <3> QED
      BY <3>3, <3>4
  <2> QED
    BY <2>1
<1> QED
  BY <1>5 DEF Follow

\* A name and the name of its directory.
LEMMA Parts ==
    ASSUME NEW p \in Seq(STRING), p # <<>>
    PROVE  /\ Front(p) \in Seq(STRING) /\ Len(Front(p)) = Len(p) - 1
           /\ \A i \in 1..(Len(p) - 1) : SubSeq(Front(p), 1, i) = SubSeq(p, 1, i)
           /\ SubSeq(p, 1, Len(p)) = p /\ Append(Front(p), Last(p)) = p
           /\ <<Head(p)>> \o Tail(p) = p
<1>1. Len(p) \in Nat /\ Len(p) > 0
  OBVIOUS
<1>2. Front(p) \in Seq(STRING) /\ Len(Front(p)) = Len(p) - 1
  <2>1. \A i \in 1..(Len(p) - 1) : p[i] \in STRING
    BY <1>1
  <2>2. SubSeq(p, 1, Len(p) - 1) \in Seq(STRING)
    BY <1>1, <2>1
  <2>3. Len(SubSeq(p, 1, Len(p) - 1)) = Len(p) - 1
    <3>1. PICK n \in Nat : n = Len(p) - 1
      BY <1>1
    <3>2. \A i \in 1..n : p[i] \in STRING
      BY <2>1, <3>1
    <3>3. Len(SubSeq(p, 1, n)) = IF 1 <= n THEN (n - 1) + 1 ELSE 0
      BY <3>2, SubSeqProperties
    <3>4. (IF 1 <= n THEN (n - 1) + 1 ELSE 0) = n
      OBVIOUS
    <3> QED
      BY <3>1, <3>3, <3>4
  <2> QED
    BY <2>2, <2>3 DEF Front
<1>3. \A i \in 1..(Len(p) - 1) : SubSeq(Front(p), 1, i) = SubSeq(p, 1, i)
  BY <1>1 DEF Front
<1>4. SubSeq(p, 1, Len(p)) = p
  BY <1>1
<1>5. Append(Front(p), Last(p)) = p
  BY <1>1 DEF Front, Last
<1>6. <<Head(p)>> \o Tail(p) = p
  BY <1>1
<1> QED
  BY <1>2, <1>3, <1>4, <1>5, <1>6

\* A name of the archive begins with Base and runs through its directories.
LEMMA ArchiveNames ==
    ASSUME source \in Sources, NEW p \in DOMAIN source
    PROVE  /\ p \in Seq(STRING) /\ p # <<>> /\ Head(p) = Base
           /\ \A i \in 1..(Len(p) - 1) : Is(source, SubSeq(p, 1, i), "dir")
           /\ \A i \in 1..Len(p) : SubSeq(p, 1, i) # Nowhere
           /\ source[p].kind \in {"file", "dir", "link", "hard", "other"}
           /\ source[p].kind = "dir" => source[p] = Dir(source[p].mode)
           /\ source[p].kind = "hard" => Is(source, source[p].to, "file")
<1>1. Archive(source)
  BY CopyFromAssumption
<1>2. p \in Seq(STRING) /\ p # <<>> /\ Head(p) = Base /\ Base # ".."
  BY <1>1, CopyFromAssumption DEF Archive
<1>3. ASSUME NEW i \in 1..Len(p) PROVE SubSeq(p, 1, i) # Nowhere
  <2>1. SubSeq(p, 1, i)[1] = p[1] /\ p[1] = Base
    BY <1>2
  <2>2. Nowhere[1] = ".."
    BY DEF Nowhere
  <2> QED
    BY <1>2, <2>1, <2>2
<1> QED
  BY <1>1, <1>2, <1>3 DEF Archive

-----------------------------------------------------------------------------
(* The staging directory while the archive is extracted into it.            *)

\* A tree that holds the entries of the source but for those in td, each as it
\* is in the source, and the directories on the way to them; the directories
\* in wide are still open.
Holds(t, td, wide) ==
    /\ <<>> \in DOMAIN t /\ t[<<>>] = Dir(All)
    /\ DOMAIN t \subseteq {<<>>} \cup DOMAIN source
    /\ DOMAIN source \ td \subseteq DOMAIN t
    /\ \A p \in DOMAIN t \ {<<>>} :
          IF source[p].kind = "dir"
          THEN t[p] = Dir(IF p \in wide THEN All ELSE source[p].mode)
          ELSE p \notin td /\ t[p] = Original(p)

\* A tree whose links are the source's: in it a name of the source leads to
\* itself, and so does that of its directory.
OwnLinks(t) == \A q \in DOMAIN t : t[q].kind = "link" => Is(source, q, "link")

LEMMA HoldsLinks ==
    ASSUME source \in Sources, NEW t, NEW td, NEW wide, Holds(t, td, wide)
    PROVE  OwnLinks(t)
<1> SUFFICES ASSUME NEW q \in DOMAIN t, t[q].kind = "link" PROVE Is(source, q, "link")
  BY DEF OwnLinks
<1>1. q \in DOMAIN source /\ q # <<>>
  BY DEF Holds, Dir
<1>2. source[q].kind # "dir" /\ t[q] = Original(q)
  BY <1>1 DEF Holds, Dir
<1>3. source[q].kind = "hard" => Original(q).kind = "file"
  BY <1>1, ArchiveNames DEF Original, Is
<1> QED
  BY <1>1, <1>2, <1>3 DEF Original, Is

LEMMA LeadsToItself ==
    ASSUME source \in Sources, NEW t, OwnLinks(t), NEW p \in DOMAIN source
    PROVE  /\ Follow(t, Front(p)) = Front(p) /\ Place(t, p) = p
           /\ ~Is(t, p, "link") => Follow(t, p) = p
           /\ p # Nowhere /\ Front(p) # Nowhere
<1>1. /\ p \in Seq(STRING) /\ p # <<>>
      /\ \A i \in 1..(Len(p) - 1) : Is(source, SubSeq(p, 1, i), "dir")
      /\ \A i \in 1..Len(p) : SubSeq(p, 1, i) # Nowhere
  BY ArchiveNames
<1>2. /\ Front(p) \in Seq(STRING) /\ Len(Front(p)) = Len(p) - 1
      /\ \A i \in 1..(Len(p) - 1) : SubSeq(Front(p), 1, i) = SubSeq(p, 1, i)
      /\ SubSeq(p, 1, Len(p)) = p /\ Append(Front(p), Last(p)) = p
  BY <1>1, Parts
<1>3. ASSUME NEW i \in 1..(Len(p) - 1) PROVE ~Is(t, SubSeq(p, 1, i), "link")
  BY <1>1 DEF Is, OwnLinks
<1>4. PICK n \in Nat : n = Len(p) /\ n > 0
  BY <1>1
<1>5. Follow(t, Front(p)) = Front(p)
  <2>1. ASSUME NEW i \in 1..Len(Front(p))
        PROVE  ~Is(t, SubSeq(Front(p), 1, i), "link") /\ SubSeq(Front(p), 1, i) # Nowhere
    <3>1. i \in 1..(n - 1) /\ i \in 1..n
      BY <1>2, <1>4
    <3>2. SubSeq(Front(p), 1, i) = SubSeq(p, 1, i)
      BY <1>2, <1>4, <3>1
    <3> QED
      BY <1>1, <1>3, <1>4, <3>1, <3>2
  <2> QED
    BY <1>2, <2>1, Straight
<1>6. Front(p) # Nowhere
  <2>1. CASE n = 1
    BY <1>2, <1>4, <2>1 DEF Nowhere
  <2>2. CASE n # 1
    <3>1. n - 1 \in 1..n
      BY <1>4, <2>2
    <3>2. SubSeq(p, 1, n - 1) # Nowhere
      BY <1>1, <1>4, <3>1
    <3> QED
      BY <1>4, <3>2 DEF Front
  <2> QED
    BY <2>1, <2>2
<1>7. Place(t, p) = p
  BY <1>2, <1>5, <1>6 DEF Place
<1>8. ASSUME ~Is(t, p, "link") PROVE Follow(t, p) = p
  <2>1. ASSUME NEW i \in 1..Len(p) PROVE ~Is(t, SubSeq(p, 1, i), "link") /\ SubSeq(p, 1, i) # Nowhere
    <3>1. CASE i = Len(p)
      BY <1>1, <1>2, <1>8, <3>1
    <3>2. CASE i # Len(p)
      BY <1>1, <1>3, <1>4, <3>2
    <3> QED
      BY <3>1, <3>2
  <2> QED
    BY <1>1, <2>1, Straight
<1>9. p # Nowhere
  BY <1>1, <1>2, <1>4
<1> QED
  BY <1>5, <1>6, <1>7, <1>8, <1>9

\* MkdirAll makes the directories that are missing on the way, and only them.
LEMMA MadeDirs ==
    ASSUME NEW t, NEW q, Follow(t, q) = q, MkdirAll(t, q).ok
    PROVE  LET made == MkdirAll(t, q).tree
               way == {SubSeq(q, 1, i) : i \in 1..Len(q)}
           IN  /\ DOMAIN made = DOMAIN t \cup way
               /\ \A r \in DOMAIN made : made[r] = IF r \in DOMAIN t THEN t[r] ELSE Dir(All)
<1> DEFINE way == {SubSeq(q, 1, i) : i \in 1..Len(q)}
           missing == {r \in way : r \notin DOMAIN t}
           made == [r \in DOMAIN t \cup missing |-> IF r \in missing THEN Dir(All) ELSE t[r]]
<1>1. MkdirAll(t, q) = Done(made) \/ MkdirAll(t, q) = Failed(t)
  BY DEF MkdirAll
<1>2. MkdirAll(t, q).tree = made
  BY <1>1 DEF Done, Failed
<1>3. /\ DOMAIN made = DOMAIN t \cup way
      /\ \A r \in DOMAIN made : made[r] = IF r \in DOMAIN t THEN t[r] ELSE Dir(All)
  OBVIOUS
<1> QED
  BY <1>2, <1>3

\* A tree in which the directories on the way to p are made holds what it held.
LEMMA HoldsMade ==
    ASSUME source \in Sources, NEW t, NEW td, NEW wide, td \subseteq wide, Holds(t, td, wide),
           NEW q, Follow(t, q) = q, MkdirAll(t, q).ok,
           \A i \in 1..Len(q) : Is(source, SubSeq(q, 1, i), "dir")
    PROVE  /\ Holds(MkdirAll(t, q).tree, td, wide)
           /\ \A r \in DOMAIN MkdirAll(t, q).tree : r \in DOMAIN t \/ Is(source, r, "dir")
           /\ \A i \in 1..Len(q) : SubSeq(q, 1, i) \in DOMAIN MkdirAll(t, q).tree
<1> DEFINE way == {SubSeq(q, 1, i) : i \in 1..Len(q)}
           made == MkdirAll(t, q).tree
<1>1. /\ DOMAIN made = DOMAIN t \cup way
      /\ \A r \in DOMAIN made : made[r] = IF r \in DOMAIN t THEN t[r] ELSE Dir(All)
  BY MadeDirs
<1>2. \A r \in way : Is(source, r, "dir") /\ (r \notin DOMAIN t => r \in td)
  BY DEF Holds, Is
<1>3. \A i \in 1..Len(q) : SubSeq(q, 1, i) \in way
  OBVIOUS
<1> HIDE DEF way, made
<1>4. Holds(made, td, wide)
  <2>1. <<>> \in DOMAIN made /\ made[<<>>] = Dir(All) /\ DOMAIN made \subseteq {<<>>} \cup DOMAIN source /\ DOMAIN source \ td \subseteq DOMAIN made
    BY <1>1, <1>2 DEF Holds, Is
  <2>2. ASSUME NEW r \in DOMAIN made \ {<<>>}
        PROVE  IF source[r].kind = "dir"
               THEN made[r] = Dir(IF r \in wide THEN All ELSE source[r].mode)
               ELSE r \notin td /\ made[r] = Original(r)
    <3>1. CASE r \in DOMAIN t
      BY <1>1, <2>2, <3>1 DEF Holds
    <3>2. CASE r \notin DOMAIN t
      <4>1. source[r].kind = "dir" /\ r \in wide /\ made[r] = Dir(All)
        BY <1>1, <1>2, <2>2, <3>2 DEF Is
      <4> QED
        BY <4>1
    <3> QED
      BY <3>1, <3>2
  <2> QED
    BY <2>1, <2>2 DEF Holds
<1>5. \A r \in DOMAIN made : r \in DOMAIN t \/ Is(source, r, "dir")
  BY <1>1, <1>2
<1>6. \A i \in 1..Len(q) : SubSeq(q, 1, i) \in DOMAIN made
  BY <1>1, <1>3
<1> QED
  BY <1>4, <1>5, <1>6 DEF made

\* An entry that is no directory is put in its place.
LEMMA HoldsPut ==
    ASSUME source \in Sources, NEW t, NEW td, NEW dm, Holds(t, td, td \cup dm),
           NEW p \in td, p \in DOMAIN source, source[p].kind # "dir"
    PROVE  Holds(Put(t, p, Original(p)), td \ {p}, (td \ {p}) \cup dm)
<1> DEFINE u == Put(t, p, Original(p))
<1>1. DOMAIN u = DOMAIN t \cup {p} /\ \A r \in DOMAIN u : u[r] = IF r = p THEN Original(p) ELSE t[r]
  BY DEF Put
<1>2. p # <<>>
  BY ArchiveNames
<1> HIDE DEF u
<1>3. ASSUME NEW r \in DOMAIN u \ {<<>>}
      PROVE  IF source[r].kind = "dir"
             THEN u[r] = Dir(IF r \in (td \ {p}) \cup dm THEN All ELSE source[r].mode)
             ELSE r \notin td \ {p} /\ u[r] = Original(r)
  <2>1. CASE r = p
    BY <1>1, <2>1
  <2>2. CASE r # p
    <3>1. r \in DOMAIN t \ {<<>>} /\ u[r] = t[r]
      BY <1>1, <1>3, <2>2
    <3>2. IF source[r].kind = "dir"
          THEN t[r] = Dir(IF r \in td \cup dm THEN All ELSE source[r].mode)
          ELSE r \notin td /\ t[r] = Original(r)
      BY <3>1 DEF Holds
    <3>3. r \in (td \ {p}) \cup dm <=> r \in td \cup dm
      BY <2>2
    <3> QED
      BY <3>1, <3>2, <3>3
  <2> QED
    BY <2>1, <2>2
<1>4. /\ <<>> \in DOMAIN u /\ u[<<>>] = Dir(All) /\ DOMAIN u \subseteq {<<>>} \cup DOMAIN source
      /\ DOMAIN source \ (td \ {p}) \subseteq DOMAIN u
  BY <1>1, <1>2 DEF Holds
<1> QED
  BY <1>3, <1>4 DEF Holds, u

\* One entry of the stream, once the directories above it are there.
LEMMA EntryPut ==
    ASSUME source \in Sources, NEW t, NEW td, NEW wide, Holds(t, td, wide),
           NEW p \in DOMAIN source, p \notin DOMAIN t,
           source[p].kind = "hard" => source[p].to \notin td,
           NEW e, e.ok,
           \/ source[p].kind = "file" /\ e = writeFile(t, p, source[p])
           \/ source[p].kind = "link" /\ e = symlink(t, p, source[p])
           \/ source[p].kind = "hard" /\ e = hardlink(t, p, source[p])
    PROVE  e.tree = Put(t, p, Original(p))
<1>1. Place(t, p) = p /\ Follow(t, p) = p /\ ~Is(t, p, "dir") /\ rootRemove(t, p) = t
  BY HoldsLinks, LeadsToItself DEF Is, rootRemove
<1>2. CASE source[p].kind = "file"
  <2>1. e = Done(Put(t, p, source[p])) \/ e = Failed(t)
    BY <1>1, <1>2 DEF writeFile
  <2> QED
    BY <1>2, <2>1 DEF Done, Failed, Original
<1>3. CASE source[p].kind = "link"
  <2>1. e = Done(Put(t, p, source[p])) \/ e = Failed(t)
    BY <1>1, <1>3 DEF symlink
  <2> QED
    BY <1>3, <2>1 DEF Done, Failed, Original
<1>4. CASE source[p].kind = "hard"
  <2>1. Is(source, source[p].to, "file")
    BY <1>4, ArchiveNames
  <2>2. PICK q \in DOMAIN source : q = source[p].to /\ source[q].kind = "file" /\ q \notin td
    BY <1>4, <2>1 DEF Is
  <2>3. q # <<>> /\ q \in DOMAIN t
    BY <2>2, ArchiveNames DEF Holds
  <2>4. t[q] = Original(q)
    BY <2>2, <2>3 DEF Holds
  <2>5. t[q] = source[q] /\ t[q] = Original(p)
    BY <1>4, <2>2, <2>4 DEF Original
  <2>6. Follow(t, q) = q
    BY <2>2, <2>5, HoldsLinks, LeadsToItself DEF Is
  <2>7. e = Done(Put(t, p, t[q])) \/ e = Failed(t)
    BY <1>1, <1>4, <2>2, <2>6 DEF hardlink
  <2> QED
    BY <2>5, <2>7 DEF Done, Failed
<1> QED
  BY <1>2, <1>3, <1>4

\* An entry that is extracted is of a kind that Extract knows.
LEMMA KnownKind ==
    ASSUME source \in Sources, NEW t, NEW p \in DOMAIN source, Extracted(t, p, source[p]).ok
    PROVE  source[p].kind \in {"file", "dir", "link", "hard"}
<1>1. ~Refused(p, source[p])
  BY DEF Extracted, Failed
<1> QED
  BY <1>1, ArchiveNames DEF Refused

LEMMA ExtractedHolds ==
    ASSUME source \in Sources, NEW t, NEW td \in SUBSET DOMAIN source, NEW dm,
           Holds(t, td, td \cup dm), NEW p \in td,
           source[p].kind = "hard" => source[p].to \notin td,
           Extracted(t, p, source[p]).ok
    PROVE  Holds(Extracted(t, p, source[p]).tree, td \ {p},
                 (td \ {p}) \cup (IF source[p].kind = "dir" THEN dm \cup {p} ELSE dm))
<1> DEFINE e == Extracted(t, p, source[p])
           up == MkdirAll(t, Front(p))
<1>1. /\ p \in Seq(STRING) /\ p # <<>>
      /\ \A i \in 1..(Len(p) - 1) : Is(source, SubSeq(p, 1, i), "dir")
      /\ source[p].kind \in {"file", "dir", "link", "hard"}
  BY ArchiveNames, KnownKind
<1>2. /\ Front(p) \in Seq(STRING) /\ Len(Front(p)) = Len(p) - 1
      /\ \A i \in 1..(Len(p) - 1) : SubSeq(Front(p), 1, i) = SubSeq(p, 1, i)
      /\ SubSeq(p, 1, Len(p)) = p
  BY <1>1, Parts
<1>3. PICK n \in Nat : n = Len(p) /\ n > 0
  BY <1>1
<1>4. e = Failed(t) => FALSE
  BY DEF Failed
<1>5. CASE source[p].kind = "dir"
  <2>1. e = MkdirAll(t, p)
    BY <1>4, <1>5 DEF Extracted
  <2>2. ~Is(t, p, "link")
    <3>1. p \in DOMAIN t => t[p].kind = "dir"
      BY <1>1, <1>5 DEF Holds, Dir
    <3> QED
      BY <3>1 DEF Is
  <2>3. Follow(t, p) = p
    BY <2>2, HoldsLinks, LeadsToItself
  <2>4. \A i \in 1..Len(p) : Is(source, SubSeq(p, 1, i), "dir")
    <3>1. Is(source, SubSeq(p, 1, n), "dir")
      BY <1>2, <1>3, <1>5 DEF Is
    <3>2. \A i \in 1..n : i = n \/ i \in 1..(n - 1)
      OBVIOUS
    <3> QED
      BY <1>1, <1>3, <3>1, <3>2
  <2>5. Holds(e.tree, td, td \cup dm) /\ p \in DOMAIN e.tree
    <3>1. /\ Holds(MkdirAll(t, p).tree, td, td \cup dm)
          /\ \A i \in 1..Len(p) : SubSeq(p, 1, i) \in DOMAIN MkdirAll(t, p).tree
      BY <2>1, <2>3, <2>4, HoldsMade
    <3>2. Len(p) \in 1..Len(p)
      BY <1>3
    <3> QED
      BY <1>2, <2>1, <3>1, <3>2
  <2>6. td \cup dm = (td \ {p}) \cup (dm \cup {p})
    OBVIOUS
  <2> HIDE DEF e
  <2>7. Holds(e.tree, td \ {p}, td \cup dm)
    BY <2>5 DEF Holds
  <2> QED
    BY <1>5, <2>6, <2>7 DEF e
<1>6. CASE source[p].kind # "dir"
  <2>1. up.ok
    <3>1. ~up.ok => e = up
      BY <1>4, <1>6 DEF Extracted
    <3> QED
      BY <3>1
  <2>2. \/ source[p].kind = "file" /\ e = writeFile(up.tree, p, source[p])
        \/ source[p].kind = "link" /\ e = symlink(up.tree, p, source[p])
        \/ source[p].kind = "hard" /\ e = hardlink(up.tree, p, source[p])
    BY <1>1, <1>4, <1>6, <2>1 DEF Extracted
  <2>3. \A i \in 1..Len(Front(p)) : Is(source, SubSeq(Front(p), 1, i), "dir")
    BY <1>1, <1>2
  <2>4. Follow(t, Front(p)) = Front(p)
    BY HoldsLinks, LeadsToItself
  <2>5. /\ Holds(up.tree, td, td \cup dm)
        /\ \A r \in DOMAIN up.tree : r \in DOMAIN t \/ Is(source, r, "dir")
    BY <2>1, <2>3, <2>4, HoldsMade
  <2>6. p \notin DOMAIN up.tree
    <3>1. p \notin DOMAIN t
      BY <1>1, <1>6 DEF Holds
    <3> QED
      BY <1>6, <2>5, <3>1 DEF Is
  <2> HIDE DEF e, up
  <2>7. e.tree = Put(up.tree, p, Original(p))
    BY <2>2, <2>5, <2>6, EntryPut DEF e
  <2>8. Holds(e.tree, td \ {p}, (td \ {p}) \cup dm)
    BY <1>6, <2>5, <2>7, HoldsPut
  <2> QED
    BY <1>6, <2>8 DEF e
<1> QED
  BY <1>5, <1>6

\* The mode of a directory, when no directory below it waits for its own.
LEMMA ModeHolds ==
    ASSUME source \in Sources, NEW t, NEW dm, Holds(t, {}, dm),
           NEW p \in dm, p \in DOMAIN source, source[p].kind = "dir",
           Chmod(t, p, source[p].mode).ok
    PROVE  Holds(Chmod(t, p, source[p].mode).tree, {}, dm \ {p})
<1> DEFINE u == Chmod(t, p, source[p].mode).tree
<1>1. p \in DOMAIN t /\ p # <<>>
  BY ArchiveNames DEF Holds
<1>2. t[p] = Dir(All)
  BY <1>1 DEF Holds
<1>3. Follow(t, p) = p
  BY <1>2, HoldsLinks, LeadsToItself DEF Is, Dir
<1>4. u = Put(t, p, [t[p] EXCEPT !.mode = source[p].mode])
  <2>1. \/ Chmod(t, p, source[p].mode) = Done(Put(t, p, [t[p] EXCEPT !.mode = source[p].mode]))
        \/ Chmod(t, p, source[p].mode) = Failed(t)
    BY <1>3 DEF Chmod
  <2> QED
    BY <2>1 DEF Done, Failed
<1>5. [t[p] EXCEPT !.mode = source[p].mode] = Dir(source[p].mode)
  BY <1>2 DEF Dir
<1>6. DOMAIN u = DOMAIN t /\ \A r \in DOMAIN u : u[r] = IF r = p THEN Dir(source[p].mode) ELSE t[r]
  BY <1>1, <1>4, <1>5 DEF Put
<1> HIDE DEF u
<1>7. u[<<>>] = Dir(All)
  BY <1>1, <1>6 DEF Holds
<1>8. ASSUME NEW r \in DOMAIN u \ {<<>>}
      PROVE  IF source[r].kind = "dir"
             THEN u[r] = Dir(IF r \in dm \ {p} THEN All ELSE source[r].mode)
             ELSE r \notin {} /\ u[r] = Original(r)
  BY <1>6, <1>8 DEF Holds
<1> QED
  BY <1>6, <1>7, <1>8 DEF Holds, u

\* When nothing is left to come, what is renamed into place is the source.
LEMMA HeldIsWanted ==
    ASSUME source \in Sources, NEW t, Holds(t, {}, {})
    PROVE  Subtree(t) = Wanted
<1>1. ASSUME NEW p \in DOMAIN source
      PROVE  p # <<>> /\ Head(p) = Base /\ Rooted(Tail(p)) = p
  BY ArchiveNames, Parts DEF Rooted
<1>2. Inside(source) = DOMAIN source /\ Inside(t) = DOMAIN source
  <2>1. DOMAIN t = {<<>>} \cup DOMAIN source
    BY DEF Holds
  <2> QED
    BY <1>1, <2>1 DEF Inside
<1>3. ASSUME NEW p \in DOMAIN source PROVE t[Rooted(Tail(p))] = Original(Rooted(Tail(p)))
  <2>1. p \in DOMAIN t \ {<<>>}
    BY <1>1, <1>2 DEF Inside
  <2>2. CASE source[p].kind = "dir"
    <3>1. t[p] = Dir(source[p].mode) /\ source[p] = Dir(source[p].mode)
      BY <2>1, <2>2, ArchiveNames DEF Holds
    <3> QED
      BY <1>1, <2>2, <3>1 DEF Original
  <2>3. CASE source[p].kind # "dir"
    BY <1>1, <2>1, <2>3 DEF Holds
  <2> QED
    BY <2>2, <2>3
<1> DEFINE D == {Tail(p) : p \in DOMAIN source}
<1>4. Subtree(t) = [r \in D |-> t[Rooted(r)]]
  BY <1>2 DEF Subtree
<1>5. DOMAIN Subtree(source) = D
  BY <1>2 DEF Subtree
<1>6. Wanted = [r \in D |-> Original(Rooted(r))]
  BY <1>5 DEF Wanted
<1>7. \A r \in D : t[Rooted(r)] = Original(Rooted(r))
  BY <1>3
<1> QED
  BY <1>4, <1>6, <1>7

-----------------------------------------------------------------------------
(* The invariant: what each step of CopyFrom relies on.                     *)

Early == {"inspect", "start", "get", "stat"}
Writing == {"open", "extract", "modes", "place"}

Kept ==
    /\ pc \in Early => into = "none" /\ dest = theirs
    /\ pc \in Writing => into # "none"
    /\ pc \in Early \cup Writing => result = "none"
    /\ pc = "cleanup" => result # "none"
    /\ result = "nil" => into # "none"
    /\ into = "dest" /\ ~meddled => IsDir(theirs)
    /\ into = "staging" => dest = IF result = "nil" THEN Wanted ELSE theirs

Streamed ==
    /\ pc \in {"stat", "open"} => todo = DOMAIN source
    /\ pc \in {"modes", "place"} => todo = {}
    /\ \A p \in dirModes : source[p].kind = "dir"

Staged == into = "staging" /\ pc \in Writing => Holds(staging, todo, todo \cup dirModes)

CopyInv == TypeOK /\ Kept /\ Streamed /\ Staged

USE DEF observed, remote, vars

LEMMA InitInv == Init => CopyInv
<1> SUFFICES ASSUME Init PROVE CopyInv
  OBVIOUS
<1>1. TypeOK
  BY DEF Init, TypeOK, Results
<1>2. Kept
  BY DEF Init, Kept, Early, Writing
<1>3. Streamed /\ Staged
  BY DEF Init, Streamed, Staged, Writing
<1> QED
  BY <1>1, <1>2, <1>3 DEF CopyInv

\* A fresh staging directory holds nothing of the archive.
LEMMA FreshHolds == ASSUME NEW wide PROVE Holds(Fresh, DOMAIN source, wide)
BY DEF Holds, Fresh

LEMMA TypeStep == CopyInv /\ [Next]_vars => TypeOK'
<1> SUFFICES ASSUME CopyInv, [Next]_vars PROVE TypeOK'
  OBVIOUS
<1>0. TypeOK
  BY DEF CopyInv
<1> USE <1>0 DEF Goto, Return, RequestFails, Faulted, AllFaults, Results
<1>1. CASE ensureRunningForCopy
  BY <1>1 DEF ensureRunningForCopy, TypeOK
<1>2. CASE Start
  BY <1>2 DEF Start, TypeOK
<1>3. CASE GetFiles
  BY <1>3 DEF GetFiles, TypeOK
<1>4. CASE Stat
  BY <1>4 DEF Stat, Where, TypeOK
<1>5. CASE OpenRoot
  BY <1>5 DEF OpenRoot, TypeOK
<1>6. ASSUME NEW p \in todo, ExtractEntry(p) PROVE TypeOK'
  BY <1>6 DEF ExtractEntry, TypeOK
<1>7. CASE StreamCut
  BY <1>7 DEF StreamCut, TypeOK
<1>8. CASE EndOfStream
  BY <1>8 DEF EndOfStream, StreamEnd, TypeOK
<1>9. ASSUME NEW p \in dirModes, applyDirModes(p) PROVE TypeOK'
  BY <1>9 DEF applyDirModes, TypeOK
<1>10. CASE Rename
  BY <1>10 DEF Rename, TypeOK
<1>11. CASE Cleanup
  BY <1>11 DEF Cleanup, TypeOK, CopyInv, Kept
<1>12. CASE Crash
  BY <1>12 DEF Crash, TypeOK
<1>13. CASE Others
  BY <1>13 DEF Others, OthersUseSandbox, OthersChangeDest, TypeOK
<1>14. CASE DiskFails
  BY <1>14 DEF DiskFails, TypeOK
<1>15. CASE UNCHANGED vars
  BY <1>15 DEF TypeOK
<1> QED
  BY <1>1, <1>2, <1>3, <1>4, <1>5, <1>6, <1>7, <1>8, <1>9, <1>10, <1>11, <1>12, <1>13, <1>14, <1>15
     DEF Next, Terminated

\* What others put at the path stays there until Rename, in a staged copy.
LEMMA KeptStep == CopyInv /\ [Next]_vars => Kept'
<1> SUFFICES ASSUME CopyInv, [Next]_vars PROVE Kept'
  OBVIOUS
<1>0. TypeOK /\ Kept
  BY DEF CopyInv
<1>w. ASSUME source' = source PROVE Wanted' = Wanted
  BY <1>w DEF Wanted, Subtree, Inside, Rooted, Original
<1> USE <1>0 DEF Goto, Return, RequestFails, Faulted, Early, Writing
<1>1. CASE ensureRunningForCopy
  BY <1>1, <1>w DEF ensureRunningForCopy, Kept, TypeOK
<1>2. CASE Start
  BY <1>2, <1>w DEF Start, Kept, TypeOK
<1>3. CASE GetFiles
  BY <1>3, <1>w DEF GetFiles, Kept, TypeOK
<1>4. CASE Stat
  BY <1>4, <1>w DEF Stat, Where, Kept, TypeOK
<1>5. CASE OpenRoot
  BY <1>5, <1>w DEF OpenRoot, Writes, Kept, TypeOK
<1>6. ASSUME NEW p \in todo, ExtractEntry(p) PROVE Kept'
  BY <1>6, <1>w DEF ExtractEntry, Writes, Kept, TypeOK
<1>7. CASE StreamCut
  BY <1>7, <1>w DEF StreamCut, Writes, Kept, TypeOK
<1>8. CASE EndOfStream
  BY <1>8, <1>w DEF EndOfStream, StreamEnd, Kept, TypeOK
<1>9. ASSUME NEW p \in dirModes, applyDirModes(p) PROVE Kept'
  BY <1>9, <1>w DEF applyDirModes, Writes, Kept, TypeOK
<1>10. CASE Rename
  <2>1. ASSUME into = "staging" PROVE Subtree(staging) = Wanted
    <3>1. pc = "place" /\ todo = {} /\ dirModes = {} /\ source \in Sources
      BY <1>10 DEF Rename, TypeOK, CopyInv, Streamed
    <3>2. Holds(staging, {}, {})
      <4>1. todo \cup dirModes = {}
        BY <3>1
      <4> QED
        BY <2>1, <3>1, <4>1 DEF CopyInv, Staged
    <3> QED
      BY <3>1, <3>2, HeldIsWanted
  <2> QED
    BY <1>10, <1>w, <2>1 DEF Rename, Kept, TypeOK
<1>11. CASE Cleanup
  BY <1>11, <1>w DEF Cleanup, Kept, TypeOK
<1>12. CASE Crash
  BY <1>12, <1>w DEF Crash, Kept, TypeOK
<1>13. CASE Others
  BY <1>13, <1>w DEF Others, OthersUseSandbox, OthersChangeDest, Kept, TypeOK
<1>14. CASE DiskFails
  BY <1>14, <1>w DEF DiskFails, Kept, TypeOK
<1>15. CASE UNCHANGED vars
  BY <1>15, <1>w DEF Kept, IsDir
<1> QED
  BY <1>1, <1>2, <1>3, <1>4, <1>5, <1>6, <1>7, <1>8, <1>9, <1>10, <1>11, <1>12, <1>13, <1>14, <1>15
     DEF Next, Terminated

LEMMA StreamedStep == CopyInv /\ [Next]_vars => Streamed'
<1> SUFFICES ASSUME CopyInv, [Next]_vars PROVE Streamed'
  OBVIOUS
<1>0. TypeOK /\ Streamed
  BY DEF CopyInv
<1> USE <1>0 DEF Goto, Return, RequestFails, Faulted
<1>1. CASE ensureRunningForCopy
  BY <1>1 DEF ensureRunningForCopy, Streamed, TypeOK
<1>2. CASE Start
  BY <1>2 DEF Start, Streamed, TypeOK
<1>3. CASE GetFiles
  BY <1>3 DEF GetFiles, Streamed, TypeOK
<1>4. CASE Stat
  BY <1>4 DEF Stat, Streamed, TypeOK
<1>5. CASE OpenRoot
  BY <1>5 DEF OpenRoot, Streamed, TypeOK
<1>6. ASSUME NEW p \in todo, ExtractEntry(p) PROVE Streamed'
  BY <1>6 DEF ExtractEntry, Streamed, TypeOK
<1>7. CASE StreamCut
  BY <1>7 DEF StreamCut, Streamed, TypeOK
<1>8. CASE EndOfStream
  BY <1>8 DEF EndOfStream, StreamEnd, Streamed, TypeOK
<1>9. ASSUME NEW p \in dirModes, applyDirModes(p) PROVE Streamed'
  BY <1>9 DEF applyDirModes, Streamed, TypeOK
<1>10. CASE Rename
  BY <1>10 DEF Rename, Streamed, TypeOK
<1>11. CASE Cleanup
  BY <1>11 DEF Cleanup, Streamed, TypeOK
<1>12. CASE Crash
  BY <1>12 DEF Crash, Streamed, TypeOK
<1>13. CASE Others
  BY <1>13 DEF Others, OthersUseSandbox, OthersChangeDest, Streamed, TypeOK
<1>14. CASE DiskFails
  BY <1>14 DEF DiskFails, Streamed, TypeOK
<1>15. CASE UNCHANGED vars
  BY <1>15 DEF Streamed
<1> QED
  BY <1>1, <1>2, <1>3, <1>4, <1>5, <1>6, <1>7, <1>8, <1>9, <1>10, <1>11, <1>12, <1>13, <1>14, <1>15
     DEF Next, Terminated

\* The staging directory holds what the stream has brought, and nothing else.
LEMMA StagedStep == CopyInv /\ [Next]_vars => Staged'
<1> SUFFICES ASSUME CopyInv, [Next]_vars, (into = "staging")', (pc \in Writing)'
             PROVE  Holds(staging, todo, todo \cup dirModes)'
  BY DEF Staged
<1>0. TypeOK /\ Kept /\ Streamed /\ source \in Sources
  BY DEF CopyInv, TypeOK
<1>p. ASSUME source' = source, Holds(staging', todo', todo' \cup dirModes')
      PROVE  Holds(staging, todo, todo \cup dirModes)'
  BY <1>p DEF Holds, Original
<1>s. ASSUME into' = into, pc \in Writing
      PROVE  Holds(staging, todo, todo \cup dirModes) /\ tree = staging /\ into = "staging"
  BY <1>s DEF CopyInv, Staged, tree
<1>k. ASSUME source' = source, into' = into, pc \in Writing,
             UNCHANGED <<staging, todo, dirModes>>
      PROVE  Holds(staging, todo, todo \cup dirModes)'
  BY <1>k, <1>s, <1>p
<1> USE DEF Goto, Return, RequestFails, Faulted, Writing
<1>1. CASE ensureRunningForCopy
  BY <1>0, <1>1 DEF ensureRunningForCopy, Kept, Early
<1>2. CASE Start
  BY <1>0, <1>2 DEF Start, Kept, Early
<1>3. CASE GetFiles
  BY <1>0, <1>3 DEF GetFiles, Kept, Early
<1>4. CASE Stat
  <2>1. staging' = Fresh /\ todo' = DOMAIN source /\ source' = source
    BY <1>0, <1>4 DEF Stat, Streamed
  <2>2. Holds(Fresh, DOMAIN source, todo' \cup dirModes')
    BY FreshHolds
  <2> QED
    BY <1>p, <2>1, <2>2
<1>5. CASE OpenRoot
  <2>1. pc = "open" /\ into' = into /\ todo' = DOMAIN source /\ source' = source /\ dirModes' = dirModes
        /\ todo' = todo
    BY <1>0, <1>5 DEF OpenRoot, Streamed
  <2>2. staging' = Fresh \/ staging' = staging
    BY <1>5, <1>s, <2>1 DEF OpenRoot, Writes
  <2>3. Holds(Fresh, DOMAIN source, todo' \cup dirModes')
    BY FreshHolds
  <2> QED
    BY <1>p, <1>s, <2>1, <2>2, <2>3
<1>6. ASSUME NEW p \in todo, ExtractEntry(p) PROVE Holds(staging, todo, todo \cup dirModes)'
  <2> DEFINE e == Extracted(tree, p, source[p])
  <2>1. /\ pc = "extract" /\ into' = into /\ source' = source
        /\ source[p].kind = "hard" => source[p].to \notin todo
        /\ e.ok /\ todo' = todo \ {p}
        /\ dirModes' = IF source[p].kind = "dir" THEN dirModes \cup {p} ELSE dirModes
    BY <1>6 DEF ExtractEntry, Ready
  <2>2. staging' = e.tree
    BY <1>6, <1>s, <2>1 DEF ExtractEntry, Writes
  <2>3. todo \in SUBSET DOMAIN source
    BY <1>0 DEF TypeOK
  <2>4. tree = staging /\ Holds(staging, todo, todo \cup dirModes)
    BY <1>s, <2>1
  <2>5. Holds(e.tree, todo \ {p},
              (todo \ {p}) \cup (IF source[p].kind = "dir" THEN dirModes \cup {p} ELSE dirModes))
    BY <1>0, <2>1, <2>3, <2>4, ExtractedHolds
  <2> HIDE DEF e
  <2> QED
    BY <1>p, <2>1, <2>2, <2>5
<1>7. CASE StreamCut
  BY <1>7 DEF StreamCut
<1>8. CASE EndOfStream
  BY <1>8, <1>k DEF EndOfStream
<1>9. ASSUME NEW p \in dirModes, applyDirModes(p) PROVE Holds(staging, todo, todo \cup dirModes)'
  <2> DEFINE e == Chmod(tree, p, source[p].mode)
  <2>1. /\ pc = "modes" /\ into' = into /\ source' = source /\ e.ok
        /\ todo = {} /\ todo' = {} /\ dirModes' = dirModes \ {p}
        /\ p \in DOMAIN source /\ source[p].kind = "dir"
    BY <1>0, <1>9 DEF applyDirModes, Streamed, TypeOK
  <2>2. staging' = e.tree
    BY <1>9, <1>s, <2>1 DEF applyDirModes, Writes
  <2>3. todo \cup dirModes = dirModes /\ todo' \cup dirModes' = dirModes \ {p}
    BY <2>1
  <2>4. tree = staging /\ Holds(staging, {}, dirModes)
    BY <1>s, <2>1, <2>3
  <2>5. Holds(e.tree, {}, dirModes \ {p})
    BY <1>0, <2>1, <2>4, ModeHolds
  <2> HIDE DEF e
  <2> QED
    BY <1>p, <2>1, <2>2, <2>3, <2>5
<1>10. CASE Rename
  BY <1>10 DEF Rename
<1>11. CASE Cleanup
  BY <1>11 DEF Cleanup
<1>12. CASE Crash
  BY <1>12 DEF Crash
<1>13. CASE Others
  <2>1. CASE OthersUseSandbox
    BY <1>0, <2>1 DEF OthersUseSandbox, Kept, Early
  <2>2. CASE OthersChangeDest
    BY <1>k, <2>2 DEF OthersChangeDest
  <2> QED
    BY <1>13, <2>1, <2>2 DEF Others
<1>14. CASE DiskFails
  BY <1>14 DEF DiskFails
<1>15. CASE UNCHANGED vars
  BY <1>15, <1>k
<1> QED
  BY <1>1, <1>2, <1>3, <1>4, <1>5, <1>6, <1>7, <1>8, <1>9, <1>10, <1>11, <1>12, <1>13, <1>14, <1>15
     DEF Next, Terminated

\* Invariance: the invariant holds in every state a copy reaches.
THEOREM Invariance == Spec => []CopyInv
<1>1. CopyInv /\ [Next]_vars => CopyInv'
  BY TypeStep, KeptStep, StreamedStep, StagedStep DEF CopyInv
<1> QED
  BY <1>1, InitInv, PTL DEF Spec

\* Type correctness (CopyFrom, sandbox/cp.go).
THEOREM TypeCorrect == Spec => []TypeOK
<1>1. CopyInv => TypeOK
  BY DEF CopyInv
<1> QED
  BY <1>1, Invariance, PTL

\* A copy to a path that was no directory is all or nothing, whatever the
\* archive holds, wherever the copy fails or the process crashes (CopyFrom's
\* staging directory and os.Rename, sandbox/cp.go).
THEOREM CopyIsAllOrNothing == Spec => []AllOrNothing
<1>1. CopyInv => AllOrNothing
  <2> SUFFICES ASSUME CopyInv, into = "staging" \/ (into # "none" /\ ~meddled /\ ~IsDir(theirs))
               PROVE  /\ dest \in {theirs, Wanted}
                      /\ pc = "done" => (result = "nil" => dest = Wanted)
                      /\ pc = "done" /\ result # "nil" => dest = theirs
    BY DEF AllOrNothing
  <2>1. into = "staging"
    BY DEF CopyInv, TypeOK, Kept
  <2> QED
    BY <2>1 DEF CopyInv, Kept
<1> QED
  BY <1>1, Invariance, PTL

-----------------------------------------------------------------------------
(* Copying into a directory that is there.                                  *)

\* The directories above a name, the root first.
Way(p) == {SubSeq(p, 1, i) : i \in 0..(Len(p) - 1)}

LEMMA Ways ==
    ASSUME NEW p \in Seq(STRING)
    PROVE  /\ \A r \in Way(p) : r \in Seq(STRING) /\ Way(r) \subseteq Way(p) /\ IsStrictPrefix(r, p)
           /\ \A i \in 1..Len(p) : SubSeq(p, 1, i) = p \/ SubSeq(p, 1, i) \in Way(p) \ {<<>>}
           /\ p # <<>> => /\ <<>> \in Way(p) /\ Front(p) \in Way(p)
                          /\ Way(p) = Way(Front(p)) \cup {Front(p)}
                          /\ \E i \in 1..Len(p) : SubSeq(p, 1, i) = p
                          /\ \A r \in Way(p) \ {<<>>} : \E i \in 1..(Len(p) - 1) : r = SubSeq(p, 1, i)
<1>1. PICK n \in Nat : n = Len(p)
  OBVIOUS
<1>2. ASSUME NEW r \in Way(p)
      PROVE  r \in Seq(STRING) /\ Way(r) \subseteq Way(p) /\ IsStrictPrefix(r, p)
  <2>1. PICK i \in 0..(n - 1) : r = SubSeq(p, 1, i)
    BY <1>1, <1>2 DEF Way
  <2>2. i \in Nat /\ i < n /\ \A j \in 1..i : p[j] \in STRING
    BY <1>1, <2>1
  <2>3. r \in Seq(STRING)
    BY <2>1, <2>2
  <2>4. Len(r) = i
    <3>1. Len(SubSeq(p, 1, i)) = IF 1 <= i THEN (i - 1) + 1 ELSE 0
      BY <2>2, SubSeqProperties
    <3>2. (IF 1 <= i THEN (i - 1) + 1 ELSE 0) = i
      BY <2>2
    <3> QED
      BY <2>1, <3>1, <3>2
  <2>5. ASSUME NEW q \in Way(r) PROVE q \in Way(p)
    <3>1. PICK j \in 0..(i - 1) : q = SubSeq(r, 1, j)
      BY <2>4, <2>5 DEF Way
    <3>2. SubSeq(r, 1, j) = SubSeq(p, 1, j)
      BY <1>1, <2>1, <2>2, <3>1
    <3>3. j \in 0..(n - 1)
      BY <2>2, <3>1
    <3> QED
      BY <1>1, <3>1, <3>2, <3>3 DEF Way
  <2>6. IsStrictPrefix(r, p)
    <3>1. SubSeq(r, 1, i) = r
      BY <2>3, <2>4
    <3>2. r # p
      BY <1>1, <2>2, <2>4
    <3>3. Len(r) <= Len(p)
      BY <1>1, <2>2, <2>4
    <3> QED
      BY <2>1, <2>4, <3>1, <3>2, <3>3 DEF IsStrictPrefix, IsPrefix
  <2> QED
    BY <2>3, <2>5, <2>6
<1>3. ASSUME NEW i \in 1..Len(p)
      PROVE  SubSeq(p, 1, i) = p \/ SubSeq(p, 1, i) \in Way(p) \ {<<>>}
  <2>1. CASE i = n
    BY <1>1, <2>1
  <2>2. CASE i # n
    <3>1. i \in 0..(n - 1)
      BY <1>1, <2>2
    <3>2. SubSeq(p, 1, i) \in Way(p)
      BY <1>1, <3>1 DEF Way
    <3>3. SubSeq(p, 1, i) # <<>>
      OBVIOUS
    <3> QED
      BY <3>2, <3>3
  <2> QED
    BY <2>1, <2>2
<1>4. ASSUME p # <<>>
      PROVE  /\ <<>> \in Way(p) /\ Front(p) \in Way(p)
             /\ Way(p) = Way(Front(p)) \cup {Front(p)}
             /\ \E i \in 1..Len(p) : SubSeq(p, 1, i) = p
             /\ \A r \in Way(p) \ {<<>>} : \E i \in 1..(Len(p) - 1) : r = SubSeq(p, 1, i)
  <2>1. n > 0 /\ 0 \in 0..(n - 1) /\ n - 1 \in 0..(n - 1) /\ n \in 1..n
    BY <1>1, <1>4
  <2>2. SubSeq(p, 1, 0) = <<>> /\ SubSeq(p, 1, n) = p /\ Front(p) = SubSeq(p, 1, n - 1)
    BY <1>1, <1>4, <2>1 DEF Front
  <2>3. <<>> \in Way(p) /\ Front(p) \in Way(p)
    BY <1>1, <2>1, <2>2 DEF Way
  <2>4. ASSUME NEW r \in Way(p) PROVE r = Front(p) \/ r \in Way(Front(p))
    <3>1. PICK i \in 0..(n - 1) : r = SubSeq(p, 1, i)
      BY <1>1, <2>4 DEF Way
    <3>2. CASE i = n - 1
      BY <2>2, <3>1, <3>2
    <3>3. CASE i # n - 1
      <4>1. i \in 0..(n - 2) /\ i \in Nat
        BY <2>1, <3>1, <3>3
      <4>2. Len(Front(p)) = n - 1
        BY <1>1, <1>4, Parts
      <4>3. SubSeq(Front(p), 1, i) = SubSeq(p, 1, i)
        <5>1. CASE i = 0
          BY <5>1
        <5>2. CASE i # 0
          <6>1. i \in 1..(Len(p) - 1)
            BY <1>1, <4>1, <5>2
          <6> QED
            BY <1>4, <6>1, Parts
        <5> QED
          BY <5>1, <5>2
      <4>4. i \in 0..(Len(Front(p)) - 1)
        BY <2>1, <4>1, <4>2
      <4> QED
        BY <3>1, <4>3, <4>4 DEF Way
    <3> QED
      BY <3>2, <3>3
  <2>5. ASSUME NEW r \in Way(p) \ {<<>>} PROVE \E i \in 1..(Len(p) - 1) : r = SubSeq(p, 1, i)
    <3>1. PICK i \in 0..(n - 1) : r = SubSeq(p, 1, i)
      BY <1>1, <2>5 DEF Way
    <3>2. i # 0
      BY <2>2, <2>5, <3>1
    <3>3. i \in 1..(Len(p) - 1)
      BY <1>1, <3>1, <3>2
    <3> QED
      BY <3>1, <3>3
  <2>6. \E i \in 1..Len(p) : SubSeq(p, 1, i) = p
    BY <1>1, <2>1, <2>2
  <2>7. Way(Front(p)) \subseteq Way(p)
    BY <1>2, <2>3
  <2> QED
    BY <2>3, <2>4, <2>5, <2>6, <2>7
<1> QED
  BY <1>2, <1>3, <1>4

LEMMA ArchiveWays ==
    ASSUME source \in Sources, NEW p \in DOMAIN source
    PROVE  \A r \in Way(p) \ {<<>>} : Is(source, r, "dir")
<1> SUFFICES ASSUME NEW r \in Way(p) \ {<<>>} PROVE Is(source, r, "dir")
  OBVIOUS
<1>1. /\ p \in Seq(STRING) /\ p # <<>>
      /\ \A i \in 1..(Len(p) - 1) : Is(source, SubSeq(p, 1, i), "dir")
  BY ArchiveNames
<1>2. PICK i \in 1..(Len(p) - 1) : r = SubSeq(p, 1, i)
  BY <1>1, Ways
<1> QED
  BY <1>1, <1>2

\* A tree in which every name is below directories.
Grown(t) ==
    /\ Is(t, <<>>, "dir")
    /\ \A q \in DOMAIN t :
          /\ q \in Seq(STRING)
          /\ \A r \in Way(q) : Is(t, r, "dir")
          /\ t[q].kind = "dir" => t[q] = Dir(t[q].mode)

\* It holds the entries of the source but for those in td, each as it is in the
\* source; the directories in dm still have another mode.
Brought(t, td, dm) ==
    \A p \in DOMAIN source \ td :
        /\ p \in DOMAIN t
        /\ IF source[p].kind = "dir"
           THEN t[p] = Dir(IF p \in dm THEN t[p].mode ELSE source[p].mode)
           ELSE t[p] = Original(p)

Woven(t, td, dm) == Grown(t) /\ OwnLinks(t) /\ Brought(t, td, dm)

\* MkdirAll on the way to an entry, or for one that is a directory.
LEMMA DirsMade ==
    ASSUME source \in Sources, NEW t, NEW q \in Seq(STRING), Follow(t, q) = q, MkdirAll(t, q).ok
    PROVE  LET made == MkdirAll(t, q).tree
           IN  /\ DOMAIN made = DOMAIN t \cup (Way(q) \ {<<>>}) \cup (IF q = <<>> THEN {} ELSE {q})
               /\ \A r \in DOMAIN made : made[r] = IF r \in DOMAIN t THEN t[r] ELSE Dir(All)
               /\ \A r \in Way(q) \cup {q} : r \in DOMAIN t => Is(t, r, "dir")
<1> DEFINE way == {SubSeq(q, 1, i) : i \in 1..Len(q)}
           missing == {r \in way : r \notin DOMAIN t}
           made == MkdirAll(t, q).tree
<1>1. way = (Way(q) \ {<<>>}) \cup (IF q = <<>> THEN {} ELSE {q})
  <2>1. CASE q = <<>>
    <3>1. Way(q) = {} /\ way = {}
      BY <2>1 DEF Way
    <3> QED
      BY <2>1, <3>1
  <2>2. CASE q # <<>>
    <3>1. \A r \in way : r = q \/ r \in Way(q) \ {<<>>}
      <4>1. \A i \in 1..Len(q) : SubSeq(q, 1, i) = q \/ SubSeq(q, 1, i) \in Way(q) \ {<<>>}
        BY Ways
      <4> QED
        BY <4>1
    <3>2. q \in way
      BY <2>2, Ways
    <3>3. \A i \in 1..(Len(q) - 1) : i \in 1..Len(q)
      OBVIOUS
    <3>4. ASSUME NEW r \in Way(q) \ {<<>>} PROVE r \in way
      <4>1. PICK i \in 1..(Len(q) - 1) : r = SubSeq(q, 1, i)
        BY <2>2, <3>4, Ways
      <4> QED
        BY <3>3, <4>1
    <3> QED
      BY <2>2, <3>1, <3>2, <3>4
  <2> QED
    BY <2>1, <2>2
<1>2. /\ DOMAIN made = DOMAIN t \cup way
      /\ \A r \in DOMAIN made : made[r] = IF r \in DOMAIN t THEN t[r] ELSE Dir(All)
  BY MadeDirs
<1>3. \A i \in 0..Len(q) : SubSeq(q, 1, i) \in DOMAIN t => Is(t, SubSeq(q, 1, i), "dir")
  <2> DEFINE good == /\ q # Nowhere
                     /\ \A i \in 0..Len(q) : LET r == SubSeq(q, 1, i) IN
                          r \in DOMAIN t => Is(t, r, "dir") /\ (missing # {} => May(t, r, {"x"}))
                     /\ \A r \in missing : Front(r) \in DOMAIN t => May(t, Front(r), All)
  <2>1. ~good => MkdirAll(t, q) = Failed(t)
    BY DEF MkdirAll
  <2>2. good
    BY <2>1 DEF Failed
  <2> QED
    BY <2>2
<1>4. ASSUME NEW r \in Way(q) \cup {q}, r \in DOMAIN t PROVE Is(t, r, "dir")
  <2>1. PICK i \in 0..Len(q) : r = SubSeq(q, 1, i)
    <3>1. SubSeq(q, 1, Len(q)) = q
      OBVIOUS
    <3>2. \A i \in 0..(Len(q) - 1) : i \in 0..Len(q)
      OBVIOUS
    <3>3. Len(q) \in 0..Len(q)
      OBVIOUS
    <3> QED
      BY <1>4, <3>1, <3>2, <3>3 DEF Way
  <2> QED
    BY <1>3, <1>4, <2>1
<1> QED
  BY <1>1, <1>2, <1>4

LEMMA WovenMade ==
    ASSUME source \in Sources, NEW t, NEW td, NEW dm, Woven(t, td, dm),
           NEW q \in Seq(STRING), Follow(t, q) = q, MkdirAll(t, q).ok,
           \A r \in (Way(q) \cup {q}) \ {<<>>} : Is(source, r, "dir")
    PROVE  LET made == MkdirAll(t, q).tree
           IN  /\ Woven(made, td, dm)
               /\ \A r \in DOMAIN t : r \in DOMAIN made /\ made[r] = t[r]
               /\ \A r \in DOMAIN made : r \in DOMAIN t \/ Is(source, r, "dir")
               /\ \A r \in Way(q) \cup {q} : Is(made, r, "dir")
<1> DEFINE made == MkdirAll(t, q).tree
           way == (Way(q) \cup {q}) \ {<<>>}
<1>1. /\ DOMAIN made = DOMAIN t \cup way
      /\ \A r \in DOMAIN made : made[r] = IF r \in DOMAIN t THEN t[r] ELSE Dir(All)
      /\ \A r \in Way(q) \cup {q} : r \in DOMAIN t => Is(t, r, "dir")
  BY DirsMade
<1>2. <<>> \in DOMAIN t /\ t[<<>>].kind = "dir"
  BY DEF Woven, Grown, Is
<1>3. \A r \in Way(q) \cup {q} : r \in Seq(STRING) /\ Way(r) \subseteq Way(q)
  BY Ways
<1> HIDE DEF made
<1>4. \A r \in Way(q) \cup {q} : Is(made, r, "dir")
  BY <1>1, <1>2 DEF Is, Dir
<1>5. \A r \in DOMAIN t : Is(t, r, "dir") => Is(made, r, "dir")
  BY <1>1 DEF Is
<1>6. Grown(made)
  <2> SUFFICES ASSUME NEW r \in DOMAIN made
               PROVE  /\ r \in Seq(STRING)
                      /\ \A w \in Way(r) : Is(made, w, "dir")
                      /\ made[r].kind = "dir" => made[r] = Dir(made[r].mode)
    BY <1>1, <1>2 DEF Grown, Is
  <2>1. CASE r \in DOMAIN t
    <3>1. /\ r \in Seq(STRING)
          /\ \A w \in Way(r) : Is(t, w, "dir")
          /\ t[r].kind = "dir" => t[r] = Dir(t[r].mode)
      BY <2>1 DEF Woven, Grown
    <3>2. \A w \in Way(r) : Is(made, w, "dir")
      BY <1>5, <3>1 DEF Is
    <3> QED
      BY <1>1, <2>1, <3>1, <3>2
  <2>2. CASE r \notin DOMAIN t
    <3>1. r \in Way(q) \cup {q} /\ made[r] = Dir(All)
      BY <1>1, <2>2
    <3> QED
      BY <1>3, <1>4, <3>1 DEF Dir
  <2> QED
    BY <2>1, <2>2
<1>7. OwnLinks(made)
  BY <1>1 DEF Woven, OwnLinks, Dir
<1>8. Brought(made, td, dm)
  BY <1>1 DEF Woven, Brought
<1>9. \A r \in DOMAIN made : r \in DOMAIN t \/ Is(source, r, "dir")
  BY <1>1
<1>10. \A r \in DOMAIN t : r \in DOMAIN made /\ made[r] = t[r]
  BY <1>1
<1> QED
  BY <1>4, <1>6, <1>7, <1>8, <1>9, <1>10 DEF Woven, made

\* What is at a name is removed, or nothing is.
LEMMA Removed ==
    ASSUME NEW t, NEW q, OwnLinks(t)
    PROVE  LET r == rootRemove(t, q)
           IN  /\ DOMAIN r \subseteq DOMAIN t /\ DOMAIN t \ {q} \subseteq DOMAIN r
               /\ \A w \in DOMAIN r : r[w] = t[w]
               /\ q \in DOMAIN t \ DOMAIN r => Below(t, q) = {}
               /\ OwnLinks(r)
<1> DEFINE r == rootRemove(t, q)
<1>1. r = t \/ (r = [w \in DOMAIN t \ {q} |-> t[w]] /\ Below(t, q) = {})
  BY DEF rootRemove
<1> HIDE DEF r
<1>2. DOMAIN r \subseteq DOMAIN t /\ DOMAIN t \ {q} \subseteq DOMAIN r /\ \A w \in DOMAIN r : r[w] = t[w]
  BY <1>1
<1>3. q \in DOMAIN t \ DOMAIN r => Below(t, q) = {}
  BY <1>1
<1>4. OwnLinks(r)
  BY <1>2 DEF OwnLinks
<1> QED
  BY <1>2, <1>3, <1>4 DEF r

\* An entry that is no directory takes the place of what is there, if it can.
LEMMA EntryWritten ==
    ASSUME source \in Sources, NEW t, OwnLinks(t), NEW p \in DOMAIN source, NEW e,
           source[p].kind = "hard" =>
              source[p].to # p /\ source[p].to \in DOMAIN t /\ t[source[p].to] = Original(p),
           \/ source[p].kind = "file" /\ e = writeFile(t, p, source[p])
           \/ source[p].kind = "link" /\ e = symlink(t, p, source[p])
           \/ source[p].kind = "hard" /\ e = hardlink(t, p, source[p])
    PROVE  /\ DOMAIN e.tree \subseteq DOMAIN t \cup {p} /\ DOMAIN t \ {p} \subseteq DOMAIN e.tree
           /\ \A w \in DOMAIN e.tree \ {p} : e.tree[w] = t[w]
           /\ e.ok => /\ p \in DOMAIN e.tree /\ e.tree[p] = Original(p)
                      /\ p \in DOMAIN t => t[p].kind # "dir" \/ Below(t, p) = {}
<1>1. Place(t, p) = p
  BY LeadsToItself
<1> DEFINE r == rootRemove(t, p)
<1>2. /\ DOMAIN r \subseteq DOMAIN t /\ DOMAIN t \ {p} \subseteq DOMAIN r
      /\ \A w \in DOMAIN r : r[w] = t[w]
      /\ p \in DOMAIN t \ DOMAIN r => Below(t, p) = {}
      /\ OwnLinks(r)
  BY Removed
<1> HIDE DEF r
<1>3. CASE source[p].kind = "file"
  <2> DEFINE s == IF Is(t, p, "dir") THEN t ELSE r
             f == Follow(s, p)
  <2>1. /\ DOMAIN s \subseteq DOMAIN t /\ DOMAIN t \ {p} \subseteq DOMAIN s
        /\ \A w \in DOMAIN s : s[w] = t[w]
        /\ OwnLinks(s)
        /\ Is(t, p, "dir") => Is(s, p, "dir")
    BY <1>2
  <2>2. \/ e = Done(Put(s, f, source[p])) /\ ~Is(s, f, "dir")
        \/ e = Failed(s)
    BY <1>1, <1>3 DEF writeFile, r
  <2> HIDE DEF s
  <2>3. ~Is(s, p, "link")
    BY <1>3, <2>1 DEF OwnLinks, Is
  <2>4. f = p
    BY <2>1, <2>3, LeadsToItself
  <2> HIDE DEF f
  <2>5. CASE e = Done(Put(s, p, source[p])) /\ ~Is(s, p, "dir")
    <3>1. DOMAIN e.tree = DOMAIN s \cup {p} /\ \A w \in DOMAIN e.tree : e.tree[w] = IF w = p THEN source[p] ELSE s[w]
      BY <2>5 DEF Done, Put
    <3>2. Original(p) = source[p]
      BY <1>3 DEF Original
    <3>3. p \in DOMAIN t => t[p].kind # "dir"
      BY <2>1, <2>5 DEF Is
    <3> QED
      BY <2>1, <3>1, <3>2, <3>3
  <2>6. CASE e = Failed(s)
    BY <2>1, <2>6 DEF Failed
  <2> QED
    BY <2>2, <2>4, <2>5, <2>6
<1>4. CASE source[p].kind = "link"
  <2>1. (e = Done(Put(r, p, source[p])) /\ p \notin DOMAIN r) \/ e = Failed(r)
    BY <1>1, <1>4 DEF symlink, r
  <2>2. CASE e = Done(Put(r, p, source[p])) /\ p \notin DOMAIN r
    <3>1. DOMAIN e.tree = DOMAIN r \cup {p} /\ \A w \in DOMAIN e.tree : e.tree[w] = IF w = p THEN source[p] ELSE r[w]
      BY <2>2 DEF Done, Put
    <3>2. Original(p) = source[p]
      BY <1>4 DEF Original
    <3> QED
      BY <1>2, <2>2, <3>1, <3>2
  <2>3. CASE e = Failed(r)
    BY <1>2, <2>3 DEF Failed
  <2> QED
    BY <2>1, <2>2, <2>3
<1>5. CASE source[p].kind = "hard"
  <2> DEFINE q == source[p].to
             target == Follow(r, q)
  <2>1. q \in DOMAIN source /\ source[q].kind = "file" /\ Original(p) = source[q]
    BY <1>5, ArchiveNames DEF Is, Original
  <2>2. q \in DOMAIN r /\ r[q] = Original(p)
    BY <1>2, <1>5
  <2>3. (e = Done(Put(r, p, r[target])) /\ p \notin DOMAIN r) \/ e = Failed(r)
    BY <1>1, <1>5 DEF hardlink, r
  <2>4. target = q
    BY <1>2, <2>1, <2>2, LeadsToItself DEF Is
  <2> HIDE DEF target, q
  <2>5. CASE e = Done(Put(r, p, r[q])) /\ p \notin DOMAIN r
    <3>1. DOMAIN e.tree = DOMAIN r \cup {p} /\ \A w \in DOMAIN e.tree : e.tree[w] = IF w = p THEN r[q] ELSE r[w]
      BY <2>5 DEF Done, Put
    <3> QED
      BY <1>2, <2>2, <2>5, <3>1
  <2>6. CASE e = Failed(r)
    BY <1>2, <2>6 DEF Failed
  <2> QED
    BY <2>3, <2>4, <2>5, <2>6
<1> QED
  BY <1>3, <1>4, <1>5

LEMMA EntryWoven ==
    ASSUME source \in Sources, NEW t, NEW td, NEW dm, Woven(t, td, dm),
           NEW p \in td, p \in DOMAIN source, source[p].kind # "dir",
           \A r \in Way(p) : Is(t, r, "dir"),
           NEW u, DOMAIN u \subseteq DOMAIN t \cup {p}, DOMAIN t \ {p} \subseteq DOMAIN u,
           \A w \in DOMAIN u \ {p} : u[w] = t[w],
           p \in DOMAIN u, u[p] = Original(p), p \in DOMAIN t => t[p].kind # "dir" \/ Below(t, p) = {}
    PROVE  Woven(u, td \ {p}, dm)
<1>1. p \in Seq(STRING) /\ p # <<>> /\ Original(p).kind # "dir"
      /\ (Original(p).kind = "link" => source[p].kind = "link")
  BY ArchiveNames DEF Original, Is
<1>2. ASSUME NEW q \in DOMAIN t PROVE p \notin Way(q)
  <2>1. q \in Seq(STRING) /\ \A r \in Way(q) : Is(t, r, "dir")
    BY DEF Woven, Grown
  <2>2. p \in Way(q) => IsStrictPrefix(p, q)
    BY <2>1, Ways
  <2> QED
    BY <2>1, <2>2 DEF Is, Below
<1>3. p \notin Way(p)
  BY <1>1, Ways DEF IsStrictPrefix
<1>4. \A r : r # p /\ Is(t, r, "dir") => Is(u, r, "dir")
  BY DEF Is
<1>5. Grown(u)
  <2>1. Is(u, <<>>, "dir")
    BY <1>1, <1>4 DEF Woven, Grown
  <2>2. ASSUME NEW q \in DOMAIN u
        PROVE  /\ q \in Seq(STRING)
               /\ \A r \in Way(q) : Is(u, r, "dir")
               /\ u[q].kind = "dir" => u[q] = Dir(u[q].mode)
    <3>1. CASE q = p
      BY <1>1, <1>3, <1>4, <3>1
    <3>2. CASE q # p
      <4>1. /\ q \in DOMAIN t /\ u[q] = t[q] /\ q \in Seq(STRING)
            /\ \A r \in Way(q) : Is(t, r, "dir")
            /\ t[q].kind = "dir" => t[q] = Dir(t[q].mode)
        BY <2>2, <3>2 DEF Woven, Grown
      <4> QED
        BY <1>2, <1>4, <4>1
    <3> QED
      BY <3>1, <3>2
  <2> QED
    BY <2>1, <2>2 DEF Grown
<1>6. OwnLinks(u)
  BY <1>1 DEF Woven, OwnLinks, Is
<1>7. Brought(u, td \ {p}, dm)
  BY DEF Woven, Brought
<1> QED
  BY <1>5, <1>6, <1>7 DEF Woven

\* An entry that was extracted is woven in.
LEMMA ExtractedWoven ==
    ASSUME source \in Sources, NEW t, NEW td \in SUBSET DOMAIN source, NEW dm, Woven(t, td, dm),
           NEW p \in td, source[p].kind = "hard" => source[p].to \notin td,
           Extracted(t, p, source[p]).ok
    PROVE  Woven(Extracted(t, p, source[p]).tree, td \ {p},
                 IF source[p].kind = "dir" THEN dm \cup {p} ELSE dm)
<1> DEFINE e == Extracted(t, p, source[p])
           up == MkdirAll(t, Front(p))
<1>1. p \in Seq(STRING) /\ p # <<>> /\ source[p].kind \in {"file", "dir", "link", "hard"}
  BY ArchiveNames, KnownKind
<1>2. /\ Front(p) \in Seq(STRING) /\ Way(p) = Way(Front(p)) \cup {Front(p)}
      /\ \A r \in Way(p) \ {<<>>} : Is(source, r, "dir")
  BY <1>1, Parts, Ways, ArchiveWays
<1>3. OwnLinks(t)
  BY DEF Woven
<1>4. e = Failed(t) => FALSE
  BY DEF Failed
<1>5. CASE source[p].kind = "dir"
  <2>1. e = MkdirAll(t, p)
    BY <1>4, <1>5 DEF Extracted
  <2>2. Follow(t, p) = p
    BY <1>3, <1>5, LeadsToItself DEF OwnLinks, Is
  <2>3. \A r \in (Way(p) \cup {p}) \ {<<>>} : Is(source, r, "dir")
    BY <1>2, <1>5 DEF Is
  <2>4. Woven(e.tree, td, dm) /\ Is(e.tree, p, "dir")
    BY <1>1, <2>1, <2>2, <2>3, WovenMade
  <2> HIDE DEF e
  <2>5. e.tree[p] = Dir(e.tree[p].mode)
    BY <2>4 DEF Woven, Grown, Is
  <2>6. Brought(e.tree, td \ {p}, dm \cup {p})
    <3> SUFFICES ASSUME NEW q \in DOMAIN source \ (td \ {p})
                 PROVE  /\ q \in DOMAIN e.tree
                        /\ IF source[q].kind = "dir"
                           THEN e.tree[q] = Dir(IF q \in dm \cup {p} THEN e.tree[q].mode ELSE source[q].mode)
                           ELSE e.tree[q] = Original(q)
      BY DEF Brought
    <3>1. CASE q = p
      BY <1>5, <2>4, <2>5, <3>1 DEF Is
    <3>2. CASE q # p
      BY <2>4, <3>2 DEF Woven, Brought
    <3> QED
      BY <3>1, <3>2
  <2> QED
    BY <1>5, <2>4, <2>6 DEF Woven, e
<1>6. CASE source[p].kind # "dir"
  <2>1. up.ok
    <3>1. ~up.ok => e = up
      BY <1>4, <1>6 DEF Extracted
    <3> QED
      BY <3>1
  <2>2. \/ source[p].kind = "file" /\ e = writeFile(up.tree, p, source[p])
        \/ source[p].kind = "link" /\ e = symlink(up.tree, p, source[p])
        \/ source[p].kind = "hard" /\ e = hardlink(up.tree, p, source[p])
    BY <1>1, <1>4, <1>6, <2>1 DEF Extracted
  <2>3. Follow(t, Front(p)) = Front(p)
    BY <1>3, LeadsToItself
  <2>4. Woven(up.tree, td, dm) /\ \A r \in Way(p) : Is(up.tree, r, "dir")
    BY <1>2, <2>1, <2>3, WovenMade
  <2> HIDE DEF e, up
  <2>5. ASSUME source[p].kind = "hard"
        PROVE  source[p].to # p /\ source[p].to \in DOMAIN up.tree /\ up.tree[source[p].to] = Original(p)
    <3>1. source[p].to \in DOMAIN source \ td /\ source[source[p].to].kind = "file"
      BY <2>5, ArchiveNames DEF Is
    <3> QED
      BY <2>4, <2>5, <3>1 DEF Woven, Brought, Original
  <2>6. OwnLinks(up.tree) /\ e.ok
    BY <2>4 DEF Woven, e
  <2>7. /\ DOMAIN e.tree \subseteq DOMAIN up.tree \cup {p} /\ DOMAIN up.tree \ {p} \subseteq DOMAIN e.tree
        /\ \A w \in DOMAIN e.tree \ {p} : e.tree[w] = up.tree[w]
        /\ p \in DOMAIN e.tree /\ e.tree[p] = Original(p)
        /\ p \in DOMAIN up.tree => up.tree[p].kind # "dir" \/ Below(up.tree, p) = {}
    BY <2>2, <2>5, <2>6, EntryWritten
  <2>8. Woven(e.tree, td \ {p}, dm)
    BY <1>6, <2>4, <2>7, EntryWoven
  <2> QED
    BY <1>6, <2>8 DEF e
<1> QED
  BY <1>5, <1>6

LEMMA ModeWoven ==
    ASSUME source \in Sources, NEW t, NEW dm, Woven(t, {}, dm),
           NEW p \in dm, p \in DOMAIN source, source[p].kind = "dir",
           Chmod(t, p, source[p].mode).ok
    PROVE  Woven(Chmod(t, p, source[p].mode).tree, {}, dm \ {p})
<1> DEFINE u == Chmod(t, p, source[p].mode).tree
<1>1. p \in DOMAIN t /\ t[p] = Dir(t[p].mode)
  BY DEF Woven, Brought
<1>2. Follow(t, p) = p
  BY <1>1, LeadsToItself DEF Woven, Is, Dir
<1>3. u = Put(t, p, [t[p] EXCEPT !.mode = source[p].mode])
  <2>1. \/ Chmod(t, p, source[p].mode) = Done(Put(t, p, [t[p] EXCEPT !.mode = source[p].mode]))
        \/ Chmod(t, p, source[p].mode) = Failed(t)
    BY <1>2 DEF Chmod
  <2> QED
    BY <2>1 DEF Done, Failed
<1>4. [t[p] EXCEPT !.mode = source[p].mode] = Dir(source[p].mode)
  BY <1>1 DEF Dir
<1>5. DOMAIN u = DOMAIN t /\ \A r \in DOMAIN u : u[r] = IF r = p THEN Dir(source[p].mode) ELSE t[r]
  BY <1>1, <1>3, <1>4 DEF Put
<1>6. Dir(source[p].mode).kind = "dir" /\ Dir(source[p].mode).mode = source[p].mode /\ t[p].kind = "dir"
  BY <1>1 DEF Dir
<1> HIDE DEF u
<1>7. \A r : Is(t, r, "dir") => Is(u, r, "dir")
  BY <1>5, <1>6 DEF Is
<1>8. Grown(u)
  <2>1. ASSUME NEW q \in DOMAIN u
        PROVE  /\ q \in Seq(STRING)
               /\ \A r \in Way(q) : Is(u, r, "dir")
               /\ u[q].kind = "dir" => u[q] = Dir(u[q].mode)
    <3>1. q \in Seq(STRING) /\ \A r \in Way(q) : Is(t, r, "dir")
      BY <1>5, <2>1 DEF Woven, Grown
    <3>2. u[q].kind = "dir" => u[q] = Dir(u[q].mode)
      BY <1>5, <1>6, <2>1 DEF Woven, Grown
    <3> QED
      BY <1>7, <3>1, <3>2
  <2> QED
    BY <1>7, <2>1 DEF Woven, Grown
<1>9. OwnLinks(u)
  BY <1>5, <1>6 DEF Woven, OwnLinks
<1>10. Brought(u, {}, dm \ {p})
  BY <1>5 DEF Woven, Brought
<1> QED
  BY <1>8, <1>9, <1>10 DEF Woven, u

\* MkdirAll leaves alone what is there, whether it succeeds or not.
LEMMA MadeKeeps ==
    ASSUME NEW t, NEW q
    PROVE  LET made == MkdirAll(t, q).tree
           IN  /\ DOMAIN t \subseteq DOMAIN made /\ \A r \in DOMAIN t : made[r] = t[r]
               /\ \A r \in DOMAIN made \ DOMAIN t : made[r] = Dir(All)
<1> DEFINE missing == {r \in {SubSeq(Follow(t, q), 1, i) : i \in 1..Len(Follow(t, q))} : r \notin DOMAIN t}
           made == [r \in DOMAIN t \cup missing |-> IF r \in missing THEN Dir(All) ELSE t[r]]
<1>1. MkdirAll(t, q) = Done(made) \/ MkdirAll(t, q) = Failed(t)
  BY DEF MkdirAll
<1>2. MkdirAll(t, q).tree = made \/ MkdirAll(t, q).tree = t
  BY <1>1 DEF Done, Failed
<1>3. DOMAIN made = DOMAIN t \cup missing /\ \A r \in DOMAIN made : made[r] = IF r \in missing THEN Dir(All) ELSE t[r]
  OBVIOUS
<1>4. \A r \in missing : r \notin DOMAIN t
  OBVIOUS
<1> HIDE DEF made, missing
<1> QED
  BY <1>2, <1>3, <1>4

\* An entry changes nothing in the tree but what is at its own name, whether it
\* is extracted or fails, in the middle of the file too.
LEMMA OnlyItsName ==
    ASSUME source \in Sources, NEW t, OwnLinks(t), NEW p \in DOMAIN source, NEW u,
           \/ u = Extracted(t, p, source[p]).tree
           \/ source[p].kind = "file" /\ u = HalfWritten(t, p)
           \/ source[p].kind = "dir" /\ u = Chmod(t, p, source[p].mode).tree
    PROVE  \A q \in DOMAIN t \ {p} : q \in DOMAIN u /\ u[q] = t[q]
<1> DEFINE up == MkdirAll(t, Front(p)).tree
           half == File("half", All)
<1>1. /\ DOMAIN t \subseteq DOMAIN up /\ \A r \in DOMAIN t : up[r] = t[r]
      /\ \A r \in DOMAIN up \ DOMAIN t : up[r] = Dir(All)
  BY MadeKeeps
<1>2. OwnLinks(up)
  BY <1>1 DEF OwnLinks, Dir
<1>3. Place(up, p) = p
  BY <1>2, LeadsToItself
<1> HIDE DEF up
<1>4. ASSUME NEW n, source[p].kind = "file"
      PROVE  \A q \in DOMAIN up \ {p} : q \in DOMAIN writeFile(up, p, n).tree /\ writeFile(up, p, n).tree[q] = up[q]
  <2> DEFINE r == rootRemove(up, p)
             s == IF Is(up, p, "dir") THEN up ELSE r
             f == Follow(s, p)
  <2>1. /\ DOMAIN r \subseteq DOMAIN up /\ DOMAIN up \ {p} \subseteq DOMAIN r
        /\ \A w \in DOMAIN r : r[w] = up[w]
        /\ OwnLinks(r)
    BY <1>2, Removed
  <2> HIDE DEF r
  <2>2. /\ DOMAIN s \subseteq DOMAIN up /\ DOMAIN up \ {p} \subseteq DOMAIN s
        /\ \A w \in DOMAIN s : s[w] = up[w]
        /\ OwnLinks(s)
    BY <1>2, <2>1
  <2>3. writeFile(up, p, n) = Done(Put(s, f, n)) \/ writeFile(up, p, n) = Failed(s)
    BY <1>3 DEF writeFile, r
  <2> HIDE DEF s
  <2>4. f = p
    BY <1>4, <2>2, LeadsToItself DEF OwnLinks, Is
  <2> HIDE DEF f
  <2>5. writeFile(up, p, n).tree = Put(s, p, n) \/ writeFile(up, p, n).tree = s
    BY <2>3, <2>4 DEF Done, Failed
  <2> QED
    BY <2>2, <2>5 DEF Put
<1>5. ASSUME NEW n
      PROVE  \A q \in DOMAIN up \ {p} :
                /\ q \in DOMAIN symlink(up, p, n).tree /\ symlink(up, p, n).tree[q] = up[q]
                /\ q \in DOMAIN hardlink(up, p, n).tree /\ hardlink(up, p, n).tree[q] = up[q]
  <2> DEFINE r == rootRemove(up, p)
             x == r[Follow(r, n.to)]
  <2>1. /\ DOMAIN r \subseteq DOMAIN up /\ DOMAIN up \ {p} \subseteq DOMAIN r
        /\ \A w \in DOMAIN r : r[w] = up[w]
    BY <1>2, Removed
  <2>2. symlink(up, p, n) = Done(Put(r, p, n)) \/ symlink(up, p, n) = Failed(r)
    BY <1>3 DEF symlink
  <2>3. hardlink(up, p, n) = Done(Put(r, p, x)) \/ hardlink(up, p, n) = Failed(r)
    BY <1>3 DEF hardlink
  <2> HIDE DEF r, x
  <2>4. /\ symlink(up, p, n).tree = Put(r, p, n) \/ symlink(up, p, n).tree = r
        /\ hardlink(up, p, n).tree = Put(r, p, x) \/ hardlink(up, p, n).tree = r
    BY <2>2, <2>3 DEF Done, Failed
  <2> QED
    BY <2>1, <2>4 DEF Put
<1>6. CASE u = Extracted(t, p, source[p]).tree
  <2>1. source[p].kind \in {"file", "dir", "link", "hard"} \/ Refused(p, source[p])
    BY ArchiveNames DEF Refused
  <2>2. \/ u = t \/ u = MkdirAll(t, p).tree \/ u = up
        \/ source[p].kind = "file" /\ u = writeFile(up, p, source[p]).tree
        \/ source[p].kind = "link" /\ u = symlink(up, p, source[p]).tree
        \/ source[p].kind = "hard" /\ u = hardlink(up, p, source[p]).tree
    <3> DEFINE e == Extracted(t, p, source[p])
    <3>1. \/ e = Failed(t) \/ e = MkdirAll(t, p) \/ e = MkdirAll(t, Front(p))
          \/ source[p].kind = "file" /\ e = writeFile(up, p, source[p])
          \/ source[p].kind = "link" /\ e = symlink(up, p, source[p])
          \/ source[p].kind = "hard" /\ e = hardlink(up, p, source[p])
      BY <2>1 DEF Extracted, up
    <3> HIDE DEF e
    <3>2. u = e.tree
      BY <1>6 DEF e
    <3> QED
      BY <3>1, <3>2 DEF Failed, up
  <2>3. u = MkdirAll(t, p).tree => DOMAIN t \subseteq DOMAIN u /\ \A r \in DOMAIN t : u[r] = t[r]
    BY MadeKeeps
  <2> QED
    BY <1>1, <1>4, <1>5, <2>2, <2>3
<1>7. CASE source[p].kind = "file" /\ u = HalfWritten(t, p)
  <2>1. u = writeFile(up, p, half).tree \/ u = t
    BY <1>7 DEF HalfWritten, up
  <2> QED
    BY <1>1, <1>4, <1>7, <2>1
<1>8. CASE source[p].kind = "dir" /\ u = Chmod(t, p, source[p].mode).tree
  <2>1. ~Is(t, p, "link")
    BY <1>8 DEF OwnLinks, Is
  <2>2. Follow(t, p) = p
    BY <2>1, LeadsToItself
  <2>3. \/ Chmod(t, p, source[p].mode) = Done(Put(t, p, [t[p] EXCEPT !.mode = source[p].mode]))
        \/ Chmod(t, p, source[p].mode) = Failed(t)
    BY <2>2 DEF Chmod
  <2>4. u = Put(t, p, [t[p] EXCEPT !.mode = source[p].mode]) \/ u = t
    BY <1>8, <2>3 DEF Done, Failed
  <2> QED
    BY <2>4 DEF Put
<1> QED
  BY <1>6, <1>7, <1>8

-----------------------------------------------------------------------------
(* When nothing is in the way, and no directory is locked, nothing fails.   *)

Passable(t) == \A q \in DOMAIN t : t[q].kind = "dir" => May(t, q, All)
NoClash(t) == \A q \in DOMAIN source \cap DOMAIN t : t[q].kind = "dir" <=> source[q].kind = "dir"

LEMMA StrictlyAbove ==
    ASSUME NEW p \in Seq(STRING), NEW q \in Seq(STRING), IsStrictPrefix(p, q)
    PROVE  p \in Way(q)
<1>1. PICK m \in Nat, n \in Nat : m = Len(p) /\ n = Len(q)
  OBVIOUS
<1>2. m <= n /\ SubSeq(p, 1, m) = SubSeq(q, 1, m) /\ p # q
  BY <1>1 DEF IsStrictPrefix, IsPrefix
<1>3. SubSeq(p, 1, m) = p /\ SubSeq(q, 1, n) = q
  BY <1>1
<1>4. m \in 0..(n - 1)
  BY <1>2, <1>3
<1> QED
  BY <1>1, <1>2, <1>3, <1>4 DEF Way

LEMMA MadeOk ==
    ASSUME NEW t, Passable(t), NEW q \in Seq(STRING), Follow(t, q) = q, q # Nowhere,
           \A r \in Way(q) \cup {q} : r \in DOMAIN t => Is(t, r, "dir")
    PROVE  MkdirAll(t, q).ok
<1> DEFINE missing == {r \in {SubSeq(q, 1, i) : i \in 1..Len(q)} : r \notin DOMAIN t}
           made == [r \in DOMAIN t \cup missing |-> IF r \in missing THEN Dir(All) ELSE t[r]]
<1>1. ASSUME NEW r \in DOMAIN t, r \in Way(q) \cup {q}
      PROVE  Is(t, r, "dir") /\ May(t, r, All) /\ May(t, r, {"x"})
  BY <1>1 DEF Passable, May, Is, All
<1>2. ASSUME NEW i \in 0..Len(q) PROVE SubSeq(q, 1, i) \in Way(q) \cup {q}
  <2>1. CASE i = Len(q)
    BY <2>1
  <2>2. CASE i # Len(q)
    <3>1. i \in 0..(Len(q) - 1)
      BY <2>2
    <3> QED
      BY <3>1 DEF Way
  <2> QED
    BY <2>1, <2>2
<1>3. ASSUME NEW r \in missing PROVE Front(r) \in Way(q)
  <2>1. PICK i \in 1..Len(q) : r = SubSeq(q, 1, i)
    BY <1>3
  <2>2. i \in 0..Len(q) /\ r # <<>>
    BY <2>1
  <2>3. r \in Way(q) \cup {q}
    BY <1>2, <2>1, <2>2
  <2>4. r \in Seq(STRING) /\ Way(r) \subseteq Way(q)
    BY <2>3, Ways
  <2> QED
    BY <2>2, <2>4, Ways
<1>4. MkdirAll(t, q) = Done(made)
  <2>1. \A i \in 0..Len(q) : SubSeq(q, 1, i) \in DOMAIN t =>
           Is(t, SubSeq(q, 1, i), "dir") /\ May(t, SubSeq(q, 1, i), {"x"})
    BY <1>1, <1>2
  <2>2. \A r \in missing : Front(r) \in DOMAIN t => May(t, Front(r), All)
    BY <1>1, <1>3
  <2> QED
    BY <2>1, <2>2 DEF MkdirAll
<1> QED
  BY <1>4 DEF Done

\* An entry that is written where nothing is in the way.
LEMMA WrittenOk ==
    ASSUME source \in Sources, NEW t, Grown(t), OwnLinks(t), Passable(t), NoClash(t),
           NEW p \in DOMAIN source, \A r \in Way(p) : Is(t, r, "dir"),
           source[p].kind = "hard" =>
              source[p].to # p /\ source[p].to \in DOMAIN t /\ t[source[p].to] = Original(p)
    PROVE  /\ source[p].kind = "file" => writeFile(t, p, source[p]).ok
           /\ source[p].kind = "link" => symlink(t, p, source[p]).ok
           /\ source[p].kind = "hard" => hardlink(t, p, source[p]).ok
<1> SUFFICES ASSUME source[p].kind # "dir"
             PROVE  /\ source[p].kind = "file" => writeFile(t, p, source[p]).ok
                    /\ source[p].kind = "link" => symlink(t, p, source[p]).ok
                    /\ source[p].kind = "hard" => hardlink(t, p, source[p]).ok
  OBVIOUS
<1> DEFINE r == rootRemove(t, p)
<1>1. p \in Seq(STRING) /\ p # <<>>
  BY ArchiveNames
<1>2. Place(t, p) = p /\ p # Nowhere
  BY LeadsToItself
<1>3. ~Is(t, p, "dir")
  BY DEF NoClash, Is
<1>4. Is(t, Front(p), "dir") /\ Front(p) # p /\ May(t, Front(p), All)
  BY <1>1, Ways DEF Passable, Is, IsStrictPrefix
<1>5. p \in DOMAIN t => Below(t, p) = {}
  <2> SUFFICES ASSUME p \in DOMAIN t, NEW q \in DOMAIN t, IsStrictPrefix(p, q) PROVE FALSE
    BY DEF Below
  <2>1. p \in Way(q)
    BY <1>1, StrictlyAbove DEF Grown
  <2> QED
    BY <1>3, <2>1 DEF Grown
<1>6. /\ DOMAIN r \subseteq DOMAIN t /\ DOMAIN t \ {p} \subseteq DOMAIN r
      /\ \A w \in DOMAIN r : r[w] = t[w]
      /\ OwnLinks(r)
  BY Removed
<1>7. p \notin DOMAIN r
  BY <1>4, <1>5 DEF rootRemove
<1> HIDE DEF r
<1>8. Follow(r, p) = p /\ ~Is(r, p, "dir")
  BY <1>6, <1>7, LeadsToItself DEF Is
<1>9. May(r, Front(p), All)
  BY <1>4, <1>6 DEF May, Is
<1>10. ASSUME source[p].kind = "file" PROVE writeFile(t, p, source[p]).ok
  <2>1. writeFile(t, p, source[p]) = Done(Put(r, p, source[p]))
    BY <1>2, <1>3, <1>7, <1>8, <1>9 DEF writeFile, r
  <2> QED
    BY <2>1 DEF Done
<1>11. ASSUME source[p].kind = "link" PROVE symlink(t, p, source[p]).ok
  <2>1. symlink(t, p, source[p]) = Done(Put(r, p, source[p]))
    BY <1>2, <1>7, <1>9 DEF symlink, r
  <2> QED
    BY <2>1 DEF Done
<1>12. ASSUME source[p].kind = "hard" PROVE hardlink(t, p, source[p]).ok
  <2> DEFINE q == source[p].to
  <2>1. q \in DOMAIN source /\ source[q].kind = "file" /\ Original(p) = source[q]
    BY <1>12, ArchiveNames DEF Is, Original
  <2>2. q \in DOMAIN r /\ r[q] = source[q]
    BY <1>6, <1>12, <2>1
  <2> HIDE DEF q
  <2>3. Follow(r, q) = q /\ Is(r, q, "file")
    BY <1>6, <2>1, <2>2, LeadsToItself DEF Is
  <2>4. hardlink(t, p, source[p]) = Done(Put(r, p, r[q]))
    BY <1>2, <1>7, <1>9, <2>3 DEF hardlink, r, q
  <2> QED
    BY <2>4 DEF Done
<1> QED
  BY <1>10, <1>11, <1>12

LEMMA ExtractedOk ==
    ASSUME source \in Sources, NEW t, NEW td, NEW dm, Woven(t, td, dm), Passable(t), NoClash(t),
           NEW p \in td, p \in DOMAIN source, source[p].kind = "hard" => source[p].to \notin td,
           ~Refused(p, source[p])
    PROVE  /\ Extracted(t, p, source[p]).ok
           /\ Passable(Extracted(t, p, source[p]).tree)
           /\ NoClash(Extracted(t, p, source[p]).tree)
<1> DEFINE e == Extracted(t, p, source[p])
           up == MkdirAll(t, Front(p))
<1>1. p \in Seq(STRING) /\ p # <<>> /\ source[p].kind \in {"file", "dir", "link", "hard"}
  BY ArchiveNames DEF Refused
<1>2. /\ Front(p) \in Seq(STRING) /\ Way(p) = Way(Front(p)) \cup {Front(p)}
      /\ \A r \in Way(p) \ {<<>>} : Is(source, r, "dir")
  BY <1>1, Parts, Ways, ArchiveWays
<1>3. OwnLinks(t) /\ Grown(t) /\ Is(t, <<>>, "dir")
  BY DEF Woven, Grown
<1>4. \A r \in Way(p) : r \in DOMAIN t => Is(t, r, "dir")
  BY <1>2, <1>3 DEF NoClash, Is
<1>5. p # Nowhere /\ Front(p) # Nowhere /\ Follow(t, Front(p)) = Front(p)
  BY <1>3, LeadsToItself
<1>made. ASSUME NEW q
         PROVE  LET made == MkdirAll(t, q).tree
                IN  /\ Passable(made)
                    /\ (\A r \in DOMAIN made : r \in DOMAIN t \/ Is(source, r, "dir")) => NoClash(made)
  <2> DEFINE made == MkdirAll(t, q).tree
  <2>1. /\ DOMAIN t \subseteq DOMAIN made /\ \A r \in DOMAIN t : made[r] = t[r]
        /\ \A r \in DOMAIN made \ DOMAIN t : made[r] = Dir(All)
    BY MadeKeeps
  <2> HIDE DEF made
  <2>2. Passable(made)
    BY <2>1 DEF Passable, May, Dir
  <2>3. ASSUME \A r \in DOMAIN made : r \in DOMAIN t \/ Is(source, r, "dir") PROVE NoClash(made)
    BY <2>1, <2>3 DEF NoClash, Is, Dir
  <2> QED
    BY <2>2, <2>3 DEF made
<1>6. CASE source[p].kind = "dir"
  <2>1. e = MkdirAll(t, p)
    BY <1>6 DEF Extracted
  <2>2. Follow(t, p) = p
    BY <1>3, <1>6, LeadsToItself DEF OwnLinks, Is
  <2>3. \A r \in Way(p) \cup {p} : r \in DOMAIN t => Is(t, r, "dir")
    BY <1>4, <1>6 DEF NoClash, Is
  <2>4. MkdirAll(t, p).ok
    BY <1>1, <1>5, <2>2, <2>3, MadeOk
  <2>5. \A r \in (Way(p) \cup {p}) \ {<<>>} : Is(source, r, "dir")
    BY <1>2, <1>6 DEF Is
  <2>6. \A r \in DOMAIN MkdirAll(t, p).tree : r \in DOMAIN t \/ Is(source, r, "dir")
    BY <1>1, <2>2, <2>4, <2>5, WovenMade
  <2> QED
    BY <1>made, <2>1, <2>4, <2>6
<1>7. CASE source[p].kind # "dir"
  <2>1. \A r \in Way(Front(p)) \cup {Front(p)} : r \in DOMAIN t => Is(t, r, "dir")
    BY <1>2, <1>4
  <2>2. up.ok
    BY <1>2, <1>5, <2>1, MadeOk
  <2>3. /\ Woven(up.tree, td, dm) /\ \A r \in Way(p) : Is(up.tree, r, "dir")
        /\ \A r \in DOMAIN up.tree : r \in DOMAIN t \/ Is(source, r, "dir")
    BY <1>2, <1>5, <2>2, WovenMade
  <2>4. Passable(up.tree) /\ NoClash(up.tree)
    BY <1>made, <2>3
  <2>5. \/ source[p].kind = "file" /\ e = writeFile(up.tree, p, source[p])
        \/ source[p].kind = "link" /\ e = symlink(up.tree, p, source[p])
        \/ source[p].kind = "hard" /\ e = hardlink(up.tree, p, source[p])
    BY <1>1, <1>7, <2>2 DEF Extracted
  <2> HIDE DEF e, up
  <2>6. ASSUME source[p].kind = "hard"
        PROVE  source[p].to # p /\ source[p].to \in DOMAIN up.tree /\ up.tree[source[p].to] = Original(p)
    <3>1. source[p].to \in DOMAIN source \ td /\ source[source[p].to].kind = "file"
      BY <2>6, ArchiveNames DEF Is
    <3> QED
      BY <2>3, <2>6, <3>1 DEF Woven, Brought, Original
  <2>7. Grown(up.tree) /\ OwnLinks(up.tree)
    BY <2>3 DEF Woven
  <2>8. e.ok
    BY <2>3, <2>4, <2>5, <2>6, <2>7, WrittenOk
  <2>9. /\ DOMAIN e.tree \subseteq DOMAIN up.tree \cup {p}
        /\ \A w \in DOMAIN e.tree \ {p} : e.tree[w] = up.tree[w]
        /\ e.tree[p] = Original(p)
    BY <2>5, <2>6, <2>7, <2>8, EntryWritten
  <2>10. Original(p).kind # "dir"
    BY <1>7, ArchiveNames DEF Original, Is
  <2>11. Passable(e.tree)
    BY <2>4, <2>9, <2>10 DEF Passable, May
  <2>12. NoClash(e.tree)
    BY <1>7, <2>4, <2>9, <2>10 DEF NoClash
  <2> QED
    BY <2>8, <2>11, <2>12 DEF e
<1> QED
  BY <1>6, <1>7

\* The mode of a directory can be changed while those above it are open.
LEMMA ModeOk ==
    ASSUME source \in Sources, NEW t, NEW dm, Woven(t, {}, dm),
           NEW p \in dm, p \in DOMAIN source, source[p].kind = "dir",
           \A r \in Way(p) \ {<<>>} : May(t, r, All)
    PROVE  /\ Chmod(t, p, source[p].mode).ok
           /\ \A q \in DOMAIN t \ {p} : May(t, q, All) => May(Chmod(t, p, source[p].mode).tree, q, All)
<1>1. p \in DOMAIN t /\ t[p] = Dir(t[p].mode)
  BY DEF Woven, Brought
<1>2. Follow(t, p) = p
  BY <1>1, LeadsToItself DEF Woven, Is, Dir
<1>3. p \in Seq(STRING)
  BY ArchiveNames
<1>4. ASSUME NEW i \in 1..(Len(p) - 1) PROVE May(t, SubSeq(p, 1, i), {"x"})
  <2>1. SubSeq(p, 1, i) \in Way(p) /\ SubSeq(p, 1, i) # <<>>
    BY <1>3 DEF Way
  <2> QED
    BY <2>1 DEF May, All
<1> DEFINE u == Put(t, p, [t[p] EXCEPT !.mode = source[p].mode])
<1>5. Chmod(t, p, source[p].mode) = Done(u)
  BY <1>1, <1>2, <1>4 DEF Chmod
<1>6. Chmod(t, p, source[p].mode).ok /\ Chmod(t, p, source[p].mode).tree = u
  BY <1>5 DEF Done
<1>7. \A q \in DOMAIN t \ {p} : u[q] = t[q]
  BY DEF Put
<1> HIDE DEF u
<1> QED
  BY <1>6, <1>7 DEF May

-----------------------------------------------------------------------------
(* What a copy into a directory without links relies on.                    *)

\* A destination without links.
Linkless(t) == \A q \in DOMAIN t : t[q].kind # "link"
Plain == into = "dest" => Linkless(theirs)

Opened == {"extract", "modes", "place"}

Weave ==
    /\ theirs \in Dests
    /\ pc = "open" => IF into = "dest" THEN dest = theirs ELSE staging = Fresh
    /\ Plain /\ pc \in Opened => Woven(tree, todo, dirModes)
    /\ Plain /\ pc = "cleanup" /\ result = "nil" /\ into = "dest" => Woven(dest, {}, {})


WeaveInv == CopyInv /\ Weave

LEMMA TreesGrow ==
    ASSUME NEW d \in Dests, Linkless(d), IsDir(d)
    PROVE  Woven(d, DOMAIN source, {})
<1>1. d # Absent /\ Tree(d)
  BY CopyFromAssumption DEF IsDir
<1>2. <<>> \in DOMAIN d /\ Is(d, <<>>, "dir")
  BY <1>1 DEF Tree, IsDir, Is
<1>3. ASSUME NEW q \in DOMAIN d
      PROVE  /\ q \in Seq(STRING)
             /\ \A r \in Way(q) : Is(d, r, "dir")
             /\ d[q].kind = "dir" => d[q] = Dir(d[q].mode)
  BY <1>1 DEF Tree, Way
<1>4. Grown(d)
  BY <1>2, <1>3 DEF Grown
<1>5. OwnLinks(d) /\ Brought(d, DOMAIN source, {})
  BY DEF Linkless, OwnLinks, Brought
<1> QED
  BY <1>4, <1>5 DEF Woven

LEMMA FreshGrows == Woven(Fresh, DOMAIN source, {})
<1>1. DOMAIN Fresh = {<<>>} /\ Fresh[<<>>] = Dir(All) /\ Dir(All).kind = "dir"
  BY DEF Fresh, Dir
<1>2. Way(<<>>) = {} /\ <<>> \in Seq(STRING)
  BY DEF Way
<1>3. Grown(Fresh)
  BY <1>1, <1>2 DEF Grown, Is, Dir
<1>4. OwnLinks(Fresh) /\ Brought(Fresh, DOMAIN source, {})
  BY <1>1 DEF OwnLinks, Brought
<1> QED
  BY <1>3, <1>4 DEF Woven

LEMMA WeaveInit == Init => Weave
BY DEF Init, Weave, Opened

\* What was brought is woven in at every step.
LEMMA WeaveStep == WeaveInv /\ [Next]_vars => Weave'
<1> SUFFICES ASSUME WeaveInv, [Next]_vars PROVE Weave'
  OBVIOUS
<1>0. TypeOK /\ Kept /\ Streamed /\ Weave /\ source \in Sources
  BY DEF WeaveInv, CopyInv, TypeOK
<1>p. ASSUME source' = source, Woven(tree', todo', dirModes')
      PROVE  Woven(tree, todo, dirModes)'
  BY <1>p DEF Woven, Grown, OwnLinks, Brought, Original, Is
<1>k. ASSUME UNCHANGED <<source, into, theirs>>
      PROVE  Plain' <=> Plain
  BY <1>k DEF Plain, Linkless
<1>q. ASSUME UNCHANGED <<source, into, theirs>>, pc \in Opened
      PROVE  Plain' => Woven(tree, todo, dirModes)
  BY <1>0, <1>k, <1>q DEF Weave
<1> USE DEF Goto, Return, RequestFails, Faulted, Opened
<1>1. CASE ensureRunningForCopy \/ Start \/ GetFiles \/ StreamCut \/ DiskFails \/ Cleanup \/ Crash
  <2>1. theirs' = theirs /\ pc' \notin Opened \cup {"open"} /\ (pc' = "cleanup" => result' # "nil")
    BY <1>0, <1>1 DEF ensureRunningForCopy, Start, GetFiles, StreamCut, DiskFails, Cleanup, Crash
  <2> QED
    BY <1>0, <2>1 DEF Weave
<1>2. CASE Stat
  <2>1. pc = "stat" /\ pc' = "open" /\ dest' = dest /\ theirs' = theirs /\ dest = theirs /\ into' = Where(dest)
        /\ staging' = IF into' = "staging" THEN Fresh ELSE Absent
    BY <1>0, <1>2 DEF Stat, Kept, Early
  <2>2. into' = "dest" \/ into' = "staging"
    BY <2>1 DEF Where
  <2> QED
    BY <1>0, <2>1, <2>2 DEF Weave
<1>3. CASE OpenRoot
  <2>1. pc = "open" /\ UNCHANGED <<source, into, theirs, todo, dirModes>> /\ pc' \in {"extract", "cleanup"}
        /\ (pc' = "cleanup" => result' = "error")
    BY <1>3 DEF OpenRoot
  <2>2. todo = DOMAIN source /\ dirModes = {} /\ into \in {"dest", "staging"}
    BY <1>0, <2>1 DEF Streamed, TypeOK, Kept, Writing
  <2>3. ASSUME Plain, pc' = "extract" PROVE Woven(tree', todo', dirModes')
    <3>1. tree' = (IF tree = Absent THEN Fresh ELSE tree) /\ (tree = Absent \/ IsDir(tree))
      BY <1>3, <2>1, <2>2, <2>3 DEF OpenRoot, Writes, tree
    <3>2. CASE into = "staging"
      <4>1. tree' = Fresh
        BY <1>0, <2>1, <3>1, <3>2 DEF Weave, tree
      <4> QED
        BY <2>1, <2>2, <4>1, FreshGrows
    <3>3. CASE into = "dest"
      <4>1. tree = theirs /\ theirs \in Dests /\ Linkless(theirs)
        BY <1>0, <2>1, <2>3, <3>3 DEF Weave, tree, Plain
      <4> QED
        BY <2>1, <2>2, <3>1, <4>1, FreshGrows, TreesGrow
    <3> QED
      BY <2>2, <3>2, <3>3
  <2>4. Plain' /\ pc' = "extract" => Woven(tree, todo, dirModes)'
    BY <1>k, <1>p, <2>1, <2>3
  <2> QED
    BY <1>0, <2>1, <2>4 DEF Weave
<1>4. ASSUME NEW p \in todo, ExtractEntry(p) PROVE Weave'
  <2> DEFINE e == Extracted(tree, p, source[p])
  <2>1. /\ pc = "extract" /\ UNCHANGED <<source, into, theirs>>
        /\ source[p].kind = "hard" => source[p].to \notin todo
        /\ todo' = todo \ {p}
        /\ tree' = e.tree
        /\ e.ok => dirModes' = IF source[p].kind = "dir" THEN dirModes \cup {p} ELSE dirModes
        /\ pc' = (IF e.ok THEN "extract" ELSE "cleanup") /\ (pc' = "cleanup" => result' = "error")
    BY <1>4 DEF ExtractEntry, Ready, Writes, tree
  <2>2. todo \in SUBSET DOMAIN source
    BY <1>0 DEF TypeOK
  <2>3. ASSUME Plain', e.ok PROVE Woven(tree', todo', dirModes')
    <3>1. Woven(tree, todo, dirModes)
      BY <1>q, <2>1, <2>3
    <3>2. Woven(e.tree, todo \ {p}, IF source[p].kind = "dir" THEN dirModes \cup {p} ELSE dirModes)
      BY <1>0, <2>1, <2>2, <2>3, <3>1, ExtractedWoven
    <3> HIDE DEF e
    <3> QED
      BY <2>1, <2>3, <3>2
  <2> HIDE DEF e
  <2>4. Plain' /\ pc' \in Opened => Woven(tree, todo, dirModes)'
    BY <1>p, <2>1, <2>3
  <2> QED
    BY <1>0, <2>1, <2>4 DEF Weave
<1>5. CASE EndOfStream
  <2>1. pc = "extract" /\ UNCHANGED <<source, into, theirs, dest, staging, todo, dirModes>>
        /\ pc' \in {"modes", "place"}
    BY <1>5 DEF EndOfStream, StreamEnd
  <2>2. Plain' => Woven(tree, todo, dirModes)'
    BY <1>p, <1>q, <2>1 DEF tree
  <2> QED
    BY <1>0, <2>1, <2>2 DEF Weave
<1>6. ASSUME NEW p \in dirModes, applyDirModes(p) PROVE Weave'
  <2> DEFINE e == Chmod(tree, p, source[p].mode)
  <2>1. /\ pc = "modes" /\ UNCHANGED <<source, into, theirs, todo>>
        /\ todo = {} /\ dirModes' = dirModes \ {p} /\ tree' = e.tree
        /\ p \in DOMAIN source /\ source[p].kind = "dir"
        /\ pc' \in {"modes", "place", "cleanup"} /\ (pc' = "cleanup" => result' = "error")
        /\ pc' # "cleanup" => e.ok
    BY <1>0, <1>6 DEF applyDirModes, Streamed, TypeOK, Writes, tree
  <2>2. ASSUME Plain', e.ok PROVE Woven(tree', todo', dirModes')
    <3>1. Woven(tree, {}, dirModes)
      BY <1>q, <2>1, <2>2
    <3>2. Woven(e.tree, {}, dirModes \ {p})
      BY <1>0, <2>1, <2>2, <3>1, ModeWoven
    <3> HIDE DEF e
    <3> QED
      BY <2>1, <3>2
  <2> HIDE DEF e
  <2>3. Plain' /\ pc' \in Opened => Woven(tree, todo, dirModes)'
    BY <1>p, <2>1, <2>2
  <2> QED
    BY <1>0, <2>1, <2>3 DEF Weave
<1>7. CASE Rename
  <2>1. pc = "place" /\ UNCHANGED <<source, into, theirs, todo, dirModes>> /\ todo = {} /\ dirModes = {}
        /\ pc' = "cleanup" /\ (into = "dest" => dest' = dest)
    BY <1>0, <1>7 DEF Rename, Streamed, TypeOK
  <2>2. ASSUME Plain', into = "dest" PROVE Woven(dest, {}, {})'
    <3>1. Woven(dest, {}, {})
      BY <1>q, <2>1, <2>2 DEF tree
    <3> QED
      BY <2>1, <2>2, <3>1 DEF Woven, Grown, OwnLinks, Brought, Original, Is
  <2> QED
    BY <1>0, <2>1, <2>2 DEF Weave
<1>8. CASE OthersUseSandbox
  <2>1. pc \in Early /\ pc' = pc /\ theirs' = theirs
    BY <1>8 DEF OthersUseSandbox, Early
  <2> QED
    BY <1>0, <1>8, <2>1 DEF Weave, Early, OthersUseSandbox
<1>9. CASE OthersChangeDest
  <2>1. /\ theirs' = dest' /\ theirs' \in Dests /\ UNCHANGED <<source, pc, into, staging, todo, dirModes>>
        /\ pc \in Opened \cup {"open"} /\ (pc # "open" => into = "staging")
    BY <1>9 DEF OthersChangeDest
  <2>2. pc \in Opened => tree' = tree /\ Plain
    BY <2>1 DEF tree, Plain
  <2>3. pc \in Opened => Woven(tree, todo, dirModes)'
    BY <1>0, <1>p, <2>1, <2>2 DEF Weave
  <2> QED
    BY <1>0, <2>1, <2>3 DEF Weave
<1>10. CASE UNCHANGED vars
  <2>1. Woven(tree, todo, dirModes) => Woven(tree, todo, dirModes)'
    BY <1>10, <1>p DEF tree
  <2>2. Woven(dest, {}, {}) => Woven(dest, {}, {})'
    BY <1>10 DEF Woven, Grown, OwnLinks, Brought, Original, Is
  <2> QED
    BY <1>0, <1>10, <1>k, <2>1, <2>2 DEF Weave
<1> QED
  BY <1>1, <1>2, <1>3, <1>4, <1>5, <1>6, <1>7, <1>8, <1>9, <1>10 DEF Next, Others, Terminated

LEMMA Weaving == Spec => []WeaveInv
<1>1. Init => WeaveInv
  BY InitInv, WeaveInit DEF WeaveInv
<1>2. WeaveInv /\ [Next]_vars => WeaveInv'
  BY TypeStep, KeptStep, StreamedStep, StagedStep, WeaveStep DEF WeaveInv, CopyInv
<1> QED
  BY <1>1, <1>2, PTL DEF Spec

\* In a tree whose links are the source's, an entry lands at its own name.
LEMMA Landed ==
    ASSUME source \in Sources, NEW t, OwnLinks(t), NEW p \in DOMAIN source
    PROVE  Lands(t, p) = p
<1>1. source[p].kind = "dir" => ~Is(t, p, "link")
  BY DEF OwnLinks, Is
<1> QED
  BY <1>1, LeadsToItself DEF Lands

\* A nil error means that all of the source is at the destination, whatever was
\* there: for every path that was no directory, and every directory without
\* links (CopyFrom, sandbox/cp.go; Extract, internal/untar/untar.go).
THEOREM CopyIsComplete == Spec => [](Plain => CopyComplete)
<1>1. WeaveInv => (Plain => CopyComplete)
  <2> SUFFICES ASSUME WeaveInv, Plain, result = "nil", pc = "cleanup"
               PROVE  \/ into = "staging" /\ dest = Wanted
                      \/ /\ into = "dest"
                         /\ \A p \in DOMAIN source :
                              Lands(dest, p) \in DOMAIN dest /\ dest[Lands(dest, p)] = Original(p)
    BY DEF CopyComplete
  <2>1. source \in Sources /\ Kept /\ Weave /\ into \in {"none", "dest", "staging"}
    BY DEF WeaveInv, CopyInv, TypeOK
  <2>2. into # "none"
    BY <2>1 DEF Kept
  <2>3. CASE into = "staging"
    BY <2>1, <2>3 DEF Kept
  <2>4. CASE into = "dest"
    <3>1. Woven(dest, {}, {})
      BY <2>1, <2>4 DEF Weave
    <3>2. ASSUME NEW p \in DOMAIN source PROVE Lands(dest, p) \in DOMAIN dest /\ dest[Lands(dest, p)] = Original(p)
      <4>1. Lands(dest, p) = p
        BY <2>1, <3>1, Landed DEF Woven
      <4>2. p \in DOMAIN dest /\ (source[p].kind # "dir" => dest[p] = Original(p))
            /\ (source[p].kind = "dir" => dest[p] = Dir(source[p].mode))
        BY <3>1 DEF Woven, Brought
      <4>3. source[p].kind = "dir" => Original(p) = Dir(source[p].mode)
        BY <2>1, ArchiveNames DEF Original
      <4> QED
        BY <4>1, <4>2, <4>3
    <3> QED
      BY <2>4, <3>2
  <2> QED
    BY <2>1, <2>2, <2>3, <2>4
<1> QED
  BY <1>1, Weaving, PTL

\* Copying into a directory leaves alone what the archive does not name, at
\* every step, in the middle of a file and at a failure too, for directories
\* without links (Extract, internal/untar/untar.go).
THEOREM OthersAreKept ==
    ASSUME \A d \in Dests : Linkless(d)
    PROVE  Spec => OthersKept
<1>1. WeaveInv /\ [Next]_vars =>
        [into = "dest" /\ dest # Absent /\ LockedLinks(theirs) = {} /\ ~OthersChangeDest =>
           \A q \in DOMAIN dest :
              \/ q \in {Lands(dest, p) : p \in DOMAIN source}
              \/ q \in DOMAIN dest' /\ dest'[q] = dest[q]]_vars
  <2> SUFFICES ASSUME WeaveInv, [Next]_vars, into = "dest", dest # Absent, ~OthersChangeDest,
                      NEW q \in DOMAIN dest, q \notin {Lands(dest, p) : p \in DOMAIN source}
               PROVE  q \in DOMAIN dest' /\ dest'[q] = dest[q]
    OBVIOUS
  <2>1. source \in Sources /\ TypeOK /\ Kept /\ Streamed /\ Weave /\ Plain /\ tree = dest
    BY DEF WeaveInv, CopyInv, TypeOK, Weave, Plain, tree
  <2>2. ASSUME pc \in Opened PROVE OwnLinks(dest) /\ q \notin DOMAIN source
    <3>1. OwnLinks(dest)
      BY <2>1, <2>2 DEF Weave, Woven
    <3>2. \A p \in DOMAIN source : Lands(dest, p) = p
      BY <2>1, <3>1, Landed
    <3> QED
      BY <3>1, <3>2
  <2> USE DEF Opened
  <2>3. CASE \/ ensureRunningForCopy \/ Start \/ GetFiles \/ Stat \/ DiskFails
             \/ EndOfStream \/ Cleanup \/ Crash
    BY <2>3 DEF ensureRunningForCopy, Start, GetFiles, Stat, DiskFails, EndOfStream, Cleanup, Crash
  <2>4. CASE OpenRoot
    BY <2>1, <2>4 DEF OpenRoot, Writes
  <2>5. ASSUME NEW p \in todo, ExtractEntry(p) PROVE q \in DOMAIN dest' /\ dest'[q] = dest[q]
    <3>1. pc = "extract" /\ dest' = Extracted(dest, p, source[p]).tree /\ p \in DOMAIN source
      BY <2>1, <2>5 DEF ExtractEntry, Writes, TypeOK
    <3>2. OwnLinks(dest) /\ q # p
      BY <2>2, <3>1
    <3> QED
      BY <2>1, <3>1, <3>2, OnlyItsName
  <2>6. CASE StreamCut
    <3>1. pc = "extract" /\ (dest' = dest \/ (\E p \in todo : source[p].kind = "file" /\ dest' = HalfWritten(dest, p)))
      BY <2>1, <2>6 DEF StreamCut, Writes
    <3>2. CASE dest' = dest
      BY <3>2
    <3>3. ASSUME NEW p \in todo, source[p].kind = "file", dest' = HalfWritten(dest, p)
          PROVE  q \in DOMAIN dest' /\ dest'[q] = dest[q]
      <4>1. OwnLinks(dest) /\ q # p /\ p \in DOMAIN source
        BY <2>1, <2>2, <3>1 DEF TypeOK
      <4> QED
        BY <2>1, <3>3, <4>1, OnlyItsName
    <3> QED
      BY <3>1, <3>2, <3>3
  <2>7. ASSUME NEW p \in dirModes, applyDirModes(p) PROVE q \in DOMAIN dest' /\ dest'[q] = dest[q]
    <3>1. /\ pc = "modes" /\ dest' = Chmod(dest, p, source[p].mode).tree
          /\ p \in DOMAIN source /\ source[p].kind = "dir"
      BY <2>1, <2>7 DEF applyDirModes, Writes, TypeOK, Streamed
    <3>2. OwnLinks(dest) /\ q # p
      BY <2>2, <3>1
    <3> QED
      BY <2>1, <3>1, <3>2, OnlyItsName
  <2>8. CASE Rename
    BY <2>8 DEF Rename, Return
  <2>9. CASE OthersUseSandbox
    BY <2>9 DEF OthersUseSandbox
  <2>10. CASE UNCHANGED vars
    BY <2>10
  <2> QED
    BY <2>3, <2>4, <2>5, <2>6, <2>7, <2>8, <2>9, <2>10 DEF Next, Others, Terminated
<1> QED
  BY <1>1, Weaving, PTL DEF Spec, OthersKept

-----------------------------------------------------------------------------
(* Why a copy fails.                                                        *)

\* Nobody and nothing is in the way of the copy.
Undisturbed ==
    /\ ~meddled /\ ~Refusable
    /\ into = "dest" => Linkless(theirs) /\ ~Clash(theirs) /\ ~Barred(theirs)

Smooth ==
    /\ pc = "extract" => \A p \in DOMAIN source : source[p].kind = "dir" => p \in todo \cup dirModes
    /\ into = "staging" /\ ~meddled => ~IsDir(theirs)
    /\ Undisturbed /\ pc = "extract" => Passable(tree) /\ NoClash(tree)
    /\ Undisturbed /\ pc = "modes" =>
          \A p \in dirModes : May(tree, p, All) /\ Way(p) \ {<<>>} \subseteq dirModes

\* Something that the copy needs has failed.
Broke == faults \cap {"request", "stream", "disk"} # {}

\* Why a copy may fail.
Causes ==
    /\ result = "notFound" => box = "gone" \/ ~there \/ "body" \in faults
    /\ result = "exists" => meddled
    /\ pc = "get" /\ ~meddled => box = "running"
    /\ ~named => "body" \in faults
    /\ result = "error" =>
          \/ Broke \/ ~Undisturbed
          \/ into = "staging" /\ theirs # Absent /\ source[Top].kind = "dir"
          \/ into = "staging" /\ ~Superuser /\ "w" \notin source[Top].mode

LEMMA SmoothInit == Init => Smooth /\ Causes
BY DEF Init, Smooth, Causes, Undisturbed

LEMMA OpenedSmoothly ==
    ASSUME source \in Sources, NEW t,
           t = Fresh \/ (Linkless(t) /\ ~Clash(t) /\ ~Barred(t))
    PROVE  Passable(t) /\ NoClash(t)
<1>1. CASE t = Fresh
  <2>1. DOMAIN t = {<<>>} /\ t[<<>>] = Dir(All) /\ <<>> \notin DOMAIN source
    BY <1>1, ArchiveNames DEF Fresh
  <2> QED
    BY <2>1 DEF Passable, NoClash, May, Dir
<1>2. CASE Linkless(t) /\ ~Clash(t) /\ ~Barred(t)
  <2>1. OwnLinks(t)
    BY <1>2 DEF Linkless, OwnLinks
  <2>2. \A p \in DOMAIN source : Lands(t, p) = p
    BY <2>1, Landed
  <2>3. NoClash(t)
    BY <1>2, <2>2 DEF Clash, NoClash
  <2>4. Passable(t)
    BY <1>2 DEF Barred, Passable
  <2> QED
    BY <2>3, <2>4
<1> QED
  BY <1>1, <1>2

\* The staged tree can be renamed into place, unless a cause keeps it.
LEMMA RenamesOk ==
    ASSUME source \in Sources, NEW t, NEW d, Brought(t, {}, {}), ~IsDir(d), ~Renames(t, d)
    PROVE  \/ d # Absent /\ source[Top].kind = "dir"
           \/ ~Superuser /\ "w" \notin source[Top].mode
<1>1. Top \in DOMAIN source
  BY CopyFromAssumption DEF Archive
<1>2. Top \in DOMAIN t
  BY <1>1 DEF Brought
<1>3. CASE source[Top].kind = "dir"
  <2>1. t[Top] = Dir(source[Top].mode)
    BY <1>1, <1>3 DEF Brought
  <2>2. t[Top].mode = source[Top].mode
    BY <2>1 DEF Dir
  <2>3. May(t, Top, {"w"}) <=> Superuser \/ "w" \in source[Top].mode
    BY <2>2 DEF May
  <2> QED
    BY <1>2, <1>3, <2>3 DEF Renames
<1>4. CASE source[Top].kind # "dir"
  <2>1. t[Top] = Original(Top)
    BY <1>1, <1>4 DEF Brought
  <2>2. t[Top].kind # "dir"
    BY <1>1, <1>4, <2>1, ArchiveNames DEF Original, Is
  <2>3. d # Absent => d[<<>>].kind # "dir"
    BY DEF IsDir
  <2>4. Renames(t, d)
    BY <1>2, <2>2, <2>3 DEF Renames
  <2> QED
    BY <2>4
<1> QED
  BY <1>3, <1>4

SmoothInv == WeaveInv /\ Smooth /\ Causes

\* While nothing is in the way no entry fails and no mode does.
LEMMA SmoothStep ==
    ASSUME SmoothInv, [Next]_vars
    PROVE  Smooth' /\ (result' = "error" /\ pc \in Writing => Causes')
<1>0. /\ TypeOK /\ Kept /\ Streamed /\ Weave /\ Smooth /\ Causes /\ source \in Sources
      /\ Undisturbed => Plain
  BY DEF SmoothInv, WeaveInv, CopyInv, TypeOK, Undisturbed, Plain
<1>u. ASSUME UNCHANGED <<source, into, theirs>>
      PROVE  /\ Undisturbed' => ~meddled' /\ (~meddled => Undisturbed)
             /\ meddled' = meddled => (Undisturbed' <=> Undisturbed)
  BY <1>u DEF Undisturbed, Linkless, Clash, Barred, Lands, Refusable
<1>n. ASSUME source' = source
      PROVE  NoClash(tree)' <=> NoClash(tree')
  BY <1>n DEF NoClash
<1>e. ASSUME UNCHANGED <<source, into, theirs, meddled, named>>,
             pc' = "cleanup", result' = "error", faults \subseteq faults', ~Undisturbed \/ Broke'
      PROVE  Causes'
  BY <1>0, <1>e, <1>u DEF Causes
<1>w. ASSUME Undisturbed, pc \in Opened PROVE Woven(tree, todo, dirModes)
  BY <1>0, <1>w DEF Weave
<1> USE DEF Goto, Return, RequestFails, Faulted
<1>1. CASE ensureRunningForCopy \/ Start \/ GetFiles \/ Cleanup \/ Crash \/ OthersUseSandbox
  <2>1. /\ UNCHANGED <<source, into, theirs>> /\ pc' \notin {"extract", "modes"}
        /\ (meddled' = meddled \/ meddled' = TRUE)
        /\ ~(result' = "error" /\ pc \in Writing)
    BY <1>0, <1>1 DEF ensureRunningForCopy, Start, GetFiles, Cleanup, Crash, OthersUseSandbox,
                        Kept, Writing
  <2> QED
    BY <1>0, <2>1 DEF Smooth, IsDir
<1>2. CASE Stat
  <2>1. /\ UNCHANGED <<source, theirs, meddled>> /\ pc' = "open" /\ result' = "none"
        /\ into' = Where(theirs)
    BY <1>0, <1>2 DEF Stat, Kept, Early
  <2>2. into' = "staging" => ~IsDir(theirs)
    BY <2>1 DEF Where
  <2> QED
    BY <2>1, <2>2 DEF Smooth, IsDir
<1>3. CASE OpenRoot
  <2>1. /\ pc = "open" /\ UNCHANGED <<source, into, theirs, meddled, named, faults, todo, dirModes>>
        /\ todo = DOMAIN source /\ into \in {"dest", "staging"}
        /\ pc' = (IF tree = Absent \/ IsDir(tree) THEN "extract" ELSE "cleanup")
    BY <1>0, <1>3 DEF OpenRoot, Streamed, TypeOK, Kept, Writing
  <2>2. tree' = IF tree = Absent THEN Fresh ELSE tree
    BY <1>3, <2>1 DEF OpenRoot, Writes, tree
  <2>3. into = "staging" => tree = Fresh /\ (tree = Absent \/ IsDir(tree))
    BY <1>0, <2>1 DEF Weave, tree, IsDir, Fresh, Dir
  <2>4. into = "dest" /\ ~meddled => tree = theirs /\ IsDir(tree)
    BY <1>0, <2>1 DEF Weave, tree, Kept
  <2>5. ASSUME Undisturbed PROVE /\ pc' = "extract" /\ Passable(tree') /\ NoClash(tree')
    <3>1. tree' = Fresh \/ (Linkless(tree') /\ ~Clash(tree') /\ ~Barred(tree'))
      BY <2>1, <2>2, <2>3, <2>4, <2>5 DEF Undisturbed, IsDir
    <3>2. Passable(tree') /\ NoClash(tree')
      BY <1>0, <3>1, OpenedSmoothly
    <3> QED
      BY <2>1, <2>3, <2>4, <2>5, <3>2 DEF Undisturbed
  <2>6. Undisturbed' => Passable(tree)' /\ NoClash(tree)'
    BY <1>n, <1>u, <2>1, <2>5 DEF Passable
  <2>7. \A p \in DOMAIN source' : p \in todo' \cup dirModes'
    BY <2>1
  <2>8. (into = "staging" /\ ~meddled => ~IsDir(theirs))'
    BY <1>0, <2>1 DEF Smooth, IsDir
  <2>9. result' = "error" => ~Undisturbed /\ pc' = "cleanup"
    BY <1>0, <1>3, <2>1, <2>5 DEF OpenRoot, Kept, Writing
  <2>10. result' = "error" => Causes'
    BY <1>e, <2>1, <2>9
  <2> QED
    BY <2>1, <2>6, <2>7, <2>8, <2>10 DEF Smooth
<1>4. ASSUME NEW p \in todo, ExtractEntry(p)
      PROVE  Smooth' /\ (result' = "error" /\ pc \in Writing => Causes')
  <2> DEFINE e == Extracted(tree, p, source[p])
  <2>1. /\ pc = "extract" /\ UNCHANGED <<source, into, theirs, meddled, named, faults>>
        /\ source[p].kind = "hard" => source[p].to \notin todo
        /\ todo' = todo \ {p} /\ p \in DOMAIN source
        /\ tree' = e.tree
        /\ e.ok => dirModes' = IF source[p].kind = "dir" THEN dirModes \cup {p} ELSE dirModes
        /\ pc' = (IF e.ok THEN "extract" ELSE "cleanup")
        /\ (result' = "error" => ~e.ok)
    BY <1>0, <1>4 DEF ExtractEntry, Ready, Writes, tree, TypeOK, Kept, Writing
  <2>2. ASSUME Undisturbed PROVE e.ok /\ Passable(e.tree) /\ NoClash(e.tree)
    <3>1. Woven(tree, todo, dirModes) /\ Passable(tree) /\ NoClash(tree)
      BY <1>0, <1>w, <2>1, <2>2 DEF Smooth, Opened
    <3>2. ~Refused(p, source[p])
      BY <2>1, <2>2 DEF Undisturbed, Refusable
    <3> QED
      BY <1>0, <2>1, <3>1, <3>2, ExtractedOk
  <2> HIDE DEF e
  <2>3. Undisturbed' => Passable(tree)' /\ NoClash(tree)'
    BY <1>n, <1>u, <2>1, <2>2 DEF Passable
  <2>4. e.ok => \A q \in DOMAIN source' : source'[q].kind = "dir" => q \in todo' \cup dirModes'
    BY <1>0, <2>1 DEF Smooth
  <2>5. (into = "staging" /\ ~meddled => ~IsDir(theirs))'
    BY <1>0, <2>1 DEF Smooth, IsDir
  <2>6. result' = "error" => Causes'
    BY <1>e, <2>1, <2>2
  <2> QED
    BY <2>1, <2>3, <2>4, <2>5, <2>6 DEF Smooth
<1>5. CASE StreamCut \/ DiskFails
  <2>1. /\ UNCHANGED <<source, into, theirs, meddled, named>> /\ pc' = "cleanup" /\ result' = "error"
        /\ pc \in {"stat", "open", "extract", "modes", "place"} /\ faults \subseteq faults' /\ Broke'
    BY <1>5 DEF StreamCut, DiskFails, Broke
  <2>2. (into = "staging" /\ ~meddled => ~IsDir(theirs))'
    BY <1>0, <2>1 DEF Smooth, IsDir
  <2> QED
    BY <1>e, <2>1, <2>2 DEF Smooth
<1>6. CASE EndOfStream
  <2>1. /\ pc = "extract" /\ UNCHANGED <<source, into, theirs, meddled, dest, staging, todo, dirModes, result>>
        /\ todo = {} /\ pc' \in {"modes", "place"} /\ tree' = tree
    BY <1>6 DEF EndOfStream, StreamEnd, tree
  <2>2. ASSUME Undisturbed, NEW p \in dirModes PROVE May(tree, p, All) /\ Way(p) \ {<<>>} \subseteq dirModes
    <3>1. p \in DOMAIN source /\ source[p].kind = "dir"
      BY <1>0 DEF TypeOK, Streamed
    <3>2. p \in DOMAIN tree /\ tree[p].kind = "dir"
      <4>1. Brought(tree, {}, dirModes)
        BY <1>w, <2>1, <2>2 DEF Opened, Woven
      <4>2. tree[p] = Dir(IF p \in dirModes THEN tree[p].mode ELSE source[p].mode) /\ p \in DOMAIN tree
        BY <3>1, <4>1 DEF Brought
      <4>3. \A m : Dir(m).kind = "dir"
        BY DEF Dir
      <4> QED
        BY <4>2, <4>3
    <3>3. May(tree, p, All)
      BY <1>0, <2>1, <2>2, <3>2 DEF Smooth, Passable
    <3>4. Way(p) \ {<<>>} \subseteq dirModes
      BY <1>0, <2>1, <3>1, ArchiveWays DEF Smooth, Is
    <3> QED
      BY <3>3, <3>4
  <2>3. Undisturbed' => \A p \in dirModes' : May(tree', p, All) /\ Way(p) \ {<<>>} \subseteq dirModes'
    BY <1>u, <2>1, <2>2
  <2>4. (into = "staging" /\ ~meddled => ~IsDir(theirs))'
    BY <1>0, <2>1 DEF Smooth, IsDir
  <2> QED
    BY <1>0, <2>1, <2>3, <2>4 DEF Smooth, May, Kept, Writing
<1>7. ASSUME NEW p \in dirModes, applyDirModes(p)
      PROVE  Smooth' /\ (result' = "error" /\ pc \in Writing => Causes')
  <2> DEFINE e == Chmod(tree, p, source[p].mode)
  <2>1. /\ pc = "modes" /\ UNCHANGED <<source, into, theirs, meddled, named, faults, todo>>
        /\ todo = {} /\ dirModes' = dirModes \ {p} /\ tree' = e.tree
        /\ p \in DOMAIN source /\ source[p].kind = "dir"
        /\ pc' \in {"modes", "place", "cleanup"}
        /\ (result' = "error" => ~e.ok /\ pc' = "cleanup")
        /\ \A q \in dirModes : ~IsStrictPrefix(p, q)
    BY <1>0, <1>7 DEF applyDirModes, Streamed, TypeOK, Writes, tree, Kept, Writing, NextModes
  <2>2. ASSUME Undisturbed
        PROVE  /\ e.ok
               /\ \A q \in dirModes \ {p} : May(e.tree, q, All) /\ Way(q) \ {<<>>} \subseteq dirModes \ {p}
    <3>1. Woven(tree, {}, dirModes)
      BY <1>w, <2>1, <2>2 DEF Opened
    <3>2. \A q \in dirModes : May(tree, q, All) /\ Way(q) \ {<<>>} \subseteq dirModes
      BY <1>0, <2>1, <2>2 DEF Smooth
    <3>3. e.ok /\ \A q \in DOMAIN tree \ {p} : May(tree, q, All) => May(e.tree, q, All)
      BY <1>0, <2>1, <3>1, <3>2, ModeOk
    <3>4. ASSUME NEW q \in dirModes \ {p} PROVE q \in DOMAIN tree /\ p \notin Way(q)
      <4>1. q \in DOMAIN source /\ q \in Seq(STRING)
        BY <1>0, ArchiveNames DEF TypeOK
      <4>2. p \in Way(q) => IsStrictPrefix(p, q)
        BY <4>1, Ways
      <4>3. q \in DOMAIN tree
        BY <3>1, <4>1 DEF Woven, Brought
      <4> QED
        BY <2>1, <4>2, <4>3
    <3> HIDE DEF e
    <3> QED
      BY <3>2, <3>3, <3>4
  <2> HIDE DEF e
  <2>3. Undisturbed' => \A q \in dirModes' : May(tree', q, All) /\ Way(q) \ {<<>>} \subseteq dirModes'
    BY <1>u, <2>1, <2>2
  <2>4. (into = "staging" /\ ~meddled => ~IsDir(theirs))'
    BY <1>0, <2>1 DEF Smooth, IsDir
  <2>5. result' = "error" => Causes'
    BY <1>e, <2>1, <2>2
  <2> QED
    BY <2>1, <2>3, <2>4, <2>5 DEF Smooth, May
<1>8. CASE Rename
  <2>1. /\ pc = "place" /\ UNCHANGED <<source, into, theirs, meddled, named, faults>> /\ pc' = "cleanup"
        /\ todo = {} /\ dirModes = {} /\ into \in {"dest", "staging"}
    BY <1>0, <1>8 DEF Rename, Streamed, TypeOK, Kept, Writing
  <2>2. ASSUME result' = "error", Undisturbed
        PROVE  /\ into = "staging"
               /\ \/ theirs # Absent /\ source[Top].kind = "dir"
                  \/ ~Superuser /\ "w" \notin source[Top].mode
    <3>1. into = "staging" /\ ~Renames(staging, dest) /\ tree = staging
      BY <1>8, <2>1, <2>2 DEF Rename, tree
    <3>2. dest = theirs /\ ~IsDir(theirs)
      BY <1>0, <2>1, <2>2, <3>1 DEF Kept, Writing, Smooth, Undisturbed
    <3>3. Brought(staging, {}, {})
      BY <1>w, <2>1, <2>2, <3>1 DEF Opened, Woven
    <3> QED
      BY <1>0, <3>1, <3>2, <3>3, RenamesOk
  <2>3. (into = "staging" /\ ~meddled => ~IsDir(theirs))'
    BY <1>0, <2>1 DEF Smooth, IsDir
  <2>4. ASSUME result' = "error" PROVE Causes'
    <3>1. CASE ~Undisturbed
      BY <1>e, <2>1, <2>4, <3>1
    <3>2. CASE Undisturbed
      BY <1>0, <2>1, <2>2, <2>4, <3>2 DEF Causes
    <3> QED
      BY <3>1, <3>2
  <2> QED
    BY <2>1, <2>3, <2>4 DEF Smooth
<1>9. CASE OthersChangeDest
  <2>1. /\ meddled' = TRUE /\ UNCHANGED <<source, pc, into, todo, dirModes, result>>
    BY <1>9 DEF OthersChangeDest
  <2> QED
    BY <1>0, <2>1 DEF Smooth, Undisturbed, Kept
<1>10. CASE UNCHANGED vars
  <2>1. tree' = tree
    BY <1>10 DEF tree
  <2>2. ~(result' = "error" /\ pc \in Writing)
    BY <1>0, <1>10 DEF Kept
  <2> QED
    BY <1>0, <1>10, <1>n, <1>u, <2>1, <2>2 DEF Smooth, IsDir, Passable, May
<1> QED
  BY <1>1, <1>2, <1>3, <1>4, <1>5, <1>6, <1>7, <1>8, <1>9, <1>10 DEF Next, Others, Terminated

LEMMA CausesStep ==
    ASSUME SmoothInv, [Next]_vars
    PROVE  Causes'
<1>0. /\ TypeOK /\ Kept /\ Streamed /\ Weave /\ Smooth /\ Causes
      /\ result' = "error" /\ pc \in Writing => Causes'
  BY SmoothStep DEF SmoothInv, WeaveInv, CopyInv
<1>u. ASSUME UNCHANGED <<source, into, theirs>>, meddled' = meddled \/ meddled' = TRUE
      PROVE  ~Undisturbed => ~Undisturbed'
  BY <1>0, <1>u DEF TypeOK, Undisturbed, Linkless, Clash, Barred, Lands, Refusable
\* A step that changes neither the result nor the sandbox.
<1>k. ASSUME result' = result, box' = box, UNCHANGED <<source, into, named, there, faults>>,
             theirs' = theirs \/ meddled', meddled' = meddled \/ meddled' = TRUE, pc' = "get" => pc = "get"
      PROVE  Causes'
  <2>1. CASE theirs' = theirs
    <3>1. ~Undisturbed => ~Undisturbed'
      BY <1>k, <1>u, <2>1
    <3>2. meddled => meddled'
      BY <1>k
    <3>3. /\ (result = "notFound" => box = "gone" \/ ~there \/ "body" \in faults)'
          /\ (~named => "body" \in faults)'
          /\ (result = "exists" => meddled)'
          /\ (pc = "get" /\ ~meddled => box = "running")'
      BY <1>0, <1>k, <3>2 DEF Causes
    <3>4. ASSUME result' = "error"
          PROVE  (\/ Broke \/ ~Undisturbed
                  \/ into = "staging" /\ theirs # Absent /\ source[Top].kind = "dir"
                  \/ into = "staging" /\ ~Superuser /\ "w" \notin source[Top].mode)'
      BY <1>0, <1>k, <2>1, <3>1, <3>4 DEF Causes, Broke
    <3> QED
      BY <3>3, <3>4 DEF Causes
  <2>2. CASE meddled'
    BY <1>0, <1>k, <2>2 DEF Causes, Undisturbed, TypeOK
  <2> QED
    BY <1>k, <2>1, <2>2
<1> USE DEF Goto, Return, RequestFails, Faulted
<1>1. CASE ensureRunningForCopy
  BY <1>0, <1>1 DEF ensureRunningForCopy, Found, Causes, Broke, TypeOK, Kept, Early
<1>2. CASE Start
  BY <1>0, <1>2 DEF Start, Found, Causes, Broke, TypeOK, Kept, Early
<1>3. CASE GetFiles
  BY <1>0, <1>3 DEF GetFiles, Found, Causes, Broke, TypeOK, Kept, Early
<1>4. CASE Stat
  BY <1>0, <1>4 DEF Stat, Causes, TypeOK, Kept, Early
<1>5. CASE OpenRoot
  BY <1>0, <1>k, <1>5 DEF OpenRoot, Kept, Writing
<1>6. ASSUME NEW p \in todo, ExtractEntry(p) PROVE Causes'
  BY <1>0, <1>k, <1>6 DEF ExtractEntry, Kept, Writing
<1>7. CASE StreamCut
  BY <1>0, <1>7 DEF StreamCut, Kept, Writing
<1>8. CASE EndOfStream
  BY <1>k, <1>8 DEF EndOfStream, StreamEnd
<1>9. ASSUME NEW p \in dirModes, applyDirModes(p) PROVE Causes'
  BY <1>0, <1>k, <1>9 DEF applyDirModes, Kept, Writing
<1>10. CASE Rename
  <2>1. result' = "nil" \/ (result' = "error" /\ pc \in Writing)
    BY <1>0, <1>10 DEF Rename, Kept, Writing
  <2>2. result' = "nil" => Causes'
    BY <1>0, <1>10 DEF Rename, Causes
  <2> QED
    BY <1>0, <2>1, <2>2
<1>11. CASE Cleanup
  BY <1>k, <1>11 DEF Cleanup
<1>12. CASE Crash
  BY <1>k, <1>12 DEF Crash
<1>13. CASE OthersUseSandbox
  <2>1. pc \in Early /\ result' = result
    BY <1>13 DEF OthersUseSandbox, Early
  <2> QED
    BY <1>0, <1>13, <2>1 DEF OthersUseSandbox, Causes, Kept
<1>14. CASE OthersChangeDest
  BY <1>k, <1>14 DEF OthersChangeDest
<1>15. CASE DiskFails
  <2>1. /\ result' = "error" /\ pc' = "cleanup" /\ Broke' /\ UNCHANGED <<named, meddled>> /\ faults \subseteq faults'
    BY <1>15 DEF DiskFails, Broke
  <2> QED
    BY <1>0, <2>1 DEF Causes
<1>16. CASE UNCHANGED vars
  BY <1>k, <1>16
<1> QED
  BY <1>1, <1>2, <1>3, <1>4, <1>5, <1>6, <1>7, <1>8, <1>9, <1>10, <1>11, <1>12, <1>13, <1>14, <1>15, <1>16
     DEF Next, Others, Terminated

\* A copy fails for one of the causes that FailsForCause names and for no other:
\* every copy to a path that was no directory, and to every directory without
\* links, whatever the archive holds (CopyFrom, sandbox/cp.go; Extract,
\* internal/untar/untar.go; MapError, client/errors.go).
THEOREM CopyFailsForCause == Spec => [](Plain => FailsForCause)
<1>1. Init => SmoothInv
  BY InitInv, WeaveInit, SmoothInit DEF WeaveInv, SmoothInv
<1>2. SmoothInv /\ [Next]_vars => SmoothInv'
  BY TypeStep, KeptStep, StreamedStep, StagedStep, WeaveStep, SmoothStep, CausesStep
     DEF SmoothInv, WeaveInv, CopyInv
<1>3. SmoothInv => (Plain => FailsForCause)
  <2> SUFFICES ASSUME SmoothInv, Plain, pc = "done"
               PROVE  /\ result = "notFound" => box = "gone" \/ ~there \/ "body" \in faults
                      /\ result = "exists" => meddled
                      /\ result = "error" =>
                            \/ Broke \/ meddled \/ Refusable
                            \/ into = "dest" /\ (Clash(theirs) \/ Barred(theirs))
                            \/ into = "staging" /\ theirs # Absent /\ source[Top].kind = "dir"
                            \/ into = "staging" /\ ~Superuser /\ "w" \notin source[Top].mode
    BY DEF FailsForCause, Broke
  <2> QED
    BY DEF SmoothInv, Causes, Undisturbed, Plain
<1> QED
  BY <1>1, <1>2, <1>3, PTL DEF Spec
=============================================================================
