------------------------ MODULE DefinitionCacheFollows ------------------------
(***************************************************************************)
(* Theorems about DefinitionCache: the caches do not change what a         *)
(* resolution returns while nobody edits a file, and after an edit they    *)
(* come to agree with the files again.                                     *)
(***************************************************************************)
EXTENDS DefinitionCacheProofs

-----------------------------------------------------------------------------
(* References and what they lead to.                                       *)

\* What is reachable is the least closed set of files around the first ones.
LEMMA ReachableIsLeast ==
  ASSUME NEW fs \in SUBSET Files
  PROVE  /\ fs \subseteq Reachable(fs) /\ Reachable(fs) \subseteq Files
         /\ \A S \in SUBSET Files : fs \subseteq S /\ Closed(S) => Reachable(fs) \subseteq S
  BY DEF Reachable

\* The references of a file are targets.
LEMMA ReferencesAreTargets ==
  ASSUME TypeOK, NEW f \in Files
  PROVE  /\ References(f) \in SUBSET Target
         /\ FilesOf(References(f)) \in SUBSET Files
         /\ \A p \in DOMAIN files[f].props :
              /\ files[f].props[p] \in Property
              /\ Links(f, p) \subseteq References(f)
<1>1. IsContent(files[f])
  BY CacheAssumption DEF TypeOK
<1>2. \A p \in DOMAIN files[f].props : files[f].props[p] \in Property
  BY <1>1 DEF IsContent, IsNamed
<1>3. \A p \in DOMAIN files[f].props : Links(f, p) \in SUBSET Target
  BY <1>2 DEF Links, Property
<1>4. References(f) \in SUBSET Target
  BY <1>3 DEF References
<1>5. \A p \in DOMAIN files[f].props : Links(f, p) \subseteq References(f)
  BY DEF References
<1> QED
  BY <1>2, <1>4, <1>5 DEF FilesOf, Target

\* It is closed, so what a reachable file needs is reachable too.
LEMMA ReachableIsClosed ==
  ASSUME TypeOK, NEW fs \in SUBSET Files
  PROVE  /\ Closed(Reachable(fs))
         /\ \A g \in Reachable(fs) :
              Reachable({g}) \subseteq Reachable(fs) /\ Needs(g) \subseteq Reachable(fs)
<1>1. Closed(Reachable(fs))
  <2> SUFFICES ASSUME NEW g \in Reachable(fs), NEW h \in FilesOf(References(g))
               PROVE  h \in Reachable(fs)
    BY DEF Closed
  <2>1. g \in Files
    BY DEF Reachable
  <2>2. h \in Files
    BY <2>1, ReferencesAreTargets
  <2>3. ASSUME NEW S \in SUBSET Files, fs \subseteq S /\ Closed(S) PROVE h \in S
    <3>1. g \in S
      BY <2>3 DEF Reachable
    <3> QED BY <2>3, <3>1 DEF Closed
  <2> QED BY <2>2, <2>3 DEF Reachable
<1>2. ASSUME NEW g \in Reachable(fs)
      PROVE  Reachable({g}) \subseteq Reachable(fs) /\ Needs(g) \subseteq Reachable(fs)
  <2>1. Reachable(fs) \in SUBSET Files /\ {g} \in SUBSET Files
        /\ {g} \subseteq Reachable(fs)
    BY ReachableIsLeast
  <2>2. FilesOf(References(g)) \in SUBSET Files
        /\ FilesOf(References(g)) \subseteq Reachable(fs)
    BY <1>1, <2>1, ReferencesAreTargets DEF Closed
  <2> QED BY <1>1, <2>1, <2>2, ReachableIsLeast DEF Needs
<1> QED
  BY <1>1, <1>2

\* Need is transitive.
LEMMA NeedsOfNeeds ==
  ASSUME TypeOK, NEW f \in Files
  PROVE  /\ FilesOf(References(f)) \subseteq Needs(f) /\ Needs(f) \in SUBSET Files
         /\ \A g \in Needs(f) : FilesOf(References(g)) \subseteq Needs(f)
         /\ f \in Reachable({f}) /\ Needs(f) \subseteq Reachable({f})
<1>1. FilesOf(References(f)) \in SUBSET Files /\ {f} \in SUBSET Files
  BY ReferencesAreTargets
<1>2. f \in Reachable({f})
  BY <1>1, ReachableIsLeast
<1>3. Needs(f) \subseteq Reachable({f})
  BY <1>1, <1>2, ReachableIsClosed
<1>4. FilesOf(References(f)) \subseteq Needs(f) /\ Needs(f) \in SUBSET Files
  BY <1>1, ReachableIsLeast DEF Needs
<1>5. \A g \in Needs(f) : FilesOf(References(g)) \subseteq Needs(f)
  BY <1>1, ReachableIsClosed DEF Needs, Closed
<1> QED
  BY <1>2, <1>3, <1>4, <1>5

\* A file all of whose references can be followed is sound: whatever it needs is
\* reachable from one of them, and a cycle through it would be one of theirs.
LEMMA SoundFromReferences ==
  ASSUME TypeOK, NEW f \in Files, files[f].ok, \A t \in References(f) : Follows(t)
  PROVE  Sound(f)
<1> DEFINE U == {g \in Files : \E t \in References(f) : g \in Reachable({t[1]})}
<1>t. \A t \in References(f) : t[1] \in Files
  BY ReferencesAreTargets DEF FilesOf
<1>1. \A g \in U : FilesOf(References(g)) \subseteq U
  <2> SUFFICES ASSUME NEW g \in U PROVE FilesOf(References(g)) \subseteq U
    OBVIOUS
  <2>1. PICK t \in References(f) : g \in Reachable({t[1]})
    OBVIOUS
  <2>2. {t[1]} \in SUBSET Files
    BY <1>t
  <2>3. FilesOf(References(g)) \subseteq Reachable({t[1]})
    BY <2>1, <2>2, ReachableIsClosed DEF Closed
  <2> QED BY <2>2, <2>3, ReachableIsLeast
<1>2. FilesOf(References(f)) \subseteq U
  <2> SUFFICES ASSUME NEW t \in References(f) PROVE t[1] \in U
    BY DEF FilesOf
  <2>1. {t[1]} \in SUBSET Files
    BY <1>t
  <2>2. t[1] \in Reachable({t[1]})
    BY <2>1, ReachableIsLeast
  <2> QED BY <2>2, <1>t
<1>3. \A g \in U : ~OnCycle(g) /\ \A t \in References(g) : Readable(t) /\ t[2] \in DOMAIN files[t[1]].props
  <2> SUFFICES ASSUME NEW g \in U
               PROVE  /\ ~OnCycle(g)
                      /\ \A t \in References(g) : Readable(t) /\ t[2] \in DOMAIN files[t[1]].props
    OBVIOUS
  <2>1. PICK t \in References(f) : g \in Reachable({t[1]})
    OBVIOUS
  <2>2. Sound(t[1])
    BY DEF Follows
  <2> QED BY <2>1, <2>2, Zenon DEF Sound
<1> HIDE DEF U
<1>4. U \in SUBSET Files
  BY DEF U
<1>5. Needs(f) \subseteq U
  <2>1. FilesOf(References(f)) \in SUBSET Files /\ Closed(U)
    BY <1>1, ReferencesAreTargets DEF Closed
  <2> QED BY <1>2, <1>4, <2>1, ReachableIsLeast DEF Needs
<1>6. ~OnCycle(f)
  BY <1>3, <1>5 DEF OnCycle
<1>7. Reachable({f}) \subseteq U \cup {f}
  <2>1. Closed(U \cup {f})
    BY <1>1, <1>2 DEF Closed
  <2>2. {f} \in SUBSET Files /\ U \cup {f} \in SUBSET Files /\ {f} \subseteq U \cup {f}
    BY <1>4
  <2> QED BY <2>1, <2>2, ReachableIsLeast
<1>8. \A t \in References(f) : Readable(t) /\ t[2] \in DOMAIN files[t[1]].props
  BY DEF Follows, Existing
<1> QED
  BY <1>3, <1>6, <1>7, <1>8 DEF Sound

\* A file is not sound when it needs one whose reference cannot be followed, or
\* one that needs itself.
LEMMA NotSound ==
  ASSUME TypeOK, NEW f \in Files, NEW g \in Reachable({f}), NEW t \in References(g),
         \/ ~Readable(t)
         \/ t[2] \notin DOMAIN files[t[1]].props
         \/ t[1] \in Reachable({f}) /\ t[1] \in Needs(t[1])
  PROVE  ~Sound(f)
  BY DEF Sound, OnCycle

-----------------------------------------------------------------------------
(* What a property takes over.                                             *)

\* What a property leads to is the least closed set of properties around it.
LEMMA FollowedIsLeast ==
  ASSUME TypeOK, NEW f, NEW p, <<f, p>> \in Existing
  PROVE  /\ <<f, p>> \in Followed(f, p) /\ Followed(f, p) \subseteq Existing
         /\ ClosedLinks(Followed(f, p))
         /\ \A S \in SUBSET Existing :
              <<f, p>> \in S /\ ClosedLinks(S) => Followed(f, p) \subseteq S
<1>1. <<f, p>> \in Followed(f, p)
  BY DEF Followed
<1>2. ClosedLinks(Followed(f, p))
  <2> SUFFICES ASSUME NEW s \in Followed(f, p), ~IsOwn(s),
                      NEW t \in Links(s[1], s[2]) \cap Existing
               PROVE  t \in Followed(f, p)
    BY DEF ClosedLinks
  <2>1. ASSUME NEW S \in SUBSET Existing, <<f, p>> \in S /\ ClosedLinks(S) PROVE t \in S
    <3>1. s \in S
      BY <2>1 DEF Followed
    <3> QED BY <2>1, <3>1 DEF ClosedLinks
  <2> QED BY <2>1 DEF Followed
<1> QED
  BY <1>1, <1>2 DEF Followed

\* A property with a value of its own stands for itself (resolve.py:719-739).
LEMMA MeaningOfOwn ==
  ASSUME TypeOK, NEW f, NEW p, <<f, p>> \in Existing, files[f].props[p].own
  PROVE  Meaning(f, p) = {<<f, p>>}
<1>1. IsOwn(<<f, p>>)
  BY DEF IsOwn
<1>2. ClosedLinks({<<f, p>>}) /\ {<<f, p>>} \in SUBSET Existing
  BY <1>1 DEF ClosedLinks
<1>3. Followed(f, p) = {<<f, p>>}
  BY <1>2, FollowedIsLeast
<1> QED
  BY <1>1, <1>3 DEF Meaning

\* Another takes over what its link means.
LEMMA MeaningOfLink ==
  ASSUME TypeOK, NEW f, NEW p, <<f, p>> \in Existing, ~files[f].props[p].own,
         NEW t \in Existing, Links(f, p) = {t}
  PROVE  Meaning(f, p) = Meaning(t[1], t[2])
<1> DEFINE s == <<f, p>>  F == Followed(t[1], t[2])
<1>1. ~IsOwn(s) /\ Links(s[1], s[2]) \cap Existing = {t}
  BY DEF IsOwn
<1>2. t = <<t[1], t[2]>>
  BY DEF Existing, Target
<1>3. t \in F /\ F \subseteq Existing /\ ClosedLinks(F)
      /\ \A S \in SUBSET Existing : t \in S /\ ClosedLinks(S) => F \subseteq S
  BY <1>2, FollowedIsLeast
<1>4. /\ s \in Followed(f, p) /\ Followed(f, p) \subseteq Existing
      /\ ClosedLinks(Followed(f, p))
      /\ \A S \in SUBSET Existing : s \in S /\ ClosedLinks(S) => Followed(f, p) \subseteq S
  BY FollowedIsLeast
<1> HIDE DEF s, F
<1>5. t \in Followed(f, p)
  BY <1>1, <1>4 DEF ClosedLinks
<1>6. F \subseteq Followed(f, p)
  BY <1>3, <1>4, <1>5
<1>7. ClosedLinks(F \cup {s})
  BY <1>1, <1>3 DEF ClosedLinks
<1>8. Followed(f, p) \subseteq F \cup {s}
  BY <1>3, <1>4, <1>7
<1> QED
  BY <1>1, <1>6, <1>8 DEF Meaning, F

\* Without a link nothing is taken over.
LEMMA MeaningOfNone ==
  ASSUME TypeOK, NEW f, NEW p, <<f, p>> \in Existing, ~files[f].props[p].own,
         Links(f, p) = {}
  PROVE  Meaning(f, p) = {}
<1>1. ~IsOwn(<<f, p>>) /\ Links(<<f, p>>[1], <<f, p>>[2]) = {}
  BY DEF IsOwn
<1>2. ClosedLinks({<<f, p>>}) /\ {<<f, p>>} \in SUBSET Existing
  BY <1>1 DEF ClosedLinks
<1>3. Followed(f, p) = {<<f, p>>}
  BY <1>2, FollowedIsLeast
<1> QED
  BY <1>1, <1>3 DEF Meaning

-----------------------------------------------------------------------------
(* Right frames and entries, and what keeps them right.                    *)

\* The parts of Faithful, for stacks and caches that are not those of a state.
Current(fr) ==
  /\ fr.file \notin Remote
  /\ files[fr.file].ok /\ fr.props = files[fr.file].props
RightFrame(fr, b) ==
  Settled(b - Age(fr.file)) =>
    \A p \in DOMAIN fr.props :
      /\ fr.props[p].own \/ p \notin fr.todo => Means(fr.file, p, fr.values[p])
      /\ p \notin fr.todo => \A t \in fr.props[p].refs : Follows(t)
RightContract(f, entry) ==
  Settled(entry.at - MaxRun - Age(f)) => Sound(f) /\ Resolves(f, entry.value)
RightDef(t, entry) ==
  Settled(entry.at - TTL - MaxRun - Age(t[1])) =>
    Follows(t) /\ Means(t[1], t[2], entry.value)

RightFrames(s, b) == \A i \in DOMAIN s : RightFrame(s[i], b)
RightContracts(cs) == \A f \in DOMAIN cs : RightContract(f, cs[f])
RightDefs(ds) == \A t \in DOMAIN ds : RightDef(t, ds[t])
CurrentFrames(s, b) ==
  Settled(b) => \A i \in DOMAIN s : Current(s[i]) /\ (i > 1 => Readable(s[i].for))
NeededFrames(s, b) ==
  Settled(b) => \A i, j \in DOMAIN s : i < j => s[j].file \in Needs(s[i].file)
Descending(s) ==
  Layered => \A i, j \in DOMAIN s : i < j => Height[s[j].file] < Height[s[i].file]
Right(s, b) ==
  CurrentFrames(s, b) /\ NeededFrames(s, b) /\ Descending(s) /\ RightFrames(s, b)

LEMMA FaithfulParts ==
  Faithful <=> /\ Right(stack, run.began)
                /\ RightContracts(contracts) /\ RightDefs(defs) /\ ResultFollows
<1>1. Lineage <=> /\ CurrentFrames(stack, run.began) /\ NeededFrames(stack, run.began)
                  /\ Descending(stack)
  BY DEF Lineage, CurrentFrames, Current, NeededFrames, Descending
<1>2. FramesFollow <=> RightFrames(stack, run.began)
  BY DEF FramesFollow, RightFrames, RightFrame, Age
<1>3. CachesFollow <=> RightContracts(contracts) /\ RightDefs(defs)
  BY DEF CachesFollow, RightContracts, RightContract, RightDefs, RightDef, Age
<1> QED
  BY <1>1, <1>2, <1>3 DEF Faithful, Right

\* As long as nobody edits a file, the files say the same.
LEMMA SameWorld ==
  ASSUME files' = files, edits' = edits, run'.edited = run.edited
  PROVE  /\ \A x : Settled(x)' <=> Settled(x)
         /\ \A f : Needs(f)' = Needs(f)
         /\ \A f : Sound(f)' <=> Sound(f)
         /\ \A t : (Readable(t)' <=> Readable(t)) /\ (Follows(t)' <=> Follows(t))
         /\ \A f, p, v : Means(f, p, v)' <=> Means(f, p, v)
         /\ \A f, v : Resolves(f, v)' <=> Resolves(f, v)
<1>1. \A x : Settled(x)' <=> Settled(x)
  BY DEF Settled, Layered
<1>2. /\ \A f, p : Links(f, p)' = Links(f, p)
      /\ \A t : IsOwn(t)' = IsOwn(t)
      /\ Existing' = Existing
      /\ \A t : Readable(t)' <=> Readable(t)
  BY DEF Links, IsOwn, Existing, Readable
<1>3. \A f : References(f)' = References(f)
  BY <1>2 DEF References
<1>4. \A S : Closed(S)' <=> Closed(S)
  BY <1>3 DEF Closed
<1>5. \A fs : Reachable(fs)' = Reachable(fs)
  BY <1>4 DEF Reachable
<1>6. \A f : Needs(f)' = Needs(f)
  BY <1>3, <1>5 DEF Needs
<1>7. \A f : Sound(f)' <=> Sound(f)
  BY <1>2, <1>3, <1>5, <1>6 DEF Sound, OnCycle
<1>8. \A t : Follows(t)' <=> Follows(t)
  BY <1>2, <1>7 DEF Follows
<1>9. \A S : ClosedLinks(S)' <=> ClosedLinks(S)
  BY <1>2 DEF ClosedLinks
<1>10. \A f, p : Followed(f, p)' = Followed(f, p)
  BY <1>2, <1>9 DEF Followed
<1>11. \A f, p : Meaning(f, p)' = Meaning(f, p)
  BY <1>2, <1>10 DEF Meaning
<1>12. \A f, p, v : Means(f, p, v)' <=> Means(f, p, v)
  BY <1>11 DEF Means
<1>13. \A f, v : Resolves(f, v)' <=> Resolves(f, v)
  BY <1>12 DEF Resolves
<1> QED
  BY <1>1, <1>2, <1>6, <1>7, <1>8, <1>12, <1>13

\* So what is right stays right while it is kept.
LEMMA FaithfulNext ==
  ASSUME files' = files, edits' = edits, run'.edited = run.edited,
         Right(stack', run'.began), RightContracts(contracts'), RightDefs(defs'),
         ResultFollows'
  PROVE  Faithful'
<1>1. /\ \A x : Settled(x)' <=> Settled(x)
      /\ \A f : Needs(f)' = Needs(f)
      /\ \A f : Sound(f)' <=> Sound(f)
      /\ \A t : (Readable(t)' <=> Readable(t)) /\ (Follows(t)' <=> Follows(t))
      /\ \A f, p, v : Means(f, p, v)' <=> Means(f, p, v)
      /\ \A f, v : Resolves(f, v)' <=> Resolves(f, v)
  BY SameWorld
<1>2. Lineage'
  BY <1>1 DEF Lineage, Right, CurrentFrames, Current, NeededFrames, Descending, Layered
<1>3. FramesFollow'
  BY <1>1 DEF FramesFollow, Right, RightFrames, RightFrame, Age, Span
<1>4. CachesFollow'
  BY <1>1 DEF CachesFollow, RightContracts, RightContract, RightDefs, RightDef, Age, Span
<1> QED
  BY <1>2, <1>3, <1>4 DEF Faithful

\* The longer ago, the safer.
LEMMA SettledLater ==
  ASSUME TypeOK, NEW x \in Int, NEW y \in Int, Settled(x), x <= y
  PROVE  Settled(y)
<1>1. run.edited \in Int
  BY DEF TypeOK
<1> QED
  BY <1>1 DEF Settled

\* A file that is read is right about what needs no reference (resolve.py:442-447).
LEMMA ReadIsRight ==
  ASSUME TypeOK, NEW t \in Target, NEW into \in Frags, NEW b
  PROVE  RightFrame(Read(t, into), b)
<1> DEFINE fr == Read(t, into)  f == t[1]  props == files[f].props
<1>1. /\ fr.file = f /\ fr.props = props
      /\ fr.values = [p \in DOMAIN props |->
                        IF props[p].own THEN {[src |-> <<f, p>>, at |-> now]} ELSE {}]
      /\ fr.todo = {p \in DOMAIN props : props[p].refs # {}}
  BY DEF Read
<1>2. f \in Files
  BY DEF Target
<1>3. IsContent(files[f])
  BY <1>2, CacheAssumption DEF TypeOK
<1>4. \A p \in DOMAIN props : <<f, p>> \in Existing /\ props[p] \in Property
  BY <1>2, <1>3 DEF IsContent, IsNamed, Existing, Target
<1> SUFFICES ASSUME NEW p \in DOMAIN props
             PROVE  /\ props[p].own \/ p \notin fr.todo => Means(f, p, fr.values[p])
                    /\ p \notin fr.todo => \A r \in props[p].refs : Follows(r)
  BY <1>1, Zenon DEF RightFrame
<1>5. p \notin fr.todo => props[p].refs = {}
  BY <1>1
<1>6. CASE props[p].own
  <2>1. fr.values[p] = {[src |-> <<f, p>>, at |-> now]}
    BY <1>1, <1>6
  <2>2. Meaning(f, p) = {<<f, p>>}
    BY <1>4, <1>6, MeaningOfOwn
  <2>3. {o.src : o \in fr.values[p]} = {<<f, p>>}
    BY <2>1
  <2> QED BY <1>5, <2>2, <2>3 DEF Means
<1>7. CASE ~props[p].own /\ p \notin fr.todo
  <2>1. fr.values[p] = {}
    BY <1>1, <1>7
  <2>2. Links(f, p) = {}
    BY <1>5, <1>7 DEF Links
  <2>3. Meaning(f, p) = {}
    BY <1>4, <1>7, <2>2, MeaningOfNone
  <2>4. {o.src : o \in fr.values[p]} = {}
    BY <2>1
  <2> QED BY <1>5, <2>3, <2>4 DEF Means
<1> QED
  BY <1>6, <1>7

\* The references of a current frame are those of its file, one a property.
LEMMA CurrentReferences ==
  ASSUME TypeOK, NEW fr, IsFrame(fr), Current(fr), NEW p \in DOMAIN fr.props
  PROVE  /\ fr.file \in Files /\ <<fr.file, p>> \in Existing
         /\ fr.props[p].refs = Links(fr.file, p)
         /\ fr.props[p].refs \subseteq References(fr.file)
         /\ \A s, t \in fr.props[p].refs : s = t
<1>1. fr.file \in Files /\ fr.props = files[fr.file].props
  BY DEF IsFrame, Current
<1>2. files[fr.file] \in Contents[fr.file] /\ IsContent(files[fr.file])
  BY <1>1, CacheAssumption DEF TypeOK
<1>3. <<fr.file, p>> \in Existing
  BY <1>1, <1>2 DEF IsContent, IsNamed, Existing, Target
<1>4. fr.props[p].refs = Links(fr.file, p)
  BY <1>1 DEF Links, Current
<1>5. Links(fr.file, p) \subseteq References(fr.file)
  BY <1>1, ReferencesAreTargets
<1>6. \A s, t \in fr.props[p].refs : s = t
  BY <1>1, <1>2, CacheAssumption
<1> QED
  BY <1>1, <1>3, <1>4, <1>5, <1>6

\* A frame that takes over what its reference means is right about one property
\* more (resolve.py:719-739).
LEMMA InlinedIsRight ==
  ASSUME TypeOK, NEW fr, IsFrame(fr), NEW b \in Int, RightFrame(fr, b),
         Settled(b) => Current(fr),
         NEW p \in DOMAIN fr.props, NEW t \in fr.props[p].refs, NEW v,
         Settled(b - Age(fr.file)) => Follows(t) /\ Means(t[1], t[2], v)
  PROVE  RightFrame(Inlined(fr, p, v), b)
<1> DEFINE e == Inlined(fr, p, v)
<1>f. fr.file \in Files /\ Age(fr.file) \in Nat
  BY AgeIsNat DEF IsFrame
<1>1. /\ e.file = fr.file /\ e.props = fr.props /\ e.todo = fr.todo \ {p}
      /\ \A n \in DOMAIN fr.props : n # p => e.values[n] = fr.values[n]
      /\ e.values[p] = IF fr.props[p].own THEN fr.values[p] ELSE v
  <2>1. /\ fr = [file |-> fr.file, for |-> fr.for, into |-> fr.into, props |-> fr.props,
                 values |-> fr.values, todo |-> fr.todo]
        /\ IsNamed(fr.values, Value) /\ DOMAIN fr.values = DOMAIN fr.props
    BY DEF IsFrame
  <2>2. fr.values \in [DOMAIN fr.props -> Value]
    BY <2>1 DEF IsNamed
  <2>3. e = [file |-> fr.file, for |-> fr.for, into |-> fr.into, props |-> fr.props,
             values |-> [fr.values EXCEPT ![p] = IF fr.props[p].own THEN @ ELSE v],
             todo |-> fr.todo \ {p}]
    <3> DEFINE vals == [fr.values EXCEPT ![p] = IF fr.props[p].own THEN @ ELSE v]
               first == [fr EXCEPT !.values = vals]
    <3>1. e = [first EXCEPT !.todo = @ \ {p}]
      BY Zenon DEF Inlined
    <3>2. first = [file |-> fr.file, for |-> fr.for, into |-> fr.into, props |-> fr.props,
                   values |-> vals, todo |-> fr.todo]
      BY <2>1
    <3> QED BY <3>1, <3>2
  <2> QED BY <2>2, <2>3
<1> HIDE DEF e
<1> SUFFICES ASSUME Settled(b - Age(fr.file)), NEW n \in DOMAIN fr.props
             PROVE  /\ fr.props[n].own \/ n \notin e.todo => Means(fr.file, n, e.values[n])
                    /\ n \notin e.todo => \A r \in fr.props[n].refs : Follows(r)
  BY <1>1, Zenon DEF RightFrame, e
<1>2. /\ fr.props[n].own \/ n \notin fr.todo => Means(fr.file, n, fr.values[n])
      /\ n \notin fr.todo => \A r \in fr.props[n].refs : Follows(r)
  BY DEF RightFrame
<1>3. CASE n # p
  <2>1. e.values[n] = fr.values[n] /\ (n \in e.todo <=> n \in fr.todo)
    BY <1>1, <1>3
  <2> QED BY <1>2, <2>1
<1>4. CASE n = p
  <2>1. Current(fr)
    <3>1. b - Age(fr.file) \in Int /\ b - Age(fr.file) <= b
      BY <1>f
    <3> QED BY <3>1, SettledLater
  <2>2. /\ <<fr.file, p>> \in Existing /\ fr.props[p].refs = Links(fr.file, p)
        /\ \A s, r \in fr.props[p].refs : s = r
    BY <2>1, CurrentReferences
  <2>3. Follows(t) /\ Means(t[1], t[2], v) /\ Links(fr.file, p) = {t} /\ t \in Existing
    BY <2>2 DEF Follows
  <2>4. \A r \in fr.props[p].refs : Follows(r)
    BY <2>2, <2>3
  <2>5. CASE fr.props[p].own
    BY <1>1, <1>2, <1>4, <2>4, <2>5
  <2>6. CASE ~fr.props[p].own
    <3>1. ~files[fr.file].props[p].own
      BY <2>1, <2>6 DEF Current
    <3>2. Meaning(fr.file, p) = Meaning(t[1], t[2])
      BY <2>2, <2>3, <3>1, MeaningOfLink
    <3>3. Means(fr.file, p, v)
      BY <2>3, <3>2 DEF Means
    <3> QED BY <1>1, <1>4, <2>4, <2>6, <3>3
  <2> QED BY <2>5, <2>6
<1> QED
  BY <1>3, <1>4

\* A frame that is done has resolved its file (resolve.py:447-449).
LEMMA DoneIsResolved ==
  ASSUME TypeOK, NEW fr, IsFrame(fr), NEW b \in Int, RightFrame(fr, b),
         Settled(b) => Current(fr), fr.todo = {}, Settled(b - Age(fr.file))
  PROVE  Current(fr) /\ Sound(fr.file) /\ Resolves(fr.file, fr.values)
<1>1. fr.file \in Files /\ Age(fr.file) \in Nat /\ DOMAIN fr.values = DOMAIN fr.props
  BY AgeIsNat DEF IsFrame
<1>2. Current(fr)
  <2>1. b - Age(fr.file) \in Int /\ b - Age(fr.file) <= b
    BY <1>1
  <2> QED BY <2>1, SettledLater
<1>3. \A p \in DOMAIN fr.props :
        Means(fr.file, p, fr.values[p]) /\ \A t \in fr.props[p].refs : Follows(t)
  BY DEF RightFrame
<1>4. \A t \in References(fr.file) : Follows(t)
  <2>1. \A p \in DOMAIN fr.props : fr.props[p].refs = Links(fr.file, p)
    BY <1>2, CurrentReferences
  <2>2. DOMAIN files[fr.file].props = DOMAIN fr.props
    BY <1>2 DEF Current
  <2> QED BY <1>3, <2>1, <2>2 DEF References
<1>5. Sound(fr.file)
  BY <1>1, <1>2, <1>4, SoundFromReferences DEF Current
<1>6. Resolves(fr.file, fr.values)
  BY <1>1, <1>2, <1>3 DEF Resolves, Current
<1> QED
  BY <1>2, <1>5, <1>6

\* An entry written now, for a contract or for a definition.
LEMMA PutIsRight ==
  ASSUME NEW key, NEW value
  PROVE  /\ RightContracts(contracts) /\ RightContract(key, [at |-> now, value |-> value])
              => RightContracts(Put(contracts, key, value))
         /\ RightDefs(defs) /\ RightDef(key, [at |-> now, value |-> value])
              => RightDefs(Put(defs, key, value))
<1>1. ASSUME RightContracts(contracts), RightContract(key, [at |-> now, value |-> value])
      PROVE  RightContracts(Put(contracts, key, value))
  <2> DEFINE e == Put(contracts, key, value)
  <2>1. /\ e[key] = [at |-> now, value |-> value]
        /\ \A k \in DOMAIN e : k # key => k \in DOMAIN contracts /\ e[k] = contracts[k]
    BY PutEntries
  <2> HIDE DEF e
  <2>2. \A k \in DOMAIN e : RightContract(k, e[k])
    BY <1>1, <2>1, Zenon DEF RightContracts
  <2> QED BY <2>2 DEF RightContracts, e
<1>2. ASSUME RightDefs(defs), RightDef(key, [at |-> now, value |-> value])
      PROVE  RightDefs(Put(defs, key, value))
  <2> DEFINE e == Put(defs, key, value)
  <2>1. /\ e[key] = [at |-> now, value |-> value]
        /\ \A k \in DOMAIN e : k # key => k \in DOMAIN defs /\ e[k] = defs[k]
    BY PutEntries
  <2> HIDE DEF e
  <2>2. \A k \in DOMAIN e : RightDef(k, e[k])
    BY <1>2, <2>1, Zenon DEF RightDefs
  <2> QED BY <2>2 DEF RightDefs, e
<1> QED
  BY <1>1, <1>2

\* Asking a cache makes nothing wrong.
LEMMA GotIsRight ==
  ASSUME NEW key
  PROVE  /\ RightContracts(contracts) => RightContracts(Got(contracts, key))
         /\ RightDefs(defs) => RightDefs(Got(defs, key))
<1>1. RightContracts(contracts) => RightContracts(Got(contracts, key))
  <2> DEFINE e == Got(contracts, key)
  <2>1. DOMAIN e \subseteq DOMAIN contracts /\ \A k \in DOMAIN e : e[k] = contracts[k]
    BY GotEntries
  <2> HIDE DEF e
  <2>2. RightContracts(contracts) => RightContracts(e)
    BY <2>1 DEF RightContracts
  <2> QED BY <2>2 DEF e
<1>2. RightDefs(defs) => RightDefs(Got(defs, key))
  <2> DEFINE e == Got(defs, key)
  <2>1. DOMAIN e \subseteq DOMAIN defs /\ \A k \in DOMAIN e : e[k] = defs[k]
    BY GotEntries
  <2> HIDE DEF e
  <2>2. RightDefs(defs) => RightDefs(e)
    BY <2>1 DEF RightDefs
  <2> QED BY <2>2 DEF e
<1> QED
  BY <1>1, <1>2

-----------------------------------------------------------------------------
(* The calls.                                                              *)

\* A file that is higher has at least the same allowance.
LEMMA AgeByHeight ==
  ASSUME NEW f \in Files, NEW g \in Files, Height[f] <= Height[g]
  PROVE  Age(f) <= Age(g)
<1>1. Height[f] \in Nat /\ Height[g] \in Nat /\ Span \in Nat
  BY CacheAssumption DEF Span
<1>2. \A a, b, k \in Nat : a <= b => a * k <= b * k
  <2> SUFFICES ASSUME NEW a \in Nat, NEW b \in Nat, NEW k \in Nat, a <= b
               PROVE  a * k <= b * k
    OBVIOUS
  <2>1. PICK j \in Nat : b = a + j
    <3>1. b - a \in Nat /\ b = a + (b - a)
      OBVIOUS
    <3> QED BY <3>1
  <2>2. b * k = a * k + j * k /\ j * k \in Nat /\ a * k \in Nat
    BY <2>1
  <2> QED BY <2>2
<1> QED
  BY <1>1, <1>2 DEF Age

\* What is long enough ago for a caller is so for the files it calls.
LEMMA SettledCallees ==
  ASSUME TypeOK, NEW s, NEW m \in Nat, DOMAIN s = 1 .. m, \A i \in DOMAIN s : IsFrame(s[i]),
         Descending(s), NEW b \in Int, NEW i \in 1 .. m, NEW j \in 1 .. m, i <= j,
         Settled(b - Age(s[i].file))
  PROVE  Settled(b - Age(s[j].file))
<1>1. s[i].file \in Files /\ s[j].file \in Files
  BY DEF IsFrame
<1>2. CASE edits = 0
  BY <1>2 DEF Settled
<1>3. CASE Layered
  <2>1. Height[s[j].file] <= Height[s[i].file]
    <3>1. Height[s[j].file] \in Nat /\ Height[s[i].file] \in Nat
      BY <1>1, CacheAssumption
    <3>2. CASE i = j
      BY <3>1, <3>2
    <3>3. CASE i < j
      BY <1>3, <3>1, <3>3 DEF Descending
    <3> QED BY <3>2, <3>3
  <2>2. Age(s[j].file) <= Age(s[i].file) /\ Age(s[j].file) \in Nat /\ Age(s[i].file) \in Nat
    BY <1>1, <2>1, AgeByHeight, AgeIsNat
  <2>3. /\ b - Age(s[i].file) \in Int /\ b - Age(s[j].file) \in Int
        /\ b - Age(s[i].file) <= b - Age(s[j].file)
    BY <2>2
  <2> QED BY <2>3, SettledLater
<1> QED
  BY <1>2, <1>3 DEF Settled

\* The property that the frame that runs is about.
LEMMA LookingAt ==
  ASSUME TypeOK, Calls(stack), NEW n \in Frags, NEW t \in Target, Looking(n, t)
  PROVE  /\ outcome = "running" /\ IsFrame(Top) /\ Top = stack[Len(stack)]
         /\ Len(stack) \in Nat \ {0} /\ DOMAIN stack = 1 .. Len(stack)
         /\ n \in DOMAIN Top.props /\ t \in Top.props[n].refs
         /\ t[1] \in Files /\ Top.file \in Files
         /\ \E c \in Contents[Top.file] : Top.props = c.props
<1>1. /\ outcome = "running" /\ n \in Top.todo /\ t \in Top.props[n].refs
  BY DEF Looking
<1>2. /\ Len(stack) \in Nat \ {0} /\ DOMAIN stack = 1 .. Len(stack) /\ IsFrame(Top)
      /\ Len(stack) \in DOMAIN stack
  BY <1>1, TopFrame
<1>3. \E c \in Contents[Top.file] : Top.props = c.props
  BY <1>2, Zenon DEF Calls, Top
<1>4. n \in DOMAIN Top.props /\ Top.file \in Files
  BY <1>1, <1>2 DEF IsFrame
<1> QED
  BY <1>1, <1>2, <1>3, <1>4 DEF Top, Target

\* What is long enough ago for the frame that runs is so for what the caches
\* hold for its reference: a live entry, of a live contract, of a resolution.
LEMMA SettledReference ==
  ASSUME TypeOK, Calls(stack), NEW n \in Frags, NEW t \in Target, Looking(n, t),
         Settled(run.began - Age(Top.file)),
         NEW x \in Int, x >= now - 2 * TTL - MaxRun - Age(t[1])
  PROVE  Settled(x)
<1>1. CASE edits = 0
  BY <1>1 DEF Settled
<1>2. CASE Layered
  <2>1. /\ n \in DOMAIN Top.props /\ t \in Top.props[n].refs
        /\ t[1] \in Files /\ Top.file \in Files
        /\ \E c \in Contents[Top.file] : Top.props = c.props
    BY LookingAt
  <2>2. PICK c \in Contents[Top.file] : Top.props = c.props
    BY <2>1
  <2>3. Age(t[1]) + 2 * TTL + MaxRun <= Age(Top.file)
    BY <1>2, <2>1, <2>2, AgeSteps
  <2>4. Age(t[1]) \in Nat /\ Age(Top.file) \in Nat
    BY <2>1, AgeIsNat
  <2>5. TTL \in Nat /\ MaxRun \in Nat /\ now \in Nat /\ run.began \in 0 .. now
    BY CacheAssumption DEF TypeOK
  <2>6. run.began - Age(Top.file) \in Int /\ run.began - Age(Top.file) <= x
    BY <2>3, <2>4, <2>5
  <2> QED BY <2>6, SettledLater
<1> QED
  BY <1>1, <1>2 DEF Settled

\* A caller that goes on with what its reference means leaves the calls right.
LEMMA ResumedIsRight ==
  ASSUME TypeOK, NEW s, NEW m \in Nat, DOMAIN s = 1 .. m, \A i \in DOMAIN s : IsFrame(s[i]),
         NEW n \in 1 .. m, NEW b \in Int, Right(s, b),
         NEW p \in DOMAIN s[n].props, NEW t \in s[n].props[p].refs, NEW v \in Value,
         Settled(b - Age(s[n].file)) => Follows(t) /\ Means(t[1], t[2], v),
         NEW e, DOMAIN e = 1 .. n, \A i \in 1 .. n : i < n => e[i] = s[i],
         e[n] = Inlined(s[n], p, v)
  PROVE  Right(e, b)
<1>1. e[n].file = s[n].file /\ e[n].for = s[n].for /\ e[n].props = s[n].props
  BY InlinedFrame
<1>2. \A i \in 1 .. n : /\ i \in DOMAIN s /\ e[i].file = s[i].file
                        /\ e[i].for = s[i].for /\ e[i].props = s[i].props
  BY <1>1
<1>3. CurrentFrames(e, b)
  BY <1>2 DEF Right, CurrentFrames, Current
<1>4. NeededFrames(e, b)
  BY <1>2 DEF Right, NeededFrames
<1>5. Descending(e)
  BY <1>2 DEF Right, Descending
<1>6. RightFrame(s[n], b) /\ (Settled(b) => Current(s[n]))
  BY DEF Right, RightFrames, CurrentFrames
<1>7. RightFrame(e[n], b)
  BY <1>6, InlinedIsRight
<1>8. \A i \in 1 .. n : RightFrame(e[i], b)
  <2> SUFFICES ASSUME NEW i \in 1 .. n PROVE RightFrame(e[i], b)
    OBVIOUS
  <2>1. CASE i < n
    BY <2>1 DEF Right, RightFrames
  <2>2. CASE i = n
    BY <1>7, <2>2
  <2> QED BY <2>1, <2>2
<1> QED
  BY <1>3, <1>4, <1>5, <1>8 DEF Right, RightFrames

\* A call is for a file that its callers need (resolve.py:447, 484).
LEMMA LoadIsRight ==
  ASSUME TypeOK, Calls(stack), Right(stack, run.began),
         NEW n \in Frags, NEW t \in Target, LoadUnvisited(n, t)
  PROVE  Right(stack', run.began)
<1> DEFINE k == Len(stack)  fr == Read(t, n)  b == run.began
<1>1. /\ k \in Nat \ {0} /\ DOMAIN stack = 1 .. k /\ DOMAIN stack' = 1 .. k + 1
      /\ \A i \in 1 .. k : stack'[i] = stack[i]
      /\ stack'[k + 1] = fr
  BY LoadPushes
<1>2. /\ Looking(n, t) /\ t[1] \notin Remote /\ Readable(t)
  BY DEF LoadUnvisited, Missing
<1>3. /\ IsFrame(Top) /\ Top = stack[k] /\ n \in DOMAIN Top.props /\ t \in Top.props[n].refs
      /\ t[1] \in Files /\ Top.file \in Files
      /\ \E c \in Contents[Top.file] : Top.props = c.props
  BY <1>2, LookingAt
<1>4. fr.file = t[1] /\ fr.for = t /\ fr.props = files[t[1]].props
  BY DEF Read
<1>5. Current(fr)
  BY <1>2, <1>4 DEF Current, Readable
<1>6. RightFrame(fr, b)
  BY ReadIsRight
<1> HIDE DEF fr, k, b
<1>7. \A i \in 1 .. k + 1 : i \in 1 .. k \/ i = k + 1
  BY <1>1
<1>r. CurrentFrames(stack, b) /\ NeededFrames(stack, b) /\ Descending(stack)
      /\ RightFrames(stack, b)
  BY DEF Right, b
<1>8. CurrentFrames(stack', b)
  BY <1>1, <1>2, <1>4, <1>5, <1>7, <1>r DEF CurrentFrames
<1>9. RightFrames(stack', b)
  BY <1>1, <1>6, <1>7, <1>r DEF RightFrames
<1>10. NeededFrames(stack', b)
  <2> SUFFICES ASSUME Settled(b), NEW i \in 1 .. k + 1, NEW j \in 1 .. k + 1, i < j
               PROVE  stack'[j].file \in Needs(stack'[i].file)
    BY <1>1 DEF NeededFrames
  <2>1. i \in 1 .. k /\ stack'[i] = stack[i]
    BY <1>1
  <2>2. CASE j \in 1 .. k
    BY <1>1, <1>r, <2>1, <2>2 DEF NeededFrames
  <2>3. CASE j = k + 1
    <3>1. Current(Top)
      BY <1>1, <1>3, <1>r DEF CurrentFrames
    <3>2. t \in References(Top.file)
      BY <1>3, <3>1, CurrentReferences
    <3>3. t[1] \in FilesOf(References(Top.file))
      BY <3>2 DEF FilesOf
    <3>4. stack[i].file \in Files
      BY <1>1, <2>1 DEF TypeOK, IsFrame
    <3>5. CASE i = k
      BY <1>1, <1>3, <1>4, <2>1, <2>3, <3>3, <3>5, NeedsOfNeeds
    <3>6. CASE i # k
      <4>1. i < k /\ k \in 1 .. k
        BY <1>1, <2>1, <3>6
      <4>2. Top.file \in Needs(stack[i].file)
        BY <1>1, <1>3, <1>r, <2>1, <4>1 DEF NeededFrames
      <4> QED BY <1>1, <1>4, <2>1, <2>3, <3>3, <3>4, <4>2, NeedsOfNeeds
    <3> QED BY <3>5, <3>6
  <2> QED BY <1>7, <2>2, <2>3
<1>11. Descending(stack')
  <2> SUFFICES ASSUME Layered, NEW i \in 1 .. k + 1, NEW j \in 1 .. k + 1, i < j
               PROVE  Height[stack'[j].file] < Height[stack'[i].file]
    BY <1>1 DEF Descending
  <2>1. i \in 1 .. k /\ stack'[i] = stack[i]
    BY <1>1
  <2>2. CASE j \in 1 .. k
    BY <1>1, <1>r, <2>1, <2>2 DEF Descending
  <2>3. CASE j = k + 1
    <3>1. PICK c \in Contents[Top.file] : Top.props = c.props
      BY <1>3
    <3>2. Height[t[1]] < Height[Top.file]
      BY <1>3, <3>1 DEF Layered
    <3>3. stack[i].file \in Files
      BY <1>1, <2>1 DEF TypeOK, IsFrame
    <3>4. CASE i = k
      BY <1>1, <1>3, <1>4, <2>1, <2>3, <3>2, <3>4
    <3>5. CASE i # k
      <4>1. i < k /\ k \in 1 .. k
        BY <1>1, <2>1, <3>5
      <4>2. Height[Top.file] < Height[stack[i].file]
        BY <1>1, <1>3, <1>r, <2>1, <4>1 DEF Descending
      <4>3. Height[t[1]] \in Nat /\ Height[Top.file] \in Nat /\ Height[stack[i].file] \in Nat
        BY <1>3, <3>3, CacheAssumption
      <4>4. Height[t[1]] < Height[stack[i].file]
        BY <3>2, <4>2, <4>3
      <4> QED BY <1>1, <1>4, <2>1, <2>3, <4>4
    <3> QED BY <3>4, <3>5
  <2> QED BY <1>7, <2>2, <2>3
<1> QED
  BY <1>8, <1>9, <1>10, <1>11 DEF Right, b

\* While a contract is resolved, it needs all the files that are being resolved.
LEMMA FramesAreReachable ==
  ASSUME TypeOK, InTime, outcome = "running", NeededFrames(stack, run.began),
         Settled(run.began), NEW i \in DOMAIN stack
  PROVE  stack[i].file \in Reachable({run.root})
<1>1. /\ DOMAIN stack = 1 .. Len(stack) /\ Len(stack) \in Nat \ {0}
      /\ stack[1].file = run.root /\ run.root \in Files
  BY TopFrame DEF InTime
<1>2. CASE i = 1
  BY <1>1, <1>2, NeedsOfNeeds
<1>3. CASE i # 1
  <2>1. 1 \in DOMAIN stack /\ 1 < i
    BY <1>1, <1>3
  <2>2. stack[i].file \in Needs(run.root)
    BY <1>1, <2>1 DEF NeededFrames
  <2> QED BY <1>1, <2>2, NeedsOfNeeds
<1> QED
  BY <1>2, <1>3

\* A resolution that fails at a reference is one the files do not allow: a file
\* refers back to one that needs it, to a file that cannot be read, or to a
\* property that is not there (resolve.py:437-445, 462-465).
LEMMA FailIsJustified ==
  ASSUME TypeOK, Calls(stack), InTime, Right(stack, run.began), RightContracts(contracts),
         NEW n \in Frags, NEW t \in Target, Fail(n, t),
         Settled(run.began - Age(run.root))
  PROVE  ~Sound(run.root)
<1> DEFINE k == Len(stack)
<1>1. /\ Looking(n, t)
      /\ IF InContract(t) THEN t[2] \notin DOMAIN contracts[t[1]].value
                          ELSE t[1] \in Visited \/ ~Readable(t)
  BY DEF Fail, Missing
<1>2. /\ outcome = "running" /\ IsFrame(Top) /\ Top = stack[k]
      /\ k \in Nat \ {0} /\ DOMAIN stack = 1 .. k
      /\ n \in DOMAIN Top.props /\ t \in Top.props[n].refs
      /\ t[1] \in Files /\ Top.file \in Files
  BY <1>1, LookingAt
<1>r. CurrentFrames(stack, run.began) /\ NeededFrames(stack, run.began) /\ Descending(stack)
  BY DEF Right
<1>3. /\ run.began \in Nat /\ now \in Nat /\ run.began \in 0 .. now /\ TTL \in Nat /\ MaxRun \in Nat
      /\ run.root \in Files /\ now - run.began <= MaxRun
      /\ stack[1].file = run.root /\ \A i \in DOMAIN stack : IsFrame(stack[i])
  BY <1>2, CacheAssumption DEF TypeOK, InTime
<1>4. Settled(run.began)
  <2>1. Age(run.root) \in Nat
    BY <1>3, AgeIsNat
  <2>2. run.began - Age(run.root) \in Int /\ run.began - Age(run.root) <= run.began
    BY <1>3, <2>1
  <2> QED BY <1>3, <2>2, SettledLater
<1> HIDE DEF k
<1>5. Settled(run.began - Age(Top.file))
  <2>1. 1 \in 1 .. k /\ k \in 1 .. k /\ 1 <= k
    BY <1>2
  <2> QED BY <1>2, <1>3, <1>r, <2>1, SettledCallees
<1>6. Top.file \in Reachable({run.root})
  <2>1. k \in DOMAIN stack
    BY <1>2
  <2>2. stack[k].file \in Reachable({run.root})
    BY <1>2, <1>4, <1>r, <2>1, FramesAreReachable
  <2> QED BY <1>2, <2>2
<1>7. t \in References(Top.file) /\ t[1] \in FilesOf(References(Top.file))
  <2>1. Current(Top)
    BY <1>2, <1>4, <1>r DEF CurrentFrames
  <2> QED BY <1>2, <2>1, CurrentReferences DEF FilesOf
<1>8. CASE InContract(t)
  <2> DEFINE entry == contracts[t[1]]
  <2>1. /\ t[1] \in DOMAIN contracts /\ now - entry.at <= TTL
        /\ t[2] \notin DOMAIN entry.value
    BY <1>1, <1>8 DEF InContract, Hit, Live
  <2>2. entry.at \in 0 .. now
    BY <2>1 DEF TypeOK
  <2>3. Age(t[1]) \in Nat
    BY <1>2, AgeIsNat
  <2>4. RightContract(t[1], entry)
    BY <2>1 DEF RightContracts
  <2> HIDE DEF entry
  <2>5. /\ entry.at - MaxRun - Age(t[1]) \in Int
        /\ entry.at - MaxRun - Age(t[1]) >= now - 2 * TTL - MaxRun - Age(t[1])
    BY <1>3, <2>1, <2>2, <2>3
  <2>6. Settled(entry.at - MaxRun - Age(t[1]))
    BY <1>1, <1>5, <2>5, SettledReference
  <2>7. t[2] \notin DOMAIN files[t[1]].props
    BY <2>1, <2>4, <2>6 DEF RightContract, Resolves
  <2> QED BY <1>3, <1>6, <1>7, <2>7, NotSound
<1>9. CASE ~InContract(t) /\ ~Readable(t)
  BY <1>3, <1>6, <1>7, <1>9, NotSound
<1>10. CASE ~InContract(t) /\ t[1] \in Visited
  <2>1. PICK i \in 1 .. k : stack[i].file = t[1]
    BY <1>2, <1>10 DEF Visited
  <2>2. t[1] \in Reachable({run.root})
    BY <1>2, <1>4, <1>r, <2>1, FramesAreReachable
  <2>3. t[1] \in Needs(t[1])
    <3>1. CASE i = k
      BY <1>2, <1>7, <2>1, <3>1, NeedsOfNeeds
    <3>2. CASE i # k
      <4>1. i < k /\ k \in 1 .. k
        BY <1>2, <2>1, <3>2
      <4>2. Top.file \in Needs(t[1])
        BY <1>2, <1>4, <1>r, <2>1, <4>1 DEF NeededFrames
      <4> QED BY <1>2, <1>7, <4>2, NeedsOfNeeds
    <3> QED BY <3>1, <3>2
  <2> QED BY <1>3, <1>6, <1>7, <2>2, <2>3, NotSound
<1> QED
  BY <1>1, <1>8, <1>9, <1>10

\* So is one that fails at a property that the file that was resolved for it does
\* not have (resolve.py:488-530).
LEMMA MissingIsJustified ==
  ASSUME TypeOK, Calls(stack), InTime, Right(stack, run.began), ReturnMissing,
         Settled(run.began - Age(run.root))
  PROVE  ~Sound(run.root)
<1> DEFINE k == Len(stack)
<1>1. /\ outcome = "running" /\ k > 1 /\ Top.for[2] \notin DOMAIN Top.values
      /\ k \in Nat /\ DOMAIN stack = 1 .. k /\ Top = stack[k]
      /\ \A i \in 1 .. k : IsFrame(stack[i])
  BY TopFrame DEF ReturnMissing, Loaded, Top, TypeOK
<1> HIDE DEF k
<1>2. k - 1 \in 1 .. k /\ k \in 1 .. k /\ k > 1
  BY <1>1
<1> DEFINE caller == stack[k - 1]
<1>3. /\ run.began \in Nat /\ run.root \in Files
      /\ CurrentFrames(stack, run.began) /\ NeededFrames(stack, run.began)
  BY <1>1, TopFrame DEF Right
<1>4. Settled(run.began)
  <2>1. Age(run.root) \in Nat
    BY <1>3, AgeIsNat
  <2>2. run.began - Age(run.root) \in Int /\ run.began - Age(run.root) <= run.began
    BY <1>3, <2>1
  <2> QED BY <1>3, <2>2, SettledLater
<1>5. IsFrame(caller) /\ Current(caller) /\ Current(Top)
  BY <1>1, <1>2, <1>3, <1>4 DEF CurrentFrames
<1>6. /\ Top.for[1] = Top.file /\ Top.into \in DOMAIN caller.props
      /\ Top.for \in caller.props[Top.into].refs
  BY <1>1, <1>2 DEF Calls
<1>7. Top.for \in References(caller.file)
  BY <1>5, <1>6, CurrentReferences
<1>8. caller.file \in Reachable({run.root})
  BY <1>1, <1>2, <1>3, <1>4, FramesAreReachable
<1>9. Top.for[2] \notin DOMAIN files[Top.for[1]].props
  <2>1. DOMAIN Top.values = DOMAIN Top.props
    BY <1>1, <1>2 DEF IsFrame
  <2> QED BY <1>1, <1>5, <1>6, <2>1 DEF Current
<1> QED
  BY <1>3, <1>7, <1>8, <1>9, NotSound

\* Right after an edit nothing is long enough ago, so nothing is claimed.
LEMMA EditIsRecent ==
  ASSUME TypeOK, TypeOK', Faithful, NEW f \in Files, Edit(f)
  PROVE  Faithful'
<1>1. edits \in Nat /\ now \in Nat /\ MaxRun \in Nat /\ TTL \in Nat
  BY CacheAssumption DEF TypeOK
<1>2. /\ edits' = edits + 1 /\ run'.edited = now /\ run'.began = run.began
      /\ run'.root = run.root /\ run.began \in 0 .. now /\ run.root \in Files
      /\ stack' = stack /\ contracts' = contracts /\ defs' = defs /\ outcome' = outcome
  BY DEF Edit, TypeOK, caches
<1>3. edits' # 0
  BY <1>1, <1>2
<1>4. \A g \in Files : Height[g] * Span \in Nat
  BY AgeIsNat DEF Age
<1>5. Lineage'
  <2>1. ~(Settled(run.began)')
    BY <1>1, <1>2, <1>3 DEF Settled
  <2>2. (Descending(stack))'
    BY <1>2, FaithfulParts DEF Right, Descending, Layered
  <2> QED BY <2>1, <2>2 DEF Lineage, Descending
<1>6. FramesFollow'
  <2>1. ASSUME NEW i \in DOMAIN stack
        PROVE  ~(Settled(run.began - Height[stack[i].file] * Span)')
    <3>1. stack[i].file \in Files
      BY DEF TypeOK, IsFrame
    <3>2. Height[stack[i].file] * Span \in Nat
      BY <1>4, <3>1
    <3>3. Span' = Span
      BY DEF Span
    <3>4. ~(run.began - Height[stack[i].file] * Span > now)
      BY <1>1, <1>2, <3>2
    <3> QED BY <1>2, <1>3, <3>3, <3>4 DEF Settled
  <2> QED BY <1>2, <2>1 DEF FramesFollow
<1>7. CachesFollow'
  <2>1. ASSUME NEW g \in DOMAIN contracts
        PROVE  ~(Settled(contracts[g].at - MaxRun - Height[g] * Span)')
    <3>1. g \in Files /\ contracts[g].at \in 0 .. now
      BY DEF TypeOK
    <3>2. Height[g] * Span \in Nat
      BY <1>4, <3>1
    <3>3. Span' = Span
      BY DEF Span
    <3>4. ~(contracts[g].at - MaxRun - Height[g] * Span > now)
      BY <1>1, <3>1, <3>2
    <3> QED BY <1>2, <1>3, <3>3, <3>4 DEF Settled
  <2>2. ASSUME NEW t \in DOMAIN defs
        PROVE  ~(Settled(defs[t].at - TTL - MaxRun - Height[t[1]] * Span)')
    <3>1. t[1] \in Files /\ defs[t].at \in 0 .. now
      BY DEF TypeOK, Target
    <3>2. Height[t[1]] * Span \in Nat
      BY <1>4, <3>1
    <3>3. Span' = Span
      BY DEF Span
    <3>4. ~(defs[t].at - TTL - MaxRun - Height[t[1]] * Span > now)
      BY <1>1, <3>1, <3>2
    <3> QED BY <1>2, <1>3, <3>3, <3>4 DEF Settled
  <2> QED BY <1>2, <2>1, <2>2 DEF CachesFollow
<1>8. ResultFollows'
  <2>1. Height[run.root] * Span \in Nat /\ Span' = Span
    BY <1>2, <1>4 DEF Span
  <2>2. ~(run.began - Height[run.root] * Span > now)
    BY <1>1, <1>2, <2>1
  <2>3. ~(Settled(run.began - Height[run.root] * Span)')
    BY <1>2, <1>3, <2>1, <2>2 DEF Settled
  <2> QED BY <2>3 DEF ResultFollows
<1> QED
  BY <1>5, <1>6, <1>7, <1>8 DEF Faithful

-----------------------------------------------------------------------------
(* Every step.                                                             *)

\* The frame that runs goes on with what its reference means.
LEMMA TopGoesOn ==
  ASSUME TypeOK, Calls(stack), Right(stack, run.began),
         NEW n \in Frags, NEW t \in Target, Looking(n, t), NEW v \in Value,
         stack' = WithTop(stack, Inlined(Top, n, v)),
         Settled(run.began - Age(Top.file)) => Follows(t) /\ Means(t[1], t[2], v)
  PROVE  Right(stack', run.began)
<1> DEFINE k == Len(stack)
<1>1. /\ outcome = "running" /\ IsFrame(Top) /\ Top = stack[k]
      /\ k \in Nat \ {0} /\ DOMAIN stack = 1 .. k
      /\ n \in DOMAIN Top.props /\ t \in Top.props[n].refs
  BY LookingAt
<1>2. IsSeq(stack) /\ (\A i \in DOMAIN stack : IsFrame(stack[i])) /\ run.began \in Int
  BY DEF TypeOK
<1>3. /\ DOMAIN stack' = 1 .. k
      /\ \A i \in 1 .. k : i < k => stack'[i] = stack[i]
      /\ stack'[k] = Inlined(stack[k], n, v)
  BY <1>1, <1>2, TopReplaced
<1> HIDE DEF k
<1>4. k \in 1 .. k
  BY <1>1
<1> QED
  BY <1>1, <1>2, <1>3, <1>4, ResumedIsRight

\* A frame that is done hands on what the file says.
LEMMA CallerGoesOn ==
  ASSUME TypeOK, Aging, Right(stack, run.began), RightContracts(contracts),
         RightDefs(defs), Return
  PROVE  Right(stack', run.began) /\ RightContracts(contracts') /\ RightDefs(defs')
<1> DEFINE k == Len(stack)  value == Top.values[Top.for[2]]  t == Top.for
           caller == stack[k - 1]
<1>1. /\ Loaded /\ Top.for[2] \in DOMAIN Top.values
      /\ defs' = Put(defs, t, value)
      /\ stack' = WithTop(Below, Inlined(Below[Len(Below)], Top.into, value))
      /\ Top.todo = {}
      /\ contracts' = IF Top.file \in Bare THEN contracts
                      ELSE Put(contracts, Top.file, Top.values)
  BY DEF Return, Loaded
<1>2. /\ k \in Nat /\ k > 1 /\ DOMAIN stack = 1 .. k /\ IsFrame(Top) /\ outcome = "running"
      /\ StackTyped(Below) /\ Len(Below) = k - 1
      /\ \A i \in 1 .. k - 1 : Below[i] = stack[i]
  BY <1>1, Returned
<1>3. Top = stack[k] /\ \A i \in DOMAIN stack : IsFrame(stack[i])
  BY DEF Top, TypeOK
<1> HIDE DEF k
<1>4. /\ now \in Nat /\ run.began \in 0 .. now /\ now - run.began <= MaxRun
      /\ MaxRun \in Nat /\ TTL \in Nat /\ run.began \in Int
  BY <1>2, CacheAssumption DEF TypeOK, Aging, Chain
<1>5. /\ k - 1 \in 1 .. k /\ k \in 1 .. k /\ k > 1 /\ k - 1 <= k /\ k - 1 \in 1 .. k - 1
      /\ IsFrame(caller)
  BY <1>2, <1>3
<1>6. /\ t[1] = Top.file /\ Top.into \in DOMAIN caller.props
      /\ t \in caller.props[Top.into].refs
  BY <1>2, <1>3, <1>5 DEF Aging, Chain
<1>7. Top.file \in Files /\ t \in Target /\ Age(Top.file) \in Nat /\ t = <<t[1], t[2]>>
  BY <1>2, AgeIsNat DEF IsFrame, Target
<1>8. value \in Value
  BY <1>1, <1>2 DEF IsFrame, IsNamed
<1>r. /\ RightFrame(Top, run.began) /\ CurrentFrames(stack, run.began)
      /\ Descending(stack) /\ RightFrames(stack, run.began)
  BY <1>2, <1>3, <1>5 DEF Right, RightFrames
<1>9. ASSUME Settled(run.began - Age(Top.file))
      PROVE  /\ Sound(Top.file) /\ Resolves(Top.file, Top.values)
             /\ Follows(t) /\ Means(t[1], t[2], value)
  <2>1. Settled(run.began)
    <3>1. run.began - Age(Top.file) \in Int /\ run.began - Age(Top.file) <= run.began
      BY <1>4, <1>7
    <3> QED BY <1>4, <1>9, <3>1, SettledLater
  <2>2. Current(Top) /\ Readable(t)
    BY <1>2, <1>3, <1>5, <1>r, <2>1 DEF CurrentFrames
  <2>3. Sound(Top.file) /\ Resolves(Top.file, Top.values)
    BY <1>1, <1>2, <1>4, <1>9, <1>r, <2>2, DoneIsResolved
  <2>4. t \in Existing /\ Means(t[1], t[2], value)
    BY <1>1, <1>6, <1>7, <2>3 DEF Existing, Resolves
  <2> QED BY <1>6, <2>2, <2>3, <2>4 DEF Follows
<1>10. ASSUME NEW x \in Int, x <= run.began - Age(Top.file), Settled(x)
       PROVE  Settled(run.began - Age(Top.file))
  <2>1. run.began - Age(Top.file) \in Int
    BY <1>4, <1>7
  <2> QED BY <1>10, <2>1, SettledLater
<1> HIDE DEF t, value, caller
<1>11. RightContracts(contracts')
  <2>1. RightContract(Top.file, [at |-> now, value |-> Top.values])
    <3>1. /\ now - MaxRun - Age(Top.file) \in Int
          /\ now - MaxRun - Age(Top.file) <= run.began - Age(Top.file)
      BY <1>4, <1>7
    <3> QED BY <1>9, <1>10, <3>1 DEF RightContract
  <2> QED BY <1>1, <2>1, PutIsRight
<1>12. RightDefs(defs')
  <2>1. RightDef(t, [at |-> now, value |-> value])
    <3>1. /\ now - TTL - MaxRun - Age(t[1]) \in Int
          /\ now - TTL - MaxRun - Age(t[1]) <= run.began - Age(Top.file)
      BY <1>4, <1>6, <1>7
    <3> QED BY <1>9, <1>10, <3>1 DEF RightDef
  <2> QED BY <1>1, <2>1, PutIsRight
<1>13. Right(stack', run.began)
  <2>1. ASSUME Settled(run.began - Age(caller.file))
        PROVE  Follows(t) /\ Means(t[1], t[2], value)
    <3>1. Settled(run.began - Age(stack[k].file))
      BY <1>2, <1>3, <1>4, <1>5, <1>r, <2>1, SettledCallees DEF caller
    <3> QED BY <1>3, <1>9, <3>1
  <2>2. /\ DOMAIN stack' = 1 .. k - 1
        /\ \A i \in 1 .. k - 1 : i < k - 1 => stack'[i] = Below[i]
        /\ stack'[k - 1] = Inlined(Below[k - 1], Top.into, value)
    <3> DEFINE fr == Inlined(Below[k - 1], Top.into, value)  e == WithTop(Below, fr)
    <3>1. IsSeq(Below) /\ Len(Below) > 0 /\ Len(Below) = k - 1
      BY <1>2 DEF StackTyped
    <3>2. stack' = e
      BY <1>1, <1>2
    <3> HIDE DEF fr
    <3>3. /\ DOMAIN e = 1 .. Len(Below) /\ e[Len(Below)] = fr
          /\ \A i \in 1 .. Len(Below) : i < Len(Below) => e[i] = Below[i]
      BY <3>1, TopReplaced
    <3> HIDE DEF e
    <3> QED BY <3>1, <3>2, <3>3 DEF fr
  <2>3. /\ \A i \in 1 .. k - 1 : i < k - 1 => stack'[i] = stack[i]
        /\ stack'[k - 1] = Inlined(stack[k - 1], Top.into, value)
    BY <1>2, <1>5, <2>2
  <2> DEFINE j == k - 1
  <2>4. /\ k \in Nat /\ DOMAIN stack = 1 .. k /\ (\A i \in DOMAIN stack : IsFrame(stack[i]))
        /\ j \in 1 .. k /\ run.began \in Int /\ Right(stack, run.began)
        /\ Top.into \in DOMAIN stack[j].props /\ t \in stack[j].props[Top.into].refs
        /\ value \in Value
        /\ Settled(run.began - Age(stack[j].file)) => Follows(t) /\ Means(t[1], t[2], value)
        /\ DOMAIN stack' = 1 .. j /\ (\A i \in 1 .. j : i < j => stack'[i] = stack[i])
        /\ stack'[j] = Inlined(stack[j], Top.into, value)
    BY <1>2, <1>3, <1>4, <1>5, <1>6, <1>8, <2>1, <2>2, <2>3 DEF caller
  <2> HIDE DEF j
  <2> QED BY <2>4, ResumedIsRight
<1> QED
  BY <1>11, <1>12, <1>13

\* An empty call stack claims nothing.
LEMMA EmptyIsRight == ASSUME NEW b PROVE Right(<< >>, b)
  BY DEF Right, CurrentFrames, NeededFrames, Descending, RightFrames

\* A result that was right stays right; a new one has to be.
LEMMA ResultNext ==
  ASSUME files' = files, edits' = edits, run'.edited = run.edited,
         \/ ResultFollows /\ outcome' = outcome /\ run' = run
         \/ outcome' = "running"
         \/ outcome' = "failed"
            /\ (Settled(run'.began - Age(run'.root)) => ~Sound(run'.root))
         \/ outcome' = "resolved"
            /\ (Settled(run'.began - Age(run'.root)) =>
                  Sound(run'.root) /\ Resolves(run'.root, run'.values))
  PROVE  ResultFollows'
<1>1. /\ \A x : Settled(x)' <=> Settled(x)
      /\ \A f : Sound(f)' <=> Sound(f)
      /\ \A f, v : Resolves(f, v)' <=> Resolves(f, v)
  BY SameWorld
<1> SUFFICES ASSUME Ended', Settled(run'.began - Age(run'.root))
             PROVE  Says(run.root)'
  BY <1>1 DEF ResultFollows, Age, Span
<1>2. CASE ResultFollows /\ outcome' = outcome /\ run' = run
  <2>1. Says(run.root)
    BY <1>2 DEF ResultFollows, Ended, Age
  <2> QED BY <1>1, <1>2, <2>1 DEF Says
<1>3. CASE outcome' = "failed"
           /\ (Settled(run'.began - Age(run'.root)) => ~Sound(run'.root))
  BY <1>1, <1>3 DEF Says
<1>4. CASE outcome' = "resolved"
           /\ (Settled(run'.began - Age(run'.root)) =>
                 Sound(run'.root) /\ Resolves(run'.root, run'.values))
  BY <1>1, <1>4 DEF Says
<1> QED
  BY <1>2, <1>3, <1>4 DEF Ended

\* A contract that is to be resolved is read: its file is all there is to know.
LEMMA StartFollows ==
  ASSUME TypeOK, Faithful, NEW f \in Files, Start(f)
  PROVE  Faithful'
<1> DEFINE fr == Read(<<f, Self>>, Self)
<1>0. run = [root |-> run.root, began |-> run.began, ended |-> run.ended,
             edited |-> run.edited, values |-> run.values]
  BY DEF TypeOK
<1>1. /\ run'.root = f /\ run'.began = now /\ run'.edited = run.edited
      /\ files' = files /\ edits' = edits /\ contracts' = contracts /\ defs' = defs
      /\ \/ files[f].ok /\ stack' = <<fr>> /\ outcome' = "running"
         \/ ~files[f].ok /\ stack' = << >> /\ outcome' = "failed"
      /\ f \notin Bare
  BY <1>0 DEF Start, caches, world
<1>2. fr.file = f /\ fr.props = files[f].props
  BY DEF Read
<1>3. RightFrame(fr, now)
  BY CacheAssumption, ReadIsRight DEF Target
<1> HIDE DEF fr
<1>4. files[f].ok => Current(fr)
  BY <1>1, <1>2, CacheAssumption DEF Current
<1>5. files[f].ok => Right(<<fr>>, now)
  BY <1>3, <1>4 DEF Right, CurrentFrames, NeededFrames, Descending, RightFrames
<1>6. Right(stack', now)
  BY <1>1, <1>5, EmptyIsRight
<1>7. ~files[f].ok => ~Sound(f)
  BY DEF Sound
<1>8. ResultFollows'
  BY <1>1, <1>7, ResultNext
<1> QED
  BY <1>1, <1>6, <1>8, FaithfulParts, FaithfulNext

\* Whatever the top frame goes on with, nothing else changes but the definitions.
LEMMA InlineFollows ==
  ASSUME TypeOK, Aging, Faithful,
         NEW n \in Frags, NEW t \in Target, Looking(n, t), NEW v \in Value,
         stack' = WithTop(stack, Inlined(Top, n, v)),
         Settled(run.began - Age(Top.file)) => Follows(t) /\ Means(t[1], t[2], v),
         RightDefs(defs'), contracts' = contracts,
         UNCHANGED <<world, outcome, run>>
  PROVE  Faithful'
<1>1. Calls(stack) /\ outcome = "running"
  BY AgingParts DEF Looking
<1>2. Right(stack, run.began) /\ RightContracts(contracts)
  BY FaithfulParts
<1>3. Right(stack', run.began)
  BY <1>1, <1>2, TopGoesOn
<1>4. ResultFollows'
  BY <1>1, ResultNext DEF world
<1> QED
  BY <1>2, <1>3, <1>4, FaithfulNext DEF world

\* A resolution that fails forgets its calls (resolve.py:305-306).
LEMMA FailureFollows ==
  ASSUME TypeOK, Faithful, stack' = << >>, outcome' = "failed",
         run' = [run EXCEPT !.ended = now], UNCHANGED world,
         RightContracts(contracts'), RightDefs(defs'),
         Settled(run.began - Age(run.root)) => ~Sound(run.root)
  PROVE  Faithful'
<1>1. run'.began = run.began /\ run'.root = run.root /\ run'.edited = run.edited
  BY DEF TypeOK
<1>2. ResultFollows'
  BY <1>1, ResultNext DEF world
<1>3. Right(stack', run'.began)
  BY EmptyIsRight
<1> QED
  BY <1>1, <1>2, <1>3, FaithfulNext DEF world

\* A document at a URL means its own value, or none: its links are not followed
\* (resolve.py:600-606).
LEMMA FetchIsRight ==
  ASSUME TypeOK, NEW n \in Frags, NEW t \in Target, Fetch(n, t)
  PROVE  Follows(t) /\ Means(t[1], t[2], Read(t, n).values[Self])
<1> DEFINE f == t[1]  props == files[f].props
<1>1. /\ f \in Remote /\ Readable(t) /\ f \in Files /\ f \in Bare /\ t[2] = Self
      /\ files[f].ok /\ t = <<f, Self>>
  BY CacheAssumption DEF Fetch, Readable, Target
<1>2. Self \in DOMAIN props
  BY <1>1, CacheAssumption DEF TypeOK
<1>3. t \in Existing
  BY <1>1, <1>2 DEF Existing
<1>4. References(f) = {} /\ Links(f, Self) = {}
  BY <1>1 DEF References, Links
<1>5. Sound(f)
  BY <1>1, <1>4, SoundFromReferences
<1>6. Read(t, n).values[Self] = IF props[Self].own THEN {[src |-> t, at |-> now]} ELSE {}
  BY <1>1, <1>2 DEF Read
<1>7. Means(f, Self, Read(t, n).values[Self])
  <2>1. CASE props[Self].own
    <3>1. {o.src : o \in Read(t, n).values[Self]} = {t}
      BY <1>6, <2>1
    <3>2. Meaning(f, Self) = {t}
      BY <1>1, <1>3, <2>1, MeaningOfOwn
    <3> QED BY <3>1, <3>2 DEF Means
  <2>2. CASE ~props[Self].own
    <3>1. {o.src : o \in Read(t, n).values[Self]} = {}
      BY <1>6, <2>2
    <3>2. Meaning(f, Self) = {}
      BY <1>1, <1>3, <1>4, <2>2, MeaningOfNone
    <3> QED BY <3>1, <3>2 DEF Means
  <2> QED BY <2>1, <2>2
<1> QED
  BY <1>1, <1>3, <1>5, <1>7 DEF Follows

\* A contract is cached when it is resolved, also when the property that was
\* wanted is not in it (resolve.py:448).
LEMMA LoadedIsRight ==
  ASSUME TypeOK, InTime, Right(stack, run.began), RightContracts(contracts), Loaded
  PROVE  RightContracts(contracts')
<1>1. /\ outcome = "running" /\ Top.todo = {}
      /\ contracts' = IF Top.file \in Bare THEN contracts
                      ELSE Put(contracts, Top.file, Top.values)
  BY DEF Loaded
<1>2. /\ IsFrame(Top) /\ Len(stack) \in DOMAIN stack /\ run.began \in 0 .. now /\ now \in Nat
  BY <1>1, TopFrame
<1>3. RightFrame(Top, run.began) /\ (Settled(run.began) => Current(Top))
  BY <1>2 DEF Right, RightFrames, CurrentFrames, Top
<1>4. /\ Age(Top.file) \in Nat /\ MaxRun \in Nat /\ now - run.began <= MaxRun
  BY <1>1, <1>2, AgeIsNat, CacheAssumption DEF IsFrame, InTime
<1>5. RightContract(Top.file, [at |-> now, value |-> Top.values])
  <2> SUFFICES ASSUME Settled(now - MaxRun - Age(Top.file))
               PROVE  Sound(Top.file) /\ Resolves(Top.file, Top.values)
    BY DEF RightContract
  <2>1. /\ now - MaxRun - Age(Top.file) \in Int /\ run.began - Age(Top.file) \in Int
        /\ now - MaxRun - Age(Top.file) <= run.began - Age(Top.file)
    BY <1>2, <1>4
  <2>2. Settled(run.began - Age(Top.file)) /\ run.began \in Int
    BY <1>2, <2>1, SettledLater
  <2> QED BY <1>1, <1>2, <1>3, <2>2, DoneIsResolved
<1> QED
  BY <1>1, <1>5, PutIsRight

\* A resolution that ends well returns what its own frame holds (resolve.py:841-850).
LEMMA FinishFollows ==
  ASSUME TypeOK, Aging, Faithful, Finish
  PROVE  Faithful'
<1>1. /\ outcome = "running" /\ Len(stack) = 1 /\ Top.todo = {}
      /\ stack' = << >> /\ outcome' = "resolved"
      /\ run' = [run EXCEPT !.ended = now, !.values = Top.values]
      /\ UNCHANGED <<world, caches>>
  BY DEF Finish
<1>2. /\ IsFrame(Top) /\ 1 \in DOMAIN stack /\ Top = stack[1] /\ Top.file = run.root
      /\ run.began \in Int
  BY <1>1, TopFrame, AgingParts DEF InTime, Top
<1>3. /\ Right(stack, run.began) /\ RightContracts(contracts) /\ RightDefs(defs)
  BY FaithfulParts
<1>4. RightFrame(Top, run.began) /\ (Settled(run.began) => Current(Top))
  BY <1>2, <1>3 DEF Right, RightFrames, CurrentFrames
<1>5. Settled(run.began - Age(run.root)) => Sound(run.root) /\ Resolves(run.root, Top.values)
  BY <1>1, <1>2, <1>4, DoneIsResolved
<1>6. /\ run'.began = run.began /\ run'.root = run.root /\ run'.edited = run.edited
      /\ run'.values = Top.values
  <2> DEFINE vals == Top.values
  <2>1. run' = [run EXCEPT !.ended = now, !.values = vals]
    BY <1>1
  <2>2. run = [root |-> run.root, began |-> run.began, ended |-> run.ended,
               edited |-> run.edited, values |-> run.values]
    BY DEF TypeOK
  <2> HIDE DEF vals
  <2>3. run' = [root |-> run.root, began |-> run.began, ended |-> now,
                edited |-> run.edited, values |-> vals]
    BY <2>1, <2>2
  <2> QED BY <2>3 DEF vals
<1>7. ResultFollows'
  BY <1>1, <1>5, <1>6, ResultNext DEF world
<1>8. Right(stack', run'.began)
  BY <1>1, EmptyIsRight
<1> QED
  BY <1>1, <1>3, <1>6, <1>7, <1>8, FaithfulNext DEF world, caches

\* Every step keeps the calls and the caches right.
LEMMA FaithfulStep == TypeOK /\ TypeOK' /\ Aging /\ Faithful /\ [Next]_vars => Faithful'
<1> SUFFICES ASSUME TypeOK, TypeOK', Aging, Faithful, [Next]_vars PROVE Faithful'
  OBVIOUS
<1>p. /\ Calls(stack) /\ InTime /\ Right(stack, run.began)
      /\ RightContracts(contracts) /\ RightDefs(defs) /\ ResultFollows
  BY AgingParts, FaithfulParts
<1>n. now \in Nat /\ TTL \in Nat /\ MaxRun \in Nat
  BY CacheAssumption DEF TypeOK
<1>1. ASSUME NEW f \in Files, Edit(f) PROVE Faithful'
  BY <1>1, EditIsRecent
<1>u. ASSUME UNCHANGED <<world, caches, stack, outcome, run>> PROVE Faithful'
  <2>1. ResultFollows'
    BY <1>u, <1>p, ResultNext DEF world
  <2> QED BY <1>u, <1>p, <2>1, FaithfulNext DEF world, caches
<1>2. CASE Tick
  BY <1>2, <1>u DEF Tick
<1>3. ASSUME NEW f \in Files, Start(f) PROVE Faithful'
  BY <1>3, StartFollows
<1>4. ASSUME NEW n \in Frags, NEW t \in Target, FromDefinitions(n, t) PROVE Faithful'
  <2>1. /\ Looking(n, t) /\ t \in DOMAIN defs /\ now - defs[t].at <= TTL
        /\ defs[t].value \in Value /\ defs[t].at \in Nat
    BY <1>4, <1>n DEF FromDefinitions, Hit, Live, TypeOK
  <2>2. Age(t[1]) \in Nat
    BY AgeIsNat DEF Target
  <2>3. ASSUME Settled(run.began - Age(Top.file))
        PROVE  Follows(t) /\ Means(t[1], t[2], defs[t].value)
    <3>1. /\ defs[t].at - TTL - MaxRun - Age(t[1]) \in Int
          /\ defs[t].at - TTL - MaxRun - Age(t[1]) >= now - 2 * TTL - MaxRun - Age(t[1])
      BY <1>n, <2>1, <2>2
    <3>2. Settled(defs[t].at - TTL - MaxRun - Age(t[1]))
      BY <1>p, <2>1, <2>3, <3>1, SettledReference
    <3> QED BY <1>p, <2>1, <3>2 DEF RightDefs, RightDef
  <2>4. stack' = WithTop(stack, Inlined(Top, n, defs[t].value)) /\ contracts' = contracts
        /\ defs' = defs /\ UNCHANGED <<world, outcome, run>>
    BY <1>4 DEF FromDefinitions, caches
  <2> QED BY <1>p, <2>1, <2>3, <2>4, InlineFollows
<1>5. ASSUME NEW n \in Frags, NEW t \in Target, FromContract(n, t) PROVE Faithful'
  <2> DEFINE entry == contracts[t[1]]  v == entry.value[t[2]]
  <2>1. /\ Looking(n, t) /\ t[1] \in DOMAIN contracts /\ now - entry.at <= TTL
        /\ t[2] \in DOMAIN entry.value /\ t[2] # Self
        /\ stack' = WithTop(stack, Inlined(Top, n, v)) /\ contracts' = contracts
        /\ defs' = Put(defs, t, v) /\ UNCHANGED <<world, outcome, run>>
    BY <1>5 DEF FromContract, Missing, InContract, Hit, Live
  <2>2. entry.at \in 0 .. now /\ v \in Value /\ t[1] \in Files \ Bare
    BY <2>1 DEF TypeOK, IsNamed
  <2>3. Age(t[1]) \in Nat
    BY <2>2, AgeIsNat
  <2>4. RightContract(t[1], entry)
    BY <1>p, <2>1 DEF RightContracts
  <2>5. t = <<t[1], t[2]>>
    BY DEF Target
  <2> HIDE DEF entry
  <2>6. ASSUME Settled(entry.at - MaxRun - Age(t[1]))
        PROVE  Follows(t) /\ Means(t[1], t[2], v)
    <3>1. Sound(t[1]) /\ Resolves(t[1], entry.value)
      BY <2>4, <2>6 DEF RightContract
    <3>2. Readable(t)
      BY <2>1, <2>2, <3>1 DEF Readable, Sound
    <3>3. t \in Existing /\ Means(t[1], t[2], v)
      BY <2>1, <3>1 DEF Existing, Resolves
    <3> QED BY <3>1, <3>2, <3>3 DEF Follows
  <2> HIDE DEF v
  <2>7. ASSUME Settled(run.began - Age(Top.file))
        PROVE  Follows(t) /\ Means(t[1], t[2], v)
    <3>1. /\ entry.at - MaxRun - Age(t[1]) \in Int
          /\ entry.at - MaxRun - Age(t[1]) >= now - 2 * TTL - MaxRun - Age(t[1])
      BY <1>n, <2>1, <2>2, <2>3
    <3>2. Settled(entry.at - MaxRun - Age(t[1]))
      BY <1>p, <2>1, <2>7, <3>1, SettledReference
    <3> QED BY <2>6, <3>2
  <2>8. RightDef(t, [at |-> now, value |-> v])
    <3>1. ASSUME Settled(now - TTL - MaxRun - Age(t[1]))
          PROVE  Settled(entry.at - MaxRun - Age(t[1]))
      <4>1. /\ now - TTL - MaxRun - Age(t[1]) \in Int
            /\ entry.at - MaxRun - Age(t[1]) \in Int
            /\ now - TTL - MaxRun - Age(t[1]) <= entry.at - MaxRun - Age(t[1])
        BY <1>n, <2>1, <2>2, <2>3
      <4> QED BY <3>1, <4>1, SettledLater
    <3> QED BY <2>6, <3>1 DEF RightDef
  <2>9. RightDefs(defs')
    BY <1>p, <2>1, <2>8, PutIsRight
  <2> QED BY <2>1, <2>2, <2>7, <2>9, InlineFollows
<1>6. ASSUME NEW n \in Frags, NEW t \in Target, Fetch(n, t) PROVE Faithful'
  <2> DEFINE v == Read(t, n).values[Self]
  <2>1. /\ Looking(n, t) /\ t[1] \in Remote /\ Readable(t)
        /\ stack' = WithTop(stack, Inlined(Top, n, v)) /\ contracts' = contracts
        /\ defs' = Put(defs, t, v) /\ UNCHANGED <<world, outcome, run>>
    BY <1>6 DEF Fetch, Missing
  <2>2. v \in Value
    BY <1>6, FetchedValue
  <2>3. Follows(t) /\ Means(t[1], t[2], v)
    BY <1>6, FetchIsRight
  <2> HIDE DEF v
  <2>4. RightDef(t, [at |-> now, value |-> v])
    BY <2>3 DEF RightDef
  <2>5. RightDefs(defs')
    BY <1>p, <2>1, <2>4, PutIsRight
  <2> QED BY <2>1, <2>2, <2>3, <2>5, InlineFollows
<1>7. ASSUME NEW n \in Frags, NEW t \in Target, Load(n, t) PROVE Faithful'
  <2>1. /\ LoadUnvisited(n, t) /\ outcome = "running" /\ UNCHANGED <<world, outcome, run>>
        /\ defs' = Got(defs, t) /\ contracts' \in {contracts, Got(contracts, t[1])}
    BY <1>7 DEF Load, LoadUnvisited, Missing, Looking
  <2>2. Right(stack', run.began)
    BY <1>p, <2>1, LoadIsRight
  <2>3. RightContracts(contracts') /\ RightDefs(defs')
    BY <1>p, <2>1, GotIsRight
  <2>4. ResultFollows'
    BY <2>1, ResultNext DEF world
  <2> QED BY <2>1, <2>2, <2>3, <2>4, FaithfulNext DEF world
<1>8. ASSUME NEW n \in Frags, NEW t \in Target, Fail(n, t) PROVE Faithful'
  <2>1. /\ stack' = << >> /\ outcome' = "failed" /\ run' = [run EXCEPT !.ended = now]
        /\ UNCHANGED world
        /\ defs' = Got(defs, t) /\ contracts' \in {contracts, Got(contracts, t[1])}
    BY <1>8 DEF Fail
  <2>2. RightContracts(contracts') /\ RightDefs(defs')
    BY <1>p, <2>1, GotIsRight
  <2>3. Settled(run.began - Age(run.root)) => ~Sound(run.root)
    BY <1>8, <1>p, FailIsJustified
  <2> QED BY <2>1, <2>2, <2>3, FailureFollows
<1>9. CASE Return
  <2>1. /\ Right(stack', run.began) /\ RightContracts(contracts') /\ RightDefs(defs')
    BY <1>9, <1>p, CallerGoesOn
  <2>2. outcome' = "running" /\ UNCHANGED <<world, run>>
    BY <1>9 DEF Return, Loaded
  <2>3. ResultFollows'
    BY <2>2, ResultNext DEF world
  <2> QED BY <2>1, <2>2, <2>3, FaithfulNext DEF world
<1>10. CASE ReturnMissing
  <2>1. RightContracts(contracts')
    BY <1>10, <1>p, LoadedIsRight DEF ReturnMissing
  <2>2. Settled(run.began - Age(run.root)) => ~Sound(run.root)
    BY <1>10, <1>p, MissingIsJustified
  <2> QED BY <1>10, <1>p, <2>1, <2>2, FailureFollows DEF ReturnMissing
<1>11. CASE Finish
  BY <1>11, FinishFollows
<1>12. CASE UNCHANGED vars
  BY <1>12, <1>u DEF vars, world, caches
<1> QED
  BY <1>1, <1>2, <1>3, <1>4, <1>5, <1>6, <1>7, <1>8, <1>9, <1>10, <1>11, <1>12
  DEF Next, Resolve, Follow

\* The process starts with empty caches and no calls.
LEMMA FaithfulInit == Init => Faithful
  BY EmptyIsRight, FaithfulParts
  DEF Init, RightContracts, RightDefs, ResultFollows, Ended

\* What the calls and the caches of a process hold is what the files say, once
\* the last edit is longer ago than an entry can have aged (lint/resolve.py).
THEOREM CallsAndCachesFollow == Spec => []Following
  BY TypeCorrect, AgingIsInductive, FaithfulInit, FaithfulStep, PTL DEF Spec, Following

\* While nobody edits a file the caches are invisible: a resolution fails exactly
\* if the files are not sound, and else inlines what they say, whatever was
\* resolved before and however it ended (resolve.py:258-271, 434-448).
THEOREM CachesChangeNothing == Spec => []CachesAreTransparent
<1>1. Following => CachesAreTransparent
  BY DEF Following, Faithful, ResultFollows, CachesAreTransparent, Settled
<1> QED
  BY <1>1, CallsAndCachesFollow, PTL

\* After the last edit a process follows the files again as soon as nothing that
\* was read before it can be in a cache (resolve.py:255, 267-271).
THEOREM CachesComeRound == Spec => []CachesConverge
<1>1. TypeOK /\ Following => CachesConverge
  <2> SUFFICES ASSUME TypeOK, Following, Layered, Ended,
                      run.began - run.edited > Height[run.root] * Span
               PROVE  Says(run.root)
    BY DEF CachesConverge
  <2>1. run.began \in Int /\ run.edited \in Int /\ run.root \in Files
    BY DEF TypeOK
  <2>2. Height[run.root] * Span \in Nat
    BY <2>1, AgeIsNat DEF Age
  <2>3. run.began - Height[run.root] * Span > run.edited
    BY <2>1, <2>2
  <2> QED BY <2>3 DEF Following, Faithful, ResultFollows, Settled
<1> QED
  BY <1>1, TypeCorrect, CallsAndCachesFollow, PTL

=============================================================================
