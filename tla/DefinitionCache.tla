--------------------------- MODULE DefinitionCache ---------------------------
(***************************************************************************)
(* Inlining definitions into a contract (lint/resolve.py): a property that *)
(* links to a definition takes over what it leaves unset, after the        *)
(* definition's own links were followed.  Definitions are properties of    *)
(* other contract files, files that are a definition on their own, or      *)
(* documents at a URL.  Whatever was resolved is kept for a minute in      *)
(* caches of the process: whole contracts by file, definitions by target.  *)
(*                                                                         *)
(* The files may be edited between any two steps.  Contracts are resolved  *)
(* one after the other.  The call stack of the recursion is explicit, and  *)
(* a value carries its origin: the property whose own value it is, and     *)
(* when that was read.                                                     *)
(***************************************************************************)
EXTENDS Integers, Sequences, FiniteSets

CONSTANTS
  Files,      \* contracts, definition files, and documents at a URL
  Bare,       \* those that are a definition on their own, without fragments
  Remote,     \* the bare ones that are fetched from a URL
  Frags,      \* the fragments that name a property, and Self
  Self,       \* stands for the missing fragment of a reference to a bare file
  Contents,   \* what each file may contain
  Height,     \* the length of the longest chain of references from each file,
              \* where what the files may contain allows no cycle
  TTL,        \* how long an entry lives
  MaxRun,     \* bound: how long the resolution of one contract takes
  MaxTime,    \* bound: when the clock stops
  MaxEdits    \* bound: how often files are edited

Target == Files \X Frags

\* A property: whether it sets the merged field itself, and the reference it
\* follows, if any.  A file that is missing or invalid is not ok.
Property == [own : BOOLEAN, refs : SUBSET Target]

IsNamed(fn, S) == DOMAIN fn \subseteq Frags /\ fn \in [DOMAIN fn -> S]

IsContent(c) ==
  c \in [ok : BOOLEAN, props : {c.props}] /\ IsNamed(c.props, Property)

ASSUME CacheAssumption ==
  /\ Files # {} /\ IsFiniteSet(Files)
  /\ IsFiniteSet(Frags)
  /\ Bare \subseteq Files
  /\ Remote \subseteq Bare
  /\ Self \in Frags
  /\ DOMAIN Contents = Files
  /\ \A f \in Files : Contents[f] # {} /\ \A c \in Contents[f] : IsContent(c)
  /\ \A f \in Files : \A c \in Contents[f] : \A p \in DOMAIN c.props :
       \A s, t \in c.props[p].refs : s = t
  /\ \A f \in Bare : \A c \in Contents[f] : Self \in DOMAIN c.props
  /\ Height \in [Files -> Nat]
  /\ TTL \in Nat
  /\ MaxRun \in Nat
  /\ MaxTime \in Nat
  /\ MaxEdits \in Nat

VARIABLES
  files,      \* what each file contains
  edits,      \* how many edits there were
  now,        \* time.monotonic
  contracts,  \* _local_contract_cache: the resolved properties of a contract
  defs,       \* _local_definition_cache and _definition_cache: their keys are
              \* disjoint, and an entry one of them drops early had expired
  stack,      \* the files being resolved: visited, in the order of the calls
  outcome,    \* how the current resolution came out
  run         \* its contract, when it began and ended, what it resolved

world == <<files, edits>>
caches == <<contracts, defs>>
vars == <<files, edits, now, contracts, defs, stack, outcome, run>>

-----------------------------------------------------------------------------
(* Values and cache entries.  The definitions named Broken... are plausible *)
(* mistakes the properties must catch.                                      *)

\* Where a value comes from; no origin is a field that stays unset.
Origin == [src : Target, at : Nat]
Value == SUBSET Origin

\* An entry expires once it is older than TTL.
BrokenLive(entry) == entry.at + TTL + 1 >= now
Live(entry) == now - entry.at <= TTL

Hit(cache, key) == key \in DOMAIN cache /\ Live(cache[key])

\* _ExpiringCache.get removes the entry it asked for when that is expired,
\* put removes all expired entries first.
Without(cache, keys) == [k \in DOMAIN cache \ keys |-> cache[k]]

Got(cache, key) == IF Hit(cache, key) THEN cache ELSE Without(cache, {key})

BrokenPut(cache, key, value) ==
  [k \in {k \in DOMAIN cache : Live(cache[k])} \cup {key} |->
     IF k = key THEN [at |-> now + TTL, value |-> value] ELSE cache[k]]
Put(cache, key, value) ==
  [k \in {k \in DOMAIN cache : Live(cache[k])} \cup {key} |->
     IF k = key THEN [at |-> now, value |-> value] ELSE cache[k]]

-----------------------------------------------------------------------------
(* Frames: one call of inline_definitions_into_data_contract, or of        *)
(* _load_local_property.                                                   *)

IsFrame(fr) ==
  /\ fr \in [file : Files, for : Target, into : Frags, props : {fr.props},
             values : {fr.values}, todo : SUBSET DOMAIN fr.props]
  /\ IsNamed(fr.props, Property)
  /\ IsNamed(fr.values, Value) /\ DOMAIN fr.values = DOMAIN fr.props

\* Reading file f, to which property `into` of the caller refers as t.
Read(t, into) ==
  LET props == files[t[1]].props IN
  [file |-> t[1], for |-> t, into |-> into, props |-> props,
   values |-> [p \in DOMAIN props |->
                 IF props[p].own THEN {[src |-> <<t[1], p>>, at |-> now]} ELSE {}],
   todo |-> {p \in DOMAIN props : props[p].refs # {}}]

\* Property p takes over the definition where it leaves the field unset.
BrokenInlined(frame, p, value) ==
  [frame EXCEPT !.values[p] = value, !.todo = @ \ {p}]
StuckInlined(frame, p, value) ==
  [frame EXCEPT !.values[p] = IF frame.props[p].own THEN @ ELSE value]
Inlined(frame, p, value) ==
  [frame EXCEPT !.values[p] = IF frame.props[p].own THEN @ ELSE value,
                !.todo = @ \ {p}]

IsSeq(s) == s \in Seq({s[i] : i \in DOMAIN s})
Top == stack[Len(stack)]
Below == SubSeq(stack, 1, Len(stack) - 1)
WithTop(frames, frame) == [frames EXCEPT ![Len(frames)] = frame]

Visited == {stack[i].file : i \in DOMAIN stack}

\* A reference without a fragment needs a bare file, one with a fragment a
\* contract.
Readable(t) == files[t[1]].ok /\ (t[2] = Self <=> t[1] \in Bare)

\* The top frame goes on with property p, which refers to t, and the cache
\* does not hold the definition.
Looking(p, t) ==
  /\ outcome = "running"
  /\ p \in Top.todo
  /\ t \in Top.props[p].refs

Missing(p, t) == Looking(p, t) /\ ~Hit(defs, t)

\* _load_local_contract asks its cache before it looks at visited.
InContract(t) == t[2] # Self /\ Hit(contracts, t[1])

-----------------------------------------------------------------------------
Init ==
  /\ files \in {fs \in [Files -> UNION {Contents[f] : f \in Files}] :
                  \A f \in Files : fs[f] \in Contents[f]}
  /\ edits = 0
  /\ now = 0
  /\ contracts = << >>
  /\ defs = << >>
  /\ stack = << >>
  /\ outcome = "none"
  /\ run = [root |-> CHOOSE f \in Files : TRUE, began |-> 0, ended |-> 0,
            edited |-> 0, values |-> << >>]

\* Somebody edits a file (or the document at a URL), at any moment.
Edit(f) ==
  /\ edits < MaxEdits
  /\ \E c \in Contents[f] \ {files[f]} : files' = [files EXCEPT ![f] = c]
  /\ edits' = edits + 1
  /\ run' = [run EXCEPT !.edited = now]
  /\ UNCHANGED <<now, caches, stack, outcome>>

Tick ==
  /\ now < MaxTime
  /\ outcome = "running" => now - run.began < MaxRun
  /\ now' = now + 1
  /\ UNCHANGED <<world, caches, stack, outcome, run>>

\* A contract is resolved.  It is read and never looked up in a cache; visited
\* starts with its own file.
Start(f) ==
  /\ outcome # "running"
  /\ f \in Files \ Bare
  /\ run' = [run EXCEPT !.root = f, !.began = now, !.ended = now, !.values = << >>]
  /\ IF files[f].ok
     THEN stack' = <<Read(<<f, Self>>, Self)>> /\ outcome' = "running"
     ELSE stack' = << >> /\ outcome' = "failed"
  /\ UNCHANGED <<world, now, caches>>

\* A hit that keeps the entry alive.
RefreshFromDefinitions(p, t) ==
  /\ Looking(p, t)
  /\ Hit(defs, t)
  /\ stack' = WithTop(stack, Inlined(Top, p, defs[t].value))
  /\ defs' = Put(defs, t, defs[t].value)
  /\ UNCHANGED <<world, now, contracts, outcome, run>>

FromDefinitions(p, t) ==
  /\ Looking(p, t)
  /\ Hit(defs, t)
  /\ stack' = WithTop(stack, Inlined(Top, p, defs[t].value))
  /\ UNCHANGED <<world, now, caches, outcome, run>>

FromContract(p, t) ==
  /\ Missing(p, t)
  /\ InContract(t)
  /\ t[2] \in DOMAIN contracts[t[1]].value
  /\ LET value == contracts[t[1]].value[t[2]] IN
     /\ stack' = WithTop(stack, Inlined(Top, p, value))
     /\ defs' = Put(defs, t, value)
  /\ UNCHANGED <<world, now, contracts, outcome, run>>

\* A definition at a URL: its own links are not followed.
Fetch(p, t) ==
  /\ Missing(p, t)
  /\ t[1] \in Remote
  /\ Readable(t)
  /\ LET value == Read(t, p).values[Self] IN
     /\ stack' = WithTop(stack, Inlined(Top, p, value))
     /\ defs' = Put(defs, t, value)
  /\ UNCHANGED <<world, now, contracts, outcome, run>>

LoadUnvisited(p, t) ==
  /\ Missing(p, t)
  /\ t[1] \notin Remote
  /\ ~InContract(t)
  /\ Readable(t)
  /\ stack' = Append(stack, Read(t, p))
  /\ defs' = Got(defs, t)
  /\ contracts' = IF t[2] = Self THEN contracts ELSE Got(contracts, t[1])
  /\ UNCHANGED <<world, now, outcome, run>>

Load(p, t) == t[1] \notin Visited /\ LoadUnvisited(p, t)

\* The file is being resolved already, cannot be read, or has no such property.
Fail(p, t) ==
  /\ Missing(p, t)
  /\ IF InContract(t) THEN t[2] \notin DOMAIN contracts[t[1]].value
                      ELSE t[1] \in Visited \/ ~Readable(t)
  /\ stack' = << >>
  /\ outcome' = "failed"
  /\ defs' = Got(defs, t)
  /\ contracts' = IF t[2] = Self THEN contracts ELSE Got(contracts, t[1])
  /\ run' = [run EXCEPT !.ended = now]
  /\ UNCHANGED <<world, now>>

\* The referenced file is resolved.  A contract is cached before the property
\* is looked up in it, a definition after it was found.
Loaded ==
  /\ outcome = "running"
  /\ Len(stack) > 1
  /\ Top.todo = {}
  /\ contracts' = IF Top.file \in Bare THEN contracts
                  ELSE Put(contracts, Top.file, Top.values)

Return ==
  /\ Loaded
  /\ Top.for[2] \in DOMAIN Top.values
  /\ LET value == Top.values[Top.for[2]]
         caller == Below[Len(Below)] IN
     /\ defs' = Put(defs, Top.for, value)
     /\ stack' = WithTop(Below, Inlined(caller, Top.into, value))
  /\ UNCHANGED <<world, now, outcome, run>>

ReturnMissing ==
  /\ Loaded
  /\ Top.for[2] \notin DOMAIN Top.values
  /\ stack' = << >>
  /\ outcome' = "failed"
  /\ run' = [run EXCEPT !.ended = now]
  /\ UNCHANGED <<world, now, defs>>

Finish ==
  /\ outcome = "running"
  /\ Len(stack) = 1
  /\ Top.todo = {}
  /\ stack' = << >>
  /\ outcome' = "resolved"
  /\ run' = [run EXCEPT !.ended = now, !.values = Top.values]
  /\ UNCHANGED <<world, now, caches>>

Follow(p, t) ==
  FromDefinitions(p, t) \/ FromContract(p, t) \/ Fetch(p, t) \/ Load(p, t) \/ Fail(p, t)

Resolve ==
  \/ \E p \in Frags, t \in Target : Follow(p, t)
  \/ Return
  \/ ReturnMissing
  \/ Finish

Next ==
  \/ \E f \in Files : Edit(f)
  \/ Tick
  \/ \E f \in Files : Start(f)
  \/ Resolve

Spec == Init /\ [][Next]_vars

\* The resolver is sequential code; editors and callers owe nothing.
FairSpec == Spec /\ WF_vars(Resolve)

-----------------------------------------------------------------------------
(* What the files say now, without any cache.                              *)

\* The links of a document at a URL are not followed.
Links(f, p) == IF f \in Remote THEN {} ELSE files[f].props[p].refs

References(f) == UNION {Links(f, p) : p \in DOMAIN files[f].props}

FilesOf(targets) == {t[1] : t \in targets}

\* A set of files that leads to no others.
Closed(S) == \A f \in S : FilesOf(References(f)) \subseteq S

Reachable(fs) ==
  LET around == {S \in SUBSET Files : fs \subseteq S /\ Closed(S)}
  IN  {f \in Files : \A S \in around : f \in S}

\* The files that file f needs.
Needs(f) == Reachable(FilesOf(References(f)))

OnCycle(f) == f \in Needs(f)

Sound(f) ==
  /\ files[f].ok
  /\ \A g \in Reachable({f}) :
       /\ ~OnCycle(g)
       /\ \A t \in References(g) : Readable(t) /\ t[2] \in DOMAIN files[t[1]].props

\* The properties there are, and which of them have a value of their own.
Existing == {t \in Target : t[2] \in DOMAIN files[t[1]].props}
IsOwn(t) == files[t[1]].props[t[2]].own

\* A set of properties is closed when it holds what its properties take over.
ClosedLinks(S) ==
  \A t \in S : IsOwn(t) \/ Links(t[1], t[2]) \cap Existing \subseteq S

\* Property p of file f, what it links to, and so on up to a value.
Followed(f, p) ==
  LET around == {S \in SUBSET Existing : <<f, p>> \in S /\ ClosedLinks(S)}
  IN  {t \in Existing : \A S \in around : t \in S}

\* The property that property p of file f gets its value from.
Meaning(f, p) == {t \in Followed(f, p) : IsOwn(t)}

Means(f, p, value) == {o.src : o \in value} = Meaning(f, p)

Resolves(f, values) ==
  DOMAIN values = DOMAIN files[f].props /\ \A p \in DOMAIN values : Means(f, p, values[p])

Says(f) ==
  IF Sound(f) THEN outcome = "resolved" /\ Resolves(f, run.values)
              ELSE outcome = "failed"

Ended == outcome \in {"resolved", "failed"}

-----------------------------------------------------------------------------
(* Properties.                                                             *)

\* The types of the files, the clock, the caches, the call stack and the
\* result of _resolve_data_contract_from_str.
TypeOK ==
  /\ DOMAIN files = Files /\ \A f \in Files : files[f] \in Contents[f]
  /\ edits \in 0 .. MaxEdits
  /\ now \in 0 .. MaxTime
  /\ DOMAIN contracts \subseteq Files \ Bare
  /\ \A f \in DOMAIN contracts :
       /\ contracts[f] \in [at : 0 .. now, value : {contracts[f].value}]
       /\ IsNamed(contracts[f].value, Value)
  /\ DOMAIN defs \subseteq Target
  /\ \A t \in DOMAIN defs : defs[t] \in [at : 0 .. now, value : Value]
  /\ IsSeq(stack) /\ \A i \in DOMAIN stack : IsFrame(stack[i])
  /\ outcome \in {"none", "running", "resolved", "failed"}
  /\ outcome = "running" <=> stack # << >>
  /\ run \in [root : Files, began : 0 .. now, ended : 0 .. now, edited : 0 .. now,
              values : {run.values}]
  /\ IsNamed(run.values, Value)

\* The recursion never enters a file it is in the middle of: visited is carried
\* along every chain of calls, also past the caches (resolve.py:437), so the
\* depth of the recursion is bounded by the number of files.
NoFileTwice ==
  \A i, j \in DOMAIN stack : stack[i].file = stack[j].file => i = j

\* What every frame keeps: it is the call for the file its caller's property
\* refers to, with a content that file may have; and no run takes longer than
\* MaxRun.
Chain ==
  /\ \A i \in DOMAIN stack :
       /\ stack[i].for[1] = stack[i].file
       /\ \E c \in Contents[stack[i].file] : stack[i].props = c.props
  /\ \A i \in DOMAIN stack : i > 1 =>
       /\ stack[i].into \in DOMAIN stack[i - 1].props
       /\ stack[i].for \in stack[i - 1].props[stack[i].into].refs
  /\ outcome = "running" => stack[1].file = run.root /\ now - run.began <= MaxRun

\* Where the files can form no cycle: an inlined value was read at most twice
\* the expiry, and the time a resolution takes, before the resolution began,
\* for every step of the longest chain.  (Once the expiry would hold only if a
\* definition taken from a cached contract kept the time of that contract.)
Span == 2 * TTL + MaxRun
Layered ==
  \A f \in Files : \A c \in Contents[f] : \A p \in DOMAIN c.props :
    \A t \in c.props[p].refs : Height[t[1]] < Height[f]
NotOlder(values, than) ==
  \A p \in DOMAIN values : \A o \in values[p] : o.at >= than
AgesAreBounded ==
  Layered /\ outcome = "resolved" =>
    NotOlder(run.values, run.began - Height[run.root] * Span)

\* The same of the frames and the caches: what makes the bound inductive.
Fresh ==
  Layered =>
    /\ \A i \in DOMAIN stack :
         NotOlder(stack[i].values, run.began - Height[stack[i].file] * Span)
    /\ \A f \in DOMAIN contracts :
         NotOlder(contracts[f].value, contracts[f].at - MaxRun - Height[f] * Span)
    /\ \A t \in DOMAIN defs : \A o \in defs[t].value :
         o.at >= defs[t].at - TTL - MaxRun - Height[t[1]] * Span
    /\ outcome = "resolved" =>
         NotOlder(run.values, run.began - Height[run.root] * Span)

\* The inductive invariant behind AgesAreBounded: an entry of a cache is stamped
\* at most so much later than what it holds was read (resolve.py:267-271).
Aging == Chain /\ Fresh

\* While nobody edits a file, the caches are invisible: whether a contract is
\* rejected, and what is inlined where, is what the files say, whatever was
\* resolved before, in any order, and however it ended.
CachesAreTransparent == edits = 0 /\ Ended => Says(run.root)

\* After an edit the caches converge: once the last edit is longer ago than any
\* inlined value can be old, a resolution fails or inlines exactly as the files
\* say.  No failure is remembered, and no stale link is followed for ever.
CachesConverge ==
  /\ Layered
  /\ Ended
  /\ run.began - run.edited > Height[run.root] * Span
  => Says(run.root)

\* Nothing has been edited since time x.
Settled(x) == edits = 0 \/ (Layered /\ x > run.edited)

\* A reference that can be followed to its end.
Follows(t) == Readable(t) /\ t \in Existing /\ Sound(t[1])

\* The calls: every file is needed by those that are being resolved below it.
Lineage ==
  /\ Settled(run.began) =>
       /\ \A i \in DOMAIN stack :
            /\ stack[i].file \notin Remote
            /\ files[stack[i].file].ok /\ stack[i].props = files[stack[i].file].props
            /\ i > 1 => Readable(stack[i].for)
       /\ \A i, j \in DOMAIN stack : i < j => stack[j].file \in Needs(stack[i].file)
  /\ Layered => \A i, j \in DOMAIN stack :
       i < j => Height[stack[j].file] < Height[stack[i].file]

\* A frame whose oldest value was read after the last edit is right about the
\* properties it is done with.
FramesFollow ==
  \A i \in DOMAIN stack : LET fr == stack[i] IN
    Settled(run.began - Height[fr.file] * Span) =>
      \A p \in DOMAIN fr.props :
        /\ fr.props[p].own \/ p \notin fr.todo => Means(fr.file, p, fr.values[p])
        /\ p \notin fr.todo => \A t \in fr.props[p].refs : Follows(t)

\* So is an entry of a cache: what it was made of is at most so much older.
CachesFollow ==
  /\ \A f \in DOMAIN contracts :
       Settled(contracts[f].at - MaxRun - Height[f] * Span) =>
         Sound(f) /\ Resolves(f, contracts[f].value)
  /\ \A t \in DOMAIN defs :
       Settled(defs[t].at - TTL - MaxRun - Height[t[1]] * Span) =>
         Follows(t) /\ Means(t[1], t[2], defs[t].value)

ResultFollows ==
  Ended /\ Settled(run.began - Height[run.root] * Span) => Says(run.root)

\* The inductive invariant behind CachesAreTransparent and CachesConverge: what
\* the caches and the calls hold is what the files say, once the last edit is
\* longer ago than an entry can have aged (resolve.py:258-271, 335-340, 437-448).
Faithful == Lineage /\ FramesFollow /\ CachesFollow /\ ResultFollows
Following == Aging /\ Faithful

\* A resolution ends, with the contract or with an error, also when what it
\* follows is a cycle.
RunsEnd == outcome = "running" ~> outcome # "running"

\* What the i-th call has left to do: two steps for each property with an open
\* reference, of which the first is done while that is loaded; all of them and
\* more when there is no such call yet.
Left(i) ==
  IF i > Len(stack) THEN 2 * Cardinality(Frags) + 1
  ELSE 2 * Cardinality(stack[i].todo) - (IF i < Len(stack) THEN 1 ELSE 0)

\* Why it ends: every step of the resolver ends it or gets on with one of the
\* calls, of which there are never more than files, and leaves those below it as
\* they are; so a file that turns up again, or one edited meanwhile, cannot keep
\* it going (resolve.py:437, 447, 462, 484).
CountsDown ==
  [][Resolve =>
       \/ outcome' # "running"
       \/ \E i \in 1 .. Cardinality(Files) :
            Left(i)' < Left(i) /\ \A j \in 1 .. i - 1 : Left(j)' = Left(j)]_vars

\* docs/docs/semantics.md:112 "A cycle between files is reported as an error
\* rather than followed", also when the last edit is longer ago than a chain of
\* all files can age a value.
CycleIsReported ==
  /\ outcome = "resolved"
  /\ run.began - run.edited > Cardinality(Files) * Span
  => \A g \in Reachable({run.root}) : ~OnCycle(g)

=============================================================================
