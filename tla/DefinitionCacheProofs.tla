------------------------ MODULE DefinitionCacheProofs ------------------------
(***************************************************************************)
(* Theorems about DefinitionCache: its types, that the recursion enters no *)
(* file twice and ends, and how old an inlined value can be.               *)
(***************************************************************************)
EXTENDS DefinitionCache, SequenceTheorems, FiniteSetTheorems, TLAPS

-----------------------------------------------------------------------------
(* The call stack as a sequence.                                           *)

\* Whatever the elements of a sequence are taken from, it is a sequence of its
\* own elements: the form in which TypeOK speaks of the stack.
LEMMA SeqOfItsItems ==
  ASSUME NEW S, NEW s \in Seq(S)
  PROVE  IsSeq(s) /\ Len(s) \in Nat /\ DOMAIN s = 1 .. Len(s)
<1>1. Len(s) \in Nat /\ DOMAIN s = 1 .. Len(s)
  BY LenProperties
<1>2. s \in Seq(Range(s))
  BY SeqOfRange
<1>3. IsSeq(s)
  BY <1>2, Zenon DEF IsSeq, Range
<1> QED
  BY <1>1, <1>3

\* A call: the callers stay as they are (resolve.py:340, 484).
LEMMA Pushed ==
  ASSUME NEW s, IsSeq(s), NEW fr
  PROVE  LET e == Append(s, fr) IN
         /\ IsSeq(e) /\ Len(s) \in Nat /\ Len(e) = Len(s) + 1
         /\ DOMAIN s = 1 .. Len(s) /\ DOMAIN e = 1 .. Len(s) + 1
         /\ \A i \in 1 .. Len(s) : e[i] = s[i]
         /\ e[Len(s) + 1] = fr
<1> DEFINE S == {s[i] : i \in DOMAIN s} \cup {fr}
<1>1. s \in Seq({s[i] : i \in DOMAIN s})
  BY DEF IsSeq
<1>2. s \in Seq(S)
  BY <1>1, SeqMonotonic, Zenon
<1>3. fr \in S
  OBVIOUS
<1> HIDE DEF S
<1> DEFINE e == Append(s, fr)
<1>4. /\ e \in Seq(S) /\ Len(e) = Len(s) + 1
      /\ \A i \in 1 .. Len(s) : e[i] = s[i]
      /\ e[Len(s) + 1] = fr
  BY <1>2, <1>3, AppendProperties
<1> HIDE DEF e
<1>5. IsSeq(e) /\ DOMAIN e = 1 .. Len(e)
  BY <1>4, SeqOfItsItems
<1>6. Len(s) \in Nat /\ DOMAIN s = 1 .. Len(s)
  BY <1>2, SeqOfItsItems
<1> QED
  BY <1>4, <1>5, <1>6 DEF e

\* The frame that runs changes, its callers do not (resolve.py:719-739).
LEMMA TopReplaced ==
  ASSUME NEW s, IsSeq(s), Len(s) > 0, NEW fr
  PROVE  LET e == WithTop(s, fr) IN
         /\ IsSeq(e) /\ Len(s) \in Nat /\ Len(e) = Len(s)
         /\ DOMAIN s = 1 .. Len(s) /\ DOMAIN e = 1 .. Len(s)
         /\ \A i \in 1 .. Len(s) : i < Len(s) => e[i] = s[i]
         /\ e[Len(s)] = fr
<1> DEFINE S == {s[i] : i \in DOMAIN s} \cup {fr}
<1>1. s \in Seq({s[i] : i \in DOMAIN s})
  BY DEF IsSeq
<1>2. s \in Seq(S)
  BY <1>1, SeqMonotonic, Zenon
<1>3. fr \in S
  OBVIOUS
<1> HIDE DEF S
<1>4. Len(s) \in Nat /\ DOMAIN s = 1 .. Len(s) /\ s \in [1 .. Len(s) -> S]
  BY <1>2, LenProperties
<1> DEFINE e == WithTop(s, fr)
<1>5. e \in [1 .. Len(s) -> S] /\ e[Len(s)] = fr
      /\ \A i \in 1 .. Len(s) : i < Len(s) => e[i] = s[i]
  BY <1>3, <1>4 DEF WithTop
<1> HIDE DEF e
<1>6. e \in Seq(S) /\ Len(e) = Len(s)
  BY <1>2, <1>3, <1>4, ExceptSeq DEF e, WithTop
<1>7. DOMAIN e = 1 .. Len(e) /\ IsSeq(e)
  BY <1>6, SeqOfItsItems
<1> QED
  BY <1>4, <1>5, <1>6, <1>7 DEF e

\* A return: the callers of a frame (resolve.py:446, 485).
LEMMA Popped ==
  ASSUME NEW s, IsSeq(s), Len(s) > 1
  PROVE  LET e == SubSeq(s, 1, Len(s) - 1) IN
         /\ IsSeq(e) /\ Len(s) \in Nat /\ Len(e) = Len(s) - 1
         /\ DOMAIN s = 1 .. Len(s) /\ DOMAIN e = 1 .. Len(s) - 1
         /\ \A i \in 1 .. Len(s) - 1 : e[i] = s[i]
<1> DEFINE S == {s[i] : i \in DOMAIN s}
<1>1. s \in Seq(S)
  BY DEF IsSeq
<1> HIDE DEF S
<1>2. Len(s) \in Nat /\ DOMAIN s = 1 .. Len(s) /\ s \in [1 .. Len(s) -> S]
  BY <1>1, LenProperties
<1> DEFINE e == SubSeq(s, 1, Len(s) - 1)
<1>3. e \in Seq(S) /\ Len(e) = Len(s) - 1 /\ \A i \in 1 .. Len(s) - 1 : e[i] = s[i]
  BY <1>1, <1>2, SubSeqProperties
<1> HIDE DEF e
<1>4. DOMAIN e = 1 .. Len(e) /\ IsSeq(e)
  BY <1>3, SeqOfItsItems
<1> QED
  BY <1>2, <1>3, <1>4 DEF e

-----------------------------------------------------------------------------
(* Frames and caches.                                                      *)

\* The parts of TypeOK, for caches and stacks that are not those of a state.
ContractsTyped(cs, n) ==
  /\ DOMAIN cs \subseteq Files \ Bare
  /\ \A f \in DOMAIN cs :
       /\ cs[f] \in [at : 0 .. n, value : {cs[f].value}]
       /\ IsNamed(cs[f].value, Value)
DefsTyped(ds, n) ==
  /\ DOMAIN ds \subseteq Target
  /\ \A t \in DOMAIN ds : ds[t] \in [at : 0 .. n, value : Value]
RunTyped(r, n) ==
  /\ r \in [root : Files, began : 0 .. n, ended : 0 .. n, edited : 0 .. n,
            values : {r.values}]
  /\ IsNamed(r.values, Value)
StackTyped(s) == IsSeq(s) /\ \A i \in DOMAIN s : IsFrame(s[i])

\* A file that is read becomes a well-formed frame that has only its own values
\* (resolve.py:441-446, 466-484).
LEMMA ReadFrame ==
  ASSUME TypeOK, NEW t \in Target, NEW into \in Frags
  PROVE  LET fr == Read(t, into) IN
         /\ IsFrame(fr)
         /\ fr.file = t[1] /\ fr.for = t /\ fr.into = into
         /\ \E c \in Contents[t[1]] : fr.props = c.props
         /\ fr.props = files[t[1]].props
         /\ \A p \in DOMAIN fr.values : \A o \in fr.values[p] : o.at = now
<1> DEFINE props == files[t[1]].props
<1>1. t[1] \in Files /\ files[t[1]] \in Contents[t[1]]
  BY DEF TypeOK, Target
<1>2. IsContent(files[t[1]])
  BY <1>1, CacheAssumption
<1>3. IsNamed(props, Property)
  BY <1>2 DEF IsContent
<1>4. now \in Nat
  BY CacheAssumption DEF TypeOK
<1> DEFINE vals == [p \in DOMAIN props |->
                 IF props[p].own THEN {[src |-> <<t[1], p>>, at |-> now]} ELSE {}]
<1>5. IsNamed(vals, Value) /\ DOMAIN vals = DOMAIN props
  BY <1>1, <1>3, <1>4 DEF IsNamed, Value, Origin, Target
<1>6. \A p \in DOMAIN vals : \A o \in vals[p] : o.at = now
  OBVIOUS
<1>7. {p \in DOMAIN props : props[p].refs # {}} \in SUBSET DOMAIN props
  OBVIOUS
<1>8. Read(t, into) = [file |-> t[1], for |-> t, into |-> into, props |-> props,
                       values |-> vals, todo |-> {p \in DOMAIN props : props[p].refs # {}}]
  BY DEF Read
<1>9. \E c \in Contents[t[1]] : props = c.props
  BY <1>1
<1> HIDE DEF props, vals
<1> QED
  BY <1>1, <1>3, <1>5, <1>6, <1>7, <1>8, <1>9 DEF IsFrame, props

\* A property takes over a definition, or keeps its own value (resolve.py:719-739).
LEMMA InlinedFrame ==
  ASSUME NEW fr, IsFrame(fr), NEW p, NEW value \in Value
  PROVE  LET e == Inlined(fr, p, value) IN
         /\ IsFrame(e)
         /\ e.file = fr.file /\ e.for = fr.for /\ e.into = fr.into /\ e.props = fr.props
         /\ \A n \in DOMAIN e.values :
              n \in DOMAIN fr.values /\ (e.values[n] = fr.values[n] \/ e.values[n] = value)
<1> DEFINE vals == [fr.values EXCEPT ![p] = IF fr.props[p].own THEN @ ELSE value]
<1>1. /\ fr = [file |-> fr.file, for |-> fr.for, into |-> fr.into, props |-> fr.props,
               values |-> fr.values, todo |-> fr.todo]
      /\ fr.file \in Files /\ fr.for \in Target /\ fr.into \in Frags
      /\ fr.todo \in SUBSET DOMAIN fr.props
      /\ IsNamed(fr.props, Property) /\ IsNamed(fr.values, Value)
      /\ DOMAIN fr.values = DOMAIN fr.props
  BY DEF IsFrame
<1>2. Inlined(fr, p, value) =
        [file |-> fr.file, for |-> fr.for, into |-> fr.into, props |-> fr.props,
         values |-> vals, todo |-> fr.todo \ {p}]
  <2> DEFINE first == [fr EXCEPT !.values = vals]
  <2>1. Inlined(fr, p, value) = [first EXCEPT !.todo = @ \ {p}]
    BY Zenon DEF Inlined
  <2>2. first = [file |-> fr.file, for |-> fr.for, into |-> fr.into, props |-> fr.props,
                 values |-> vals, todo |-> fr.todo]
    BY <1>1
  <2> QED BY <2>1, <2>2
<1>3. IsNamed(vals, Value) /\ DOMAIN vals = DOMAIN fr.props
  BY <1>1 DEF IsNamed
<1>4. \A n \in DOMAIN vals : vals[n] = fr.values[n] \/ vals[n] = value
  BY <1>1 DEF IsNamed
<1>5. fr.todo \ {p} \in SUBSET DOMAIN fr.props
  BY <1>1
<1> HIDE DEF vals
<1> QED
  BY <1>1, <1>2, <1>3, <1>4, <1>5 DEF IsFrame

\* put adds one entry of now and keeps the others or drops them (resolve.py:267-271).
LEMMA PutEntries ==
  ASSUME NEW cache, NEW key, NEW value
  PROVE  LET e == Put(cache, key, value) IN
         /\ DOMAIN e \subseteq DOMAIN cache \cup {key}
         /\ key \in DOMAIN e /\ e[key] = [at |-> now, value |-> value]
         /\ \A k \in DOMAIN e : k # key => k \in DOMAIN cache /\ e[k] = cache[k]
  BY DEF Put

\* get changes no entry (resolve.py:258-265).
LEMMA GotEntries ==
  ASSUME NEW cache, NEW key
  PROVE  LET e == Got(cache, key) IN
         DOMAIN e \subseteq DOMAIN cache /\ \A k \in DOMAIN e : e[k] = cache[k]
  BY DEF Got, Without

\* Both keep the types of the caches.
LEMMA CachesTyped ==
  ASSUME TypeOK
  PROVE  /\ ContractsTyped(contracts, now) /\ DefsTyped(defs, now)
         /\ \A f : ContractsTyped(Got(contracts, f), now)
         /\ \A t : DefsTyped(Got(defs, t), now)
         /\ \A f \in Files \ Bare : \A v : IsNamed(v, Value)
              => ContractsTyped(Put(contracts, f, v), now)
         /\ \A t \in Target, v \in Value : DefsTyped(Put(defs, t, v), now)
<1>1. ContractsTyped(contracts, now) /\ DefsTyped(defs, now) /\ now \in Nat
  BY CacheAssumption DEF TypeOK, ContractsTyped, DefsTyped
<1>2. ASSUME NEW f PROVE ContractsTyped(Got(contracts, f), now)
  <2> DEFINE e == Got(contracts, f)
  <2>1. DOMAIN e \subseteq DOMAIN contracts /\ \A k \in DOMAIN e : e[k] = contracts[k]
    BY GotEntries
  <2> HIDE DEF e
  <2>2. ContractsTyped(e, now)
    BY <1>1, <2>1 DEF ContractsTyped
  <2> QED BY <2>2 DEF e
<1>3. ASSUME NEW t PROVE DefsTyped(Got(defs, t), now)
  <2> DEFINE e == Got(defs, t)
  <2>1. DOMAIN e \subseteq DOMAIN defs /\ \A k \in DOMAIN e : e[k] = defs[k]
    BY GotEntries
  <2> HIDE DEF e
  <2>2. DefsTyped(e, now)
    BY <1>1, <2>1 DEF DefsTyped
  <2> QED BY <2>2 DEF e
<1>4. ASSUME NEW f \in Files \ Bare, NEW v, IsNamed(v, Value)
      PROVE  ContractsTyped(Put(contracts, f, v), now)
  <2> DEFINE e == Put(contracts, f, v)
  <2>1. /\ DOMAIN e \subseteq DOMAIN contracts \cup {f}
        /\ f \in DOMAIN e /\ e[f] = [at |-> now, value |-> v]
        /\ \A k \in DOMAIN e : k # f => k \in DOMAIN contracts /\ e[k] = contracts[k]
    BY PutEntries
  <2> HIDE DEF e
  <2>2. ContractsTyped(e, now)
    <3>1. DOMAIN e \subseteq Files \ Bare
      BY <1>1, <2>1 DEF ContractsTyped
    <3>2. ASSUME NEW k \in DOMAIN e
          PROVE  e[k] \in [at : 0 .. now, value : {e[k].value}] /\ IsNamed(e[k].value, Value)
      <4>1. CASE k = f
        BY <4>1, <1>1, <1>4, <2>1
      <4>2. CASE k # f
        BY <4>2, <1>1, <2>1 DEF ContractsTyped
      <4> QED BY <4>1, <4>2
    <3> QED BY <3>1, <3>2 DEF ContractsTyped
  <2> QED BY <2>2 DEF e
<1>5. ASSUME NEW t \in Target, NEW v \in Value PROVE DefsTyped(Put(defs, t, v), now)
  <2> DEFINE e == Put(defs, t, v)
  <2>1. /\ DOMAIN e \subseteq DOMAIN defs \cup {t}
        /\ t \in DOMAIN e /\ e[t] = [at |-> now, value |-> v]
        /\ \A k \in DOMAIN e : k # t => k \in DOMAIN defs /\ e[k] = defs[k]
    BY PutEntries
  <2> HIDE DEF e
  <2>2. DefsTyped(e, now)
    BY <1>1, <1>5, <2>1 DEF DefsTyped
  <2> QED BY <2>2 DEF e
<1> QED
  BY <1>1, <1>2, <1>3, <1>4, <1>5

-----------------------------------------------------------------------------
(* Types.                                                                  *)

\* TypeOK is the conjunction of its parts.
LEMMA TypeParts ==
  TypeOK <=>
    /\ DOMAIN files = Files /\ \A f \in Files : files[f] \in Contents[f]
    /\ edits \in 0 .. MaxEdits /\ now \in 0 .. MaxTime
    /\ ContractsTyped(contracts, now) /\ DefsTyped(defs, now)
    /\ StackTyped(stack)
    /\ outcome \in {"none", "running", "resolved", "failed"}
    /\ outcome = "running" <=> stack # << >>
    /\ RunTyped(run, now)
  BY DEF TypeOK, ContractsTyped, DefsTyped, StackTyped, RunTyped

\* While a contract is being resolved there is a frame that runs.
LEMMA TopFrame ==
  ASSUME TypeOK, outcome = "running"
  PROVE  /\ Len(stack) \in Nat \ {0} /\ DOMAIN stack = 1 .. Len(stack)
         /\ IsFrame(Top)
         /\ now \in Nat /\ run.began \in 0 .. now /\ run.root \in Files
<1>1. IsSeq(stack) /\ stack # << >> /\ \A i \in DOMAIN stack : IsFrame(stack[i])
  BY DEF TypeOK
<1>2. Len(stack) \in Nat \ {0} /\ DOMAIN stack = 1 .. Len(stack)
  BY <1>1, EmptySeq, LenProperties DEF IsSeq
<1>3. IsFrame(stack[Len(stack)])
  BY <1>1, <1>2
<1> QED
  BY <1>2, <1>3, CacheAssumption DEF TypeOK, Top

\* A stack stays well-formed when its top frame is replaced by a well-formed one.
LEMMA WithTopTyped ==
  ASSUME NEW s, StackTyped(s), Len(s) > 0, NEW fr, IsFrame(fr)
  PROVE  StackTyped(WithTop(s, fr)) /\ WithTop(s, fr) # << >>
<1> DEFINE e == WithTop(s, fr)
<1>1. /\ IsSeq(s) /\ \A i \in DOMAIN s : IsFrame(s[i])
      /\ IsSeq(e) /\ Len(s) \in Nat /\ Len(e) = Len(s)
      /\ DOMAIN s = 1 .. Len(s) /\ DOMAIN e = 1 .. Len(s)
      /\ \A i \in 1 .. Len(s) : i < Len(s) => e[i] = s[i]
      /\ e[Len(s)] = fr
  BY TopReplaced DEF StackTyped
<1> HIDE DEF e
<1>2. ASSUME NEW i \in DOMAIN e PROVE IsFrame(e[i])
  <2>1. CASE i < Len(s)
    BY <1>1, <2>1
  <2>2. CASE ~(i < Len(s))
    <3>1. i = Len(s)
      BY <1>1, <2>2
    <3> QED BY <3>1, <1>1
  <2> QED BY <2>1, <2>2
<1>3. e # << >>
  BY <1>1, EmptySeq
<1> QED
  BY <1>1, <1>2, <1>3 DEF StackTyped, e

\* The empty stack.
LEMMA EmptyTyped == StackTyped(<< >>)
<1>1. << >> \in Seq({<< >>[i] : i \in DOMAIN << >>})
  BY EmptySeq, Zenon
<1> QED
  BY <1>1 DEF StackTyped, IsSeq

\* The frame that runs takes over a definition; every way to find one ends so.
LEMMA TopInlined ==
  ASSUME TypeOK, outcome = "running", NEW p, NEW value \in Value
  PROVE  LET s == WithTop(stack, Inlined(Top, p, value)) IN
         StackTyped(s) /\ s # << >>
<1>1. StackTyped(stack) /\ Len(stack) > 0 /\ IsFrame(Top)
  BY TopFrame, TypeParts
<1>2. IsFrame(Inlined(Top, p, value))
  BY <1>1, InlinedFrame
<1> QED
  BY <1>1, <1>2, WithTopTyped

\* What a return hands on: the callers of the frame that is resolved, and its
\* value for the property it was read for.
LEMMA Returned ==
  ASSUME TypeOK, Loaded
  PROVE  /\ Len(stack) \in Nat /\ Len(stack) > 1 /\ DOMAIN stack = 1 .. Len(stack)
         /\ IsFrame(Top) /\ outcome = "running"
         /\ StackTyped(Below) /\ Len(Below) = Len(stack) - 1
         /\ DOMAIN Below = 1 .. Len(stack) - 1
         /\ \A i \in 1 .. Len(stack) - 1 : Below[i] = stack[i]
         /\ IsFrame(Below[Len(Below)])
         /\ ContractsTyped(contracts', now)
<1>1. outcome = "running" /\ Len(stack) > 1 /\ StackTyped(stack)
  BY TypeParts DEF Loaded
<1>2. Len(stack) \in Nat /\ DOMAIN stack = 1 .. Len(stack) /\ IsFrame(Top)
  BY <1>1, TopFrame
<1>3. /\ IsSeq(Below) /\ Len(Below) = Len(stack) - 1
      /\ DOMAIN Below = 1 .. Len(stack) - 1
      /\ \A i \in 1 .. Len(stack) - 1 : Below[i] = stack[i]
  BY <1>1, Popped DEF Below, StackTyped
<1>4. \A i \in DOMAIN Below : IsFrame(Below[i])
  BY <1>1, <1>2, <1>3 DEF StackTyped
<1>5. IsFrame(Below[Len(Below)])
  BY <1>1, <1>2, <1>3, <1>4
<1>6. ContractsTyped(contracts', now)
  <2>1. Top.file \in Files /\ IsNamed(Top.values, Value)
    BY <1>2 DEF IsFrame
  <2> QED BY <2>1, CachesTyped DEF Loaded
<1> QED
  BY <1>1, <1>2, <1>3, <1>4, <1>5, <1>6 DEF StackTyped

\* A document at a URL has a value of its own, read now, or none (resolve.py:600-607).
LEMMA FetchedValue ==
  ASSUME TypeOK, NEW n \in Frags, NEW t \in Target, Fetch(n, t)
  PROVE  /\ outcome = "running" /\ Read(t, n).values[Self] \in Value
         /\ \A o \in Read(t, n).values[Self] : o.at = now
<1>1. outcome = "running" /\ t[1] \in Files
  BY DEF Fetch, Missing, Looking, Target
<1>2. Self \in DOMAIN files[t[1]].props
  BY <1>1, CacheAssumption DEF TypeOK, Fetch
<1>3. /\ IsFrame(Read(t, n)) /\ Read(t, n).props = files[t[1]].props
      /\ \A p \in DOMAIN Read(t, n).values : \A o \in Read(t, n).values[p] : o.at = now
  BY ReadFrame
<1> QED
  BY <1>1, <1>2, <1>3 DEF IsFrame, IsNamed

\* Every step keeps the types.
LEMMA TypeStep == TypeOK /\ [Next]_vars => TypeOK'
<1> SUFFICES ASSUME TypeOK, [Next]_vars PROVE TypeOK'
  OBVIOUS
<1>p. /\ DOMAIN files = Files /\ \A f \in Files : files[f] \in Contents[f]
      /\ edits \in 0 .. MaxEdits /\ now \in 0 .. MaxTime
      /\ ContractsTyped(contracts, now) /\ DefsTyped(defs, now)
      /\ StackTyped(stack)
      /\ outcome \in {"none", "running", "resolved", "failed"}
      /\ outcome = "running" <=> stack # << >>
      /\ RunTyped(run, now)
  BY TypeParts
<1>n. now \in Nat /\ MaxTime \in Nat /\ edits \in Nat /\ MaxEdits \in Nat
  BY <1>p, CacheAssumption
<1>s. (/\ DOMAIN files' = Files /\ \A f \in Files : files'[f] \in Contents[f]
       /\ edits' \in 0 .. MaxEdits /\ now' \in 0 .. MaxTime
       /\ ContractsTyped(contracts', now') /\ DefsTyped(defs', now')
       /\ StackTyped(stack')
       /\ outcome' \in {"none", "running", "resolved", "failed"}
       /\ outcome' = "running" <=> stack' # << >>
       /\ RunTyped(run', now'))
      => TypeOK'
  BY DEF TypeOK, ContractsTyped, DefsTyped, StackTyped, RunTyped
<1>1. ASSUME NEW f \in Files, Edit(f) PROVE TypeOK'
  <2>1. DOMAIN files' = Files /\ \A g \in Files : files'[g] \in Contents[g]
    BY <1>1, <1>p DEF Edit
  <2>2. edits' \in 0 .. MaxEdits
    BY <1>1, <1>n DEF Edit
  <2>3. RunTyped(run', now')
    BY <1>1, <1>p, <1>n DEF Edit, RunTyped
  <2> QED
    BY <1>1, <1>p, <2>1, <2>2, <2>3, <1>s DEF Edit, caches
<1>2. CASE Tick
  <2>1. now' \in 0 .. MaxTime /\ now' = now + 1
    BY <1>2, <1>n DEF Tick
  <2>2. ContractsTyped(contracts, now')
    BY <1>p, <1>n, <2>1 DEF ContractsTyped
  <2>3. DefsTyped(defs, now')
    BY <1>p, <1>n, <2>1 DEF DefsTyped
  <2>4. RunTyped(run, now')
    BY <1>p, <1>n, <2>1 DEF RunTyped
  <2> QED
    BY <1>2, <1>p, <2>1, <2>2, <2>3, <2>4, <1>s DEF Tick, world, caches
<1>3. ASSUME NEW f \in Files, Start(f) PROVE TypeOK'
  <2>1. RunTyped(run', now')
    <3>1. IsNamed(<< >>, Value) /\ now \in 0 .. now
      BY <1>n DEF IsNamed
    <3> QED BY <1>3, <1>p, <3>1 DEF Start, RunTyped, world
  <2>2. IsFrame(Read(<<f, Self>>, Self))
    BY CacheAssumption, ReadFrame DEF Target
  <2>3. StackTyped(<<Read(<<f, Self>>, Self)>>) /\ <<Read(<<f, Self>>, Self)>> # << >>
    <3> DEFINE fr == Read(<<f, Self>>, Self)
    <3>1. IsFrame(fr)
      BY <2>2
    <3> HIDE DEF fr
    <3>2. <<fr>> \in Seq({fr}) /\ DOMAIN <<fr>> = {1} /\ <<fr>>[1] = fr /\ <<fr>> # << >>
      OBVIOUS
    <3>3. IsSeq(<<fr>>)
      BY <3>2, SeqOfItsItems
    <3> QED BY <3>1, <3>2, <3>3 DEF StackTyped, fr
  <2> QED
    BY <1>3, <1>p, <2>1, <2>3, EmptyTyped, <1>s DEF Start, world, caches
<1>4. ASSUME NEW n \in Frags, NEW t \in Target, FromDefinitions(n, t) PROVE TypeOK'
  <2>1. defs[t].value \in Value /\ outcome = "running"
    BY <1>4, <1>p DEF FromDefinitions, Hit, Looking, DefsTyped
  <2>2. StackTyped(stack') /\ stack' # << >>
    BY <1>4, <2>1, TopInlined DEF FromDefinitions
  <2> QED
    BY <1>4, <1>p, <2>1, <2>2, <1>s DEF FromDefinitions, world, caches
<1>5. ASSUME NEW n \in Frags, NEW t \in Target, FromContract(n, t) PROVE TypeOK'
  <2>1. contracts[t[1]].value[t[2]] \in Value /\ outcome = "running"
    BY <1>5, <1>p DEF FromContract, InContract, Hit, Missing, Looking, ContractsTyped, IsNamed
  <2>2. StackTyped(stack') /\ stack' # << >>
    BY <1>5, <2>1, TopInlined DEF FromContract
  <2>3. DefsTyped(defs', now)
    BY <1>5, <2>1, CachesTyped DEF FromContract
  <2> QED
    BY <1>5, <1>p, <2>1, <2>2, <2>3, <1>s DEF FromContract, world
<1>6. ASSUME NEW n \in Frags, NEW t \in Target, Fetch(n, t) PROVE TypeOK'
  <2>1. outcome = "running" /\ t[1] \in Files
    BY <1>6 DEF Fetch, Missing, Looking, Target
  <2>2. Read(t, n).values[Self] \in Value
    BY <1>6, FetchedValue
  <2>3. StackTyped(stack') /\ stack' # << >>
    BY <1>6, <2>1, <2>2, TopInlined DEF Fetch
  <2>4. DefsTyped(defs', now)
    BY <1>6, <2>2, CachesTyped DEF Fetch
  <2> QED
    BY <1>6, <1>p, <2>1, <2>3, <2>4, <1>s DEF Fetch, world
<1>7. ASSUME NEW n \in Frags, NEW t \in Target, Load(n, t) PROVE TypeOK'
  <2>1. outcome = "running"
    BY <1>7 DEF Load, LoadUnvisited, Missing, Looking
  <2>2. IsFrame(Read(t, n))
    BY ReadFrame
  <2>3. StackTyped(stack') /\ stack' # << >>
    <3> DEFINE fr == Read(t, n)  e == Append(stack, fr)
    <3>1. IsFrame(fr) /\ stack' = e
      BY <2>2, <1>7 DEF Load, LoadUnvisited
    <3> HIDE DEF fr
    <3>2. /\ IsSeq(e) /\ Len(stack) \in Nat /\ Len(e) = Len(stack) + 1
          /\ DOMAIN stack = 1 .. Len(stack) /\ DOMAIN e = 1 .. Len(stack) + 1
          /\ \A i \in 1 .. Len(stack) : e[i] = stack[i]
          /\ e[Len(stack) + 1] = fr
      BY <1>p, Pushed DEF StackTyped
    <3> HIDE DEF e
    <3>3. \A i \in DOMAIN e : IsFrame(e[i])
      BY <1>p, <3>1, <3>2 DEF StackTyped
    <3>4. e # << >>
      BY <3>2, EmptySeq
    <3> QED BY <3>1, <3>2, <3>3, <3>4 DEF StackTyped
  <2>4. ContractsTyped(contracts', now) /\ DefsTyped(defs', now)
    BY <1>7, CachesTyped DEF Load, LoadUnvisited
  <2> QED
    BY <1>7, <1>p, <2>1, <2>3, <2>4, <1>s DEF Load, LoadUnvisited, world
<1>r. RunTyped([run EXCEPT !.ended = now], now)
  BY <1>p, <1>n DEF RunTyped
<1>8. ASSUME NEW n \in Frags, NEW t \in Target, Fail(n, t) PROVE TypeOK'
  <2>1. ContractsTyped(contracts', now) /\ DefsTyped(defs', now)
    BY <1>8, CachesTyped DEF Fail
  <2> QED
    BY <1>8, <1>p, <1>r, <2>1, EmptyTyped, <1>s DEF Fail, world
<1>9. CASE Return
  <2> DEFINE caller == Below[Len(Below)]  value == Top.values[Top.for[2]]
  <2>1. /\ IsFrame(Top) /\ StackTyped(Below) /\ Len(Below) > 0 /\ IsFrame(caller)
        /\ ContractsTyped(contracts', now) /\ outcome = "running"
    BY <1>9, Returned DEF Return
  <2>2. value \in Value /\ Top.for \in Target
    BY <1>9, <2>1 DEF Return, IsFrame, IsNamed
  <2>3. stack' = WithTop(Below, Inlined(caller, Top.into, value))
    BY <1>9 DEF Return
  <2>4. IsFrame(Inlined(caller, Top.into, value))
    BY <2>1, <2>2, InlinedFrame
  <2>5. DefsTyped(defs', now)
    BY <1>9, <2>2, CachesTyped DEF Return
  <2> HIDE DEF caller, value
  <2>6. StackTyped(stack') /\ stack' # << >>
    BY <2>1, <2>3, <2>4, WithTopTyped
  <2> QED
    BY <1>9, <1>p, <2>1, <2>5, <2>6, <1>s DEF Return, world
<1>10. CASE ReturnMissing
  <2>1. ContractsTyped(contracts', now)
    BY <1>10, Returned DEF ReturnMissing
  <2> QED
    BY <1>10, <1>p, <1>r, <2>1, EmptyTyped, <1>s DEF ReturnMissing, world
<1>11. CASE Finish
  <2>1. IsNamed(Top.values, Value)
    BY <1>11, TopFrame DEF Finish, IsFrame
  <2>2. RunTyped(run', now)
    <3> DEFINE vals == Top.values
    <3>1. run' = [run EXCEPT !.ended = now, !.values = vals] /\ IsNamed(vals, Value)
      BY <1>11, <2>1 DEF Finish
    <3>2. run = [root |-> run.root, began |-> run.began, ended |-> run.ended,
                 edited |-> run.edited, values |-> run.values]
          /\ run.root \in Files /\ run.began \in 0 .. now /\ run.edited \in 0 .. now
      BY <1>p DEF RunTyped
    <3> HIDE DEF vals
    <3>3. run' = [root |-> run.root, began |-> run.began, ended |-> now,
                  edited |-> run.edited, values |-> vals]
      BY <3>1, <3>2
    <3> QED BY <3>1, <3>2, <3>3, <1>n DEF RunTyped
  <2> QED
    BY <1>11, <1>p, <2>2, EmptyTyped, <1>s DEF Finish, world, caches
<1>12. CASE UNCHANGED vars
  BY <1>12, <1>p, <1>s DEF vars
<1> QED
  BY <1>1, <1>2, <1>3, <1>4, <1>5, <1>6, <1>7, <1>8, <1>9, <1>10, <1>11, <1>12
  DEF Next, Resolve, Follow

\* The process starts with empty caches and no resolution.
LEMMA TypeInit == Init => TypeOK
<1> SUFFICES ASSUME Init PROVE TypeOK
  OBVIOUS
<1>1. DOMAIN files = Files /\ \A f \in Files : files[f] \in Contents[f]
  BY DEF Init
<1>2. edits \in 0 .. MaxEdits /\ now \in 0 .. MaxTime
  BY CacheAssumption DEF Init
<1>3. IsNamed(<< >>, Value)
  BY DEF IsNamed
<1>4. RunTyped(run, now)
  BY CacheAssumption, <1>3 DEF Init, RunTyped
<1>5. ContractsTyped(contracts, now) /\ DefsTyped(defs, now)
  BY DEF Init, ContractsTyped, DefsTyped
<1> QED
  BY <1>1, <1>2, <1>4, <1>5, EmptyTyped, TypeParts DEF Init

\* The types of the files, the caches, the call stack and the result, for any
\* number of files with any contents (lint/resolve.py).
THEOREM TypeCorrect == Spec => []TypeOK
  BY TypeInit, TypeStep, PTL DEF Spec

-----------------------------------------------------------------------------
(* How the stack goes on.                                                  *)

\* e holds the calls of the first n frames of s, of which the last may have
\* taken over a value.
Resumed(s, n, value, e) ==
  /\ DOMAIN e = 1 .. n
  /\ \A i \in 1 .. n :
       /\ e[i].file = s[i].file /\ e[i].for = s[i].for /\ e[i].into = s[i].into
       /\ e[i].props = s[i].props
       /\ \A m \in DOMAIN e[i].values :
            /\ m \in DOMAIN s[i].values
            /\ e[i].values[m] = s[i].values[m] \/ (i = n /\ e[i].values[m] = value)

\* A definition was found in a cache or at its URL: the top frame takes it over
\* (resolve.py:335-340).
LEMMA TopResumed ==
  ASSUME TypeOK, outcome = "running", NEW p, NEW value \in Value
  PROVE  Resumed(stack, Len(stack), value, WithTop(stack, Inlined(Top, p, value)))
<1> DEFINE fr == Inlined(Top, p, value)  e == WithTop(stack, fr)
<1>1. IsSeq(stack) /\ Len(stack) > 0 /\ IsFrame(Top) /\ Len(stack) \in Nat
  BY TopFrame DEF TypeOK
<1>2. /\ fr.file = Top.file /\ fr.for = Top.for /\ fr.into = Top.into /\ fr.props = Top.props
      /\ \A n \in DOMAIN fr.values :
           n \in DOMAIN Top.values /\ (fr.values[n] = Top.values[n] \/ fr.values[n] = value)
  BY <1>1, InlinedFrame
<1> HIDE DEF fr
<1>3. /\ DOMAIN e = 1 .. Len(stack)
      /\ \A i \in 1 .. Len(stack) : i < Len(stack) => e[i] = stack[i]
      /\ e[Len(stack)] = fr
  BY <1>1, TopReplaced
<1> HIDE DEF e
<1>4. ASSUME NEW i \in 1 .. Len(stack) PROVE i < Len(stack) \/ i = Len(stack)
  BY <1>1
<1>5. Resumed(stack, Len(stack), value, e)
  BY <1>2, <1>3, <1>4 DEF Resumed, Top
<1> QED
  BY <1>5 DEF e, fr

\* A referenced file was resolved: its caller takes over the definition.
LEMMA CallerResumed ==
  ASSUME TypeOK, Loaded, NEW p, NEW value \in Value
  PROVE  Resumed(stack, Len(stack) - 1, value,
                 WithTop(Below, Inlined(Below[Len(Below)], p, value)))
<1> DEFINE caller == Below[Len(Below)]
           fr == Inlined(caller, p, value)  e == WithTop(Below, fr)
<1>1. /\ Len(stack) \in Nat /\ Len(stack) > 1
      /\ StackTyped(Below) /\ Len(Below) = Len(stack) - 1
      /\ \A i \in 1 .. Len(stack) - 1 : Below[i] = stack[i]
      /\ IsFrame(caller)
  BY Returned
<1>2. /\ fr.file = caller.file /\ fr.for = caller.for /\ fr.into = caller.into
      /\ fr.props = caller.props
      /\ \A n \in DOMAIN fr.values :
           n \in DOMAIN caller.values
             /\ (fr.values[n] = caller.values[n] \/ fr.values[n] = value)
  BY <1>1, InlinedFrame
<1>3. caller = stack[Len(stack) - 1]
  BY <1>1
<1> HIDE DEF fr, caller
<1>4. /\ DOMAIN e = 1 .. Len(Below)
      /\ \A i \in 1 .. Len(Below) : i < Len(Below) => e[i] = Below[i]
      /\ e[Len(Below)] = fr
  BY <1>1, TopReplaced DEF StackTyped
<1> HIDE DEF e
<1>5. ASSUME NEW i \in 1 .. Len(stack) - 1
      PROVE  i < Len(Below) \/ i = Len(stack) - 1
  BY <1>1
<1>6. Resumed(stack, Len(stack) - 1, value, e)
  BY <1>1, <1>2, <1>3, <1>4, <1>5 DEF Resumed
<1> QED
  BY <1>6 DEF e, fr, caller

\* A call: a frame for a file that is read now (resolve.py:445, 484).
LEMMA LoadPushes ==
  ASSUME TypeOK, NEW n \in Frags, NEW t \in Target, LoadUnvisited(n, t)
  PROVE  /\ Len(stack) \in Nat \ {0} /\ DOMAIN stack = 1 .. Len(stack)
         /\ DOMAIN stack' = 1 .. Len(stack) + 1
         /\ \A i \in 1 .. Len(stack) : stack'[i] = stack[i]
         /\ stack'[Len(stack) + 1] = Read(t, n)
<1>1. outcome = "running" /\ stack' = Append(stack, Read(t, n))
  BY DEF LoadUnvisited, Missing, Looking
<1>2. Len(stack) \in Nat \ {0} /\ DOMAIN stack = 1 .. Len(stack) /\ IsSeq(stack)
  BY <1>1, TopFrame DEF TypeOK
<1> QED
  BY <1>1, <1>2, Pushed

-----------------------------------------------------------------------------
(* The recursion.                                                          *)

NoneTwice(s) == \A i, j \in DOMAIN s : s[i].file = s[j].file => i = j

\* Resuming a caller enters no file.
LEMMA ResumedNoneTwice ==
  ASSUME NEW s, NEW m \in Nat, DOMAIN s = 1 .. m, NEW n \in 0 .. m, NEW v, NEW e,
         NoneTwice(s), Resumed(s, n, v, e)
  PROVE  NoneTwice(e)
  BY DEF NoneTwice, Resumed

\* Only a call enters a file, and it looks at all files that are being resolved.
LEMMA NoFileTwiceStep == TypeOK /\ NoFileTwice /\ [Next]_vars => NoFileTwice'
<1> SUFFICES ASSUME TypeOK, NoneTwice(stack), [Next]_vars PROVE NoneTwice(stack')
  BY DEF NoFileTwice, NoneTwice
<1>e. NoneTwice(<< >>)
  BY DEF NoneTwice
<1>1. ASSUME NEW f \in Files, Edit(f) PROVE NoneTwice(stack')
  BY <1>1 DEF Edit
<1>2. CASE Tick
  BY <1>2 DEF Tick
<1>3. ASSUME NEW f \in Files, Start(f) PROVE NoneTwice(stack')
  <2>1. \A x : NoneTwice(<<x>>)
    BY DEF NoneTwice
  <2> QED BY <1>3, <2>1, <1>e DEF Start
<1>i. ASSUME NEW n, NEW v \in Value, outcome = "running",
             stack' = WithTop(stack, Inlined(Top, n, v))
      PROVE  NoneTwice(stack')
  <2>1. Len(stack) \in Nat \ {0} /\ DOMAIN stack = 1 .. Len(stack)
    BY <1>i, TopFrame
  <2>2. Resumed(stack, Len(stack), v, stack')
    BY <1>i, TopResumed
  <2> QED BY <2>1, <2>2, ResumedNoneTwice
<1>4. ASSUME NEW n \in Frags, NEW t \in Target, FromDefinitions(n, t)
      PROVE  NoneTwice(stack')
  <2>1. defs[t].value \in Value /\ outcome = "running"
    BY <1>4 DEF TypeOK, FromDefinitions, Hit, Looking
  <2> QED BY <1>4, <1>i, <2>1 DEF FromDefinitions
<1>5. ASSUME NEW n \in Frags, NEW t \in Target, FromContract(n, t)
      PROVE  NoneTwice(stack')
  <2>1. contracts[t[1]].value[t[2]] \in Value /\ outcome = "running"
    BY <1>5 DEF TypeOK, FromContract, InContract, Hit, Missing, Looking, IsNamed
  <2> QED BY <1>5, <1>i, <2>1 DEF FromContract
<1>6. ASSUME NEW n \in Frags, NEW t \in Target, Fetch(n, t) PROVE NoneTwice(stack')
  <2>1. Read(t, n).values[Self] \in Value /\ outcome = "running"
    BY <1>6, FetchedValue
  <2> QED BY <1>6, <1>i, <2>1 DEF Fetch
<1>7. ASSUME NEW n \in Frags, NEW t \in Target, Load(n, t) PROVE NoneTwice(stack')
  <2>1. /\ Len(stack) \in Nat \ {0} /\ DOMAIN stack = 1 .. Len(stack)
        /\ DOMAIN stack' = 1 .. Len(stack) + 1
        /\ \A i \in 1 .. Len(stack) : stack'[i] = stack[i]
        /\ stack'[Len(stack) + 1] = Read(t, n)
    BY <1>7, LoadPushes DEF Load
  <2>2. Read(t, n).file = t[1]
    BY DEF Read
  <2>3. \A i \in 1 .. Len(stack) : stack[i].file # t[1]
    BY <1>7, <2>1 DEF Load, Visited
  <2> QED BY <2>1, <2>2, <2>3 DEF NoneTwice
<1>8. ASSUME NEW n \in Frags, NEW t \in Target, Fail(n, t) PROVE NoneTwice(stack')
  BY <1>8, <1>e DEF Fail
<1>9. CASE Return
  <2>1. Loaded /\ Len(stack) \in Nat /\ Len(stack) > 1 /\ DOMAIN stack = 1 .. Len(stack)
    BY <1>9, Returned DEF Return
  <2>2. Top.values[Top.for[2]] \in Value
    BY <1>9, Returned DEF Return, IsFrame, IsNamed
  <2>3. Resumed(stack, Len(stack) - 1, Top.values[Top.for[2]], stack')
    BY <1>9, <2>1, <2>2, CallerResumed DEF Return
  <2> QED BY <2>1, <2>3, ResumedNoneTwice
<1>10. CASE ReturnMissing
  BY <1>10, <1>e DEF ReturnMissing
<1>11. CASE Finish
  BY <1>11, <1>e DEF Finish
<1>12. CASE UNCHANGED vars
  BY <1>12 DEF vars
<1> QED
  BY <1>1, <1>2, <1>3, <1>4, <1>5, <1>6, <1>7, <1>8, <1>9, <1>10, <1>11, <1>12
  DEF Next, Resolve, Follow

\* The recursion enters no file it is in the middle of (resolve.py:437, 462), so
\* it is never deeper than there are files.
THEOREM NeverEntersTwice == Spec => []NoFileTwice
<1>1. Init => NoFileTwice
  BY DEF Init, NoFileTwice
<1> QED
  BY <1>1, TypeCorrect, NoFileTwiceStep, PTL DEF Spec

-----------------------------------------------------------------------------
(* The chain of calls.                                                     *)

Calls(s) ==
  /\ \A i \in DOMAIN s :
       /\ s[i].for[1] = s[i].file
       /\ \E c \in Contents[s[i].file] : s[i].props = c.props
  /\ \A i \in DOMAIN s : i > 1 =>
       /\ s[i].into \in DOMAIN s[i - 1].props
       /\ s[i].for \in s[i - 1].props[s[i].into].refs
InTime == outcome = "running" => stack[1].file = run.root /\ now - run.began <= MaxRun

\* Resuming a caller leaves the calls below it as they were.
LEMMA ResumedCalls ==
  ASSUME NEW s, NEW m \in Nat, DOMAIN s = 1 .. m, NEW n \in 0 .. m, NEW v, NEW e,
         Calls(s), Resumed(s, n, v, e)
  PROVE  Calls(e) /\ (n > 0 => e[1].file = s[1].file)
<1>1. ASSUME NEW i \in 1 .. n
      PROVE  /\ e[i].for[1] = e[i].file
             /\ \E c \in Contents[e[i].file] : e[i].props = c.props
  <2>1. /\ i \in DOMAIN s /\ e[i].file = s[i].file /\ e[i].for = s[i].for
        /\ e[i].props = s[i].props
    BY <1>1 DEF Resumed
  <2> QED BY <2>1, Zenon DEF Calls
<1>2. ASSUME NEW i \in 1 .. n, i > 1
      PROVE  /\ e[i].into \in DOMAIN e[i - 1].props
             /\ e[i].for \in e[i - 1].props[e[i].into].refs
  <2>1. i - 1 \in 1 .. n /\ i \in DOMAIN s
    BY <1>2
  <2>2. e[i].for = s[i].for /\ e[i].into = s[i].into /\ e[i - 1].props = s[i - 1].props
    BY <2>1 DEF Resumed
  <2> QED BY <1>2, <2>1, <2>2 DEF Calls
<1>3. DOMAIN e = 1 .. n
  BY DEF Resumed
<1>4. n > 0 => e[1].file = s[1].file
  BY DEF Resumed
<1> QED
  BY <1>1, <1>2, <1>3, <1>4 DEF Calls

\* A call is for the file that the caller's property refers to.
LEMMA LoadCalls ==
  ASSUME TypeOK, Calls(stack), NEW n \in Frags, NEW t \in Target, LoadUnvisited(n, t)
  PROVE  Calls(stack') /\ stack'[1] = stack[1]
<1> DEFINE k == Len(stack)
<1>1. /\ k \in Nat \ {0} /\ DOMAIN stack = 1 .. k /\ DOMAIN stack' = 1 .. k + 1
      /\ \A i \in 1 .. k : stack'[i] = stack[i]
      /\ stack'[k + 1] = Read(t, n)
  BY LoadPushes
<1>2. /\ Read(t, n).file = t[1] /\ Read(t, n).for = t /\ Read(t, n).into = n
      /\ \E c \in Contents[t[1]] : Read(t, n).props = c.props
  BY ReadFrame
<1>3. n \in DOMAIN stack[k].props /\ t \in stack[k].props[n].refs
  <2>1. n \in Top.todo /\ t \in Top.props[n].refs /\ outcome = "running"
    BY DEF LoadUnvisited, Missing, Looking
  <2>2. Top.todo \subseteq DOMAIN Top.props
    BY <2>1, TopFrame DEF IsFrame
  <2> QED BY <2>1, <2>2 DEF Top
<1> HIDE DEF k
<1>4. ASSUME NEW i \in 1 .. k + 1
      PROVE  /\ stack'[i].for[1] = stack'[i].file
             /\ \E c \in Contents[stack'[i].file] : stack'[i].props = c.props
  <2>1. CASE i = k + 1
    BY <2>1, <1>1, <1>2
  <2>2. CASE i # k + 1
    <3>1. i \in 1 .. k
      BY <1>1, <2>2
    <3> QED BY <3>1, <1>1 DEF Calls
  <2> QED BY <2>1, <2>2
<1>5. ASSUME NEW i \in 1 .. k + 1, i > 1
      PROVE  /\ stack'[i].into \in DOMAIN stack'[i - 1].props
             /\ stack'[i].for \in stack'[i - 1].props[stack'[i].into].refs
  <2>1. CASE i = k + 1
    <3>1. i - 1 = k /\ stack'[k] = stack[k] /\ stack'[i] = Read(t, n)
      BY <2>1, <1>1
    <3> QED BY <3>1, <1>2, <1>3
  <2>2. CASE i # k + 1
    <3>1. i \in 1 .. k /\ i - 1 \in 1 .. k
      BY <1>1, <1>5, <2>2
    <3>2. stack'[i] = stack[i] /\ stack'[i - 1] = stack[i - 1]
      BY <1>1, <3>1
    <3> QED BY <1>1, <1>5, <3>1, <3>2 DEF Calls
  <2> QED BY <2>1, <2>2
<1> QED
  BY <1>1, <1>4, <1>5 DEF Calls

-----------------------------------------------------------------------------
(* Ages.  Age(f) is how much older than the resolution a value inlined into *)
(* file f can be.                                                           *)

Age(f) == Height[f] * Span

\* One step down the references makes room for a cached contract, a cached
\* definition and a resolution that takes its time.
LEMMA AgeSteps ==
  ASSUME Layered, NEW f \in Files, NEW c \in Contents[f], NEW n \in DOMAIN c.props,
         NEW t \in c.props[n].refs, t \in Target
  PROVE  Age(t[1]) + 2 * TTL + MaxRun <= Age(f)
<1>1. Height[t[1]] < Height[f] /\ Height[t[1]] \in Nat /\ Height[f] \in Nat
  BY CacheAssumption DEF Layered, Target
<1>2. Span \in Nat /\ Span = 2 * TTL + MaxRun
  BY CacheAssumption DEF Span
<1>3. \A a, b, k \in Nat : a < b => a * k + k <= b * k
  <2> SUFFICES ASSUME NEW a \in Nat, NEW b \in Nat, NEW k \in Nat, a < b
               PROVE  a * k + k <= b * k
    OBVIOUS
  <2>1. PICK j \in Nat : b = a + 1 + j
    <3>1. b - a - 1 \in Nat /\ b = a + 1 + (b - a - 1)
      OBVIOUS
    <3> QED BY <3>1
  <2>2. b * k = a * k + k + j * k /\ j * k \in Nat
    BY <2>1
  <2>3. a * k \in Nat /\ b * k \in Nat
    OBVIOUS
  <2> QED BY <2>2, <2>3
<1>4. Height[t[1]] * Span + Span <= Height[f] * Span
  BY <1>1, <1>2, <1>3
<1>5. Height[t[1]] * Span \in Nat /\ Height[f] * Span \in Nat
  BY <1>1, <1>2
<1> QED
  BY <1>2, <1>4, <1>5, CacheAssumption DEF Age

\* The allowance is a number, whatever the file.
LEMMA AgeIsNat ==
  ASSUME NEW f \in Files PROVE Age(f) \in Nat
<1>1. Height[f] \in Nat /\ Span \in Nat
  BY CacheAssumption DEF Span
<1> QED
  BY <1>1 DEF Age

FreshStack(s, b) == \A i \in DOMAIN s : NotOlder(s[i].values, b - Age(s[i].file))
FreshContracts(cs) ==
  \A f \in DOMAIN cs : NotOlder(cs[f].value, cs[f].at - MaxRun - Age(f))
FreshDefs(ds) ==
  \A t \in DOMAIN ds : \A o \in ds[t].value :
    o.at >= ds[t].at - TTL - MaxRun - Age(t[1])
FreshResult ==
  outcome = "resolved" => NotOlder(run.values, run.began - Age(run.root))

\* The parts of Aging.
LEMMA AgingParts ==
  Aging <=> /\ Calls(stack) /\ InTime
            /\ Layered => /\ FreshStack(stack, run.began) /\ FreshContracts(contracts)
                          /\ FreshDefs(defs) /\ FreshResult
  BY DEF Aging, Chain, Calls, InTime, Fresh, FreshStack, FreshContracts, FreshDefs,
         FreshResult, Age

\* A value that is fresh enough for a file is taken over by the frame of it.
LEMMA ResumedFresh ==
  ASSUME NEW s, NEW m \in Nat, DOMAIN s = 1 .. m, NEW n \in 0 .. m, NEW v, NEW e, NEW b,
         FreshStack(s, b), Resumed(s, n, v, e),
         n > 0 => \A o \in v : o.at >= b - Age(s[n].file)
  PROVE  FreshStack(e, b)
<1> SUFFICES ASSUME NEW i \in 1 .. n, NEW k \in DOMAIN e[i].values, NEW o \in e[i].values[k]
             PROVE  o.at >= b - Age(e[i].file)
  BY DEF FreshStack, NotOlder, Resumed
<1>1. /\ i \in DOMAIN s /\ e[i].file = s[i].file /\ k \in DOMAIN s[i].values
      /\ e[i].values[k] = s[i].values[k] \/ (i = n /\ e[i].values[k] = v)
  BY DEF Resumed
<1>2. CASE e[i].values[k] = s[i].values[k]
  BY <1>1, <1>2 DEF FreshStack, NotOlder
<1>3. CASE i = n /\ e[i].values[k] = v
  BY <1>1, <1>3
<1> QED
  BY <1>1, <1>2, <1>3

\* An entry written now, for a contract or for a definition.
LEMMA PutFresh ==
  ASSUME NEW key, NEW value
  PROVE  /\ FreshContracts(contracts) /\ NotOlder(value, now - MaxRun - Age(key))
              => FreshContracts(Put(contracts, key, value))
         /\ FreshDefs(defs) /\ (\A o \in value : o.at >= now - TTL - MaxRun - Age(key[1]))
              => FreshDefs(Put(defs, key, value))
<1>1. ASSUME FreshContracts(contracts), NotOlder(value, now - MaxRun - Age(key))
      PROVE  FreshContracts(Put(contracts, key, value))
  <2> DEFINE e == Put(contracts, key, value)
  <2>1. /\ e[key] = [at |-> now, value |-> value]
        /\ \A k \in DOMAIN e : k # key => k \in DOMAIN contracts /\ e[k] = contracts[k]
    BY PutEntries
  <2> HIDE DEF e
  <2>2. ASSUME NEW k \in DOMAIN e PROVE NotOlder(e[k].value, e[k].at - MaxRun - Age(k))
    <3>1. CASE k = key
      BY <3>1, <2>1, <1>1
    <3>2. CASE k # key
      BY <3>2, <2>1, <1>1 DEF FreshContracts
    <3> QED BY <3>1, <3>2
  <2> QED BY <2>2 DEF FreshContracts, e
<1>2. ASSUME FreshDefs(defs), \A o \in value : o.at >= now - TTL - MaxRun - Age(key[1])
      PROVE  FreshDefs(Put(defs, key, value))
  <2> DEFINE e == Put(defs, key, value)
  <2>1. /\ e[key] = [at |-> now, value |-> value]
        /\ \A k \in DOMAIN e : k # key => k \in DOMAIN defs /\ e[k] = defs[k]
    BY PutEntries
  <2> HIDE DEF e
  <2>2. ASSUME NEW k \in DOMAIN e, NEW o \in e[k].value
        PROVE  o.at >= e[k].at - TTL - MaxRun - Age(k[1])
    <3>1. CASE k = key
      BY <3>1, <2>1, <2>2, <1>2
    <3>2. CASE k # key
      BY <3>2, <2>1, <2>2, <1>2 DEF FreshDefs
    <3> QED BY <3>1, <3>2
  <2> QED BY <2>2 DEF FreshDefs, e
<1> QED
  BY <1>1, <1>2

\* Asking a cache makes nothing older.
LEMMA GotFresh ==
  ASSUME NEW key
  PROVE  /\ FreshContracts(contracts) => FreshContracts(Got(contracts, key))
         /\ FreshDefs(defs) => FreshDefs(Got(defs, key))
<1>1. FreshContracts(contracts) => FreshContracts(Got(contracts, key))
  <2> DEFINE e == Got(contracts, key)
  <2>1. DOMAIN e \subseteq DOMAIN contracts /\ \A k \in DOMAIN e : e[k] = contracts[k]
    BY GotEntries
  <2> HIDE DEF e
  <2>2. FreshContracts(contracts) => FreshContracts(e)
    BY <2>1 DEF FreshContracts
  <2> QED BY <2>2 DEF e
<1>2. FreshDefs(defs) => FreshDefs(Got(defs, key))
  <2> DEFINE e == Got(defs, key)
  <2>1. DOMAIN e \subseteq DOMAIN defs /\ \A k \in DOMAIN e : e[k] = defs[k]
    BY GotEntries
  <2> HIDE DEF e
  <2>2. FreshDefs(defs) => FreshDefs(e)
    BY <2>1 DEF FreshDefs
  <2> QED BY <2>2 DEF e
<1> QED
  BY <1>1, <1>2

\* The frame that runs may take over what is younger than the file its property
\* refers to allows, plus a cached contract, a cached definition and one
\* resolution.
LEMMA FreshForTop ==
  ASSUME TypeOK, Calls(stack), Layered, NEW n \in Frags, NEW t \in Target, Looking(n, t),
         NEW v \in Value, \A o \in v : o.at >= now - 2 * TTL - MaxRun - Age(t[1])
  PROVE  \A o \in v : o.at >= run.began - Age(stack[Len(stack)].file)
<1>1. /\ outcome = "running" /\ n \in Top.todo /\ t \in Top.props[n].refs
  BY DEF Looking
<1>2. /\ Len(stack) \in DOMAIN stack /\ IsFrame(Top) /\ run.began \in 0 .. now
      /\ now \in Nat
  BY <1>1, TopFrame
<1>3. PICK c \in Contents[Top.file] : Top.props = c.props
  BY <1>2, Zenon DEF Calls, Top
<1>4. Top.file \in Files /\ n \in DOMAIN c.props /\ t \in c.props[n].refs /\ t[1] \in Files
  BY <1>1, <1>2, <1>3 DEF IsFrame, Target
<1>5. Age(t[1]) + 2 * TTL + MaxRun <= Age(Top.file)
  BY <1>4, AgeSteps
<1>6. Age(t[1]) \in Nat /\ Age(Top.file) \in Nat /\ TTL \in Nat /\ MaxRun \in Nat
  BY <1>4, AgeIsNat, CacheAssumption
<1>7. \A o \in v : o.at \in Nat
  BY DEF Value, Origin
<1> QED
  BY <1>2, <1>5, <1>6, <1>7 DEF Top

\* Every step keeps the ages bounded.
LEMMA AgingStep == TypeOK /\ TypeOK' /\ Aging /\ [Next]_vars => Aging'
<1> SUFFICES ASSUME TypeOK, TypeOK', Aging, [Next]_vars PROVE Aging'
  OBVIOUS
<1>p. /\ Calls(stack) /\ InTime
      /\ Layered => /\ FreshStack(stack, run.began) /\ FreshContracts(contracts)
                    /\ FreshDefs(defs) /\ FreshResult
  BY AgingParts
<1>n. /\ now \in Nat /\ run.began \in 0 .. now /\ TTL \in Nat /\ MaxRun \in Nat
      /\ run = [root |-> run.root, began |-> run.began, ended |-> run.ended,
                edited |-> run.edited, values |-> run.values]
  BY CacheAssumption DEF TypeOK
<1>s. (/\ Calls(stack') /\ InTime'
       /\ Layered => /\ FreshStack(stack', run'.began) /\ FreshContracts(contracts')
                     /\ FreshDefs(defs') /\ FreshResult')
      => Aging'
  BY DEF Aging, Chain, Calls, InTime, Fresh, FreshStack, FreshContracts, FreshDefs,
         FreshResult, Age, Layered
<1>1. ASSUME NEW f \in Files, Edit(f) PROVE Aging'
  <2>1. run'.began = run.began /\ run'.root = run.root /\ run'.values = run.values
    BY <1>1, <1>n DEF Edit
  <2> QED
    BY <1>1, <1>p, <2>1, <1>s DEF Edit, caches, InTime, FreshResult
<1>2. CASE Tick
  <2>1. InTime'
    BY <1>2, <1>p, <1>n DEF Tick, InTime
  <2>2. FreshResult => FreshResult'
    BY <1>2 DEF Tick, FreshResult
  <2> QED
    BY <1>2, <1>p, <2>1, <2>2, <1>s DEF Tick, caches
<1>3. ASSUME NEW f \in Files, Start(f) PROVE Aging'
  <2> DEFINE fr == Read(<<f, Self>>, Self)
  <2>1. /\ run'.root = f /\ run'.began = now /\ contracts' = contracts /\ defs' = defs
        /\ \/ stack' = <<fr>> /\ outcome' = "running"
           \/ stack' = << >> /\ outcome' = "failed"
        /\ now' = now
    BY <1>3, <1>n DEF Start, caches
  <2>2. /\ fr.file = f /\ fr.for[1] = f /\ \E c \in Contents[f] : fr.props = c.props
        /\ \A n \in DOMAIN fr.values : \A o \in fr.values[n] : o.at = now
    BY <1>3, ReadFrame, CacheAssumption DEF Target
  <2> HIDE DEF fr
  <2>3. Calls(<< >>) /\ FreshStack(<< >>, now)
    BY DEF Calls, FreshStack
  <2>4. Calls(<<fr>>)
    BY <2>2 DEF Calls
  <2>5. FreshStack(<<fr>>, now)
    <3>1. Age(f) \in Nat
      BY AgeIsNat
    <3> QED BY <2>2, <3>1, <1>n DEF FreshStack, NotOlder
  <2>6. InTime'
    BY <2>1, <2>2, <1>n DEF InTime
  <2>7. FreshResult'
    BY <2>1 DEF FreshResult
  <2> QED
    BY <2>1, <2>3, <2>4, <2>5, <2>6, <2>7, <1>p, <1>s
<1>i. ASSUME NEW n \in Frags, NEW t \in Target, Looking(n, t), NEW v \in Value,
             stack' = WithTop(stack, Inlined(Top, n, v)),
             Layered => \A o \in v : o.at >= now - 2 * TTL - MaxRun - Age(t[1]),
             Layered => FreshDefs(defs'), contracts' = contracts,
             UNCHANGED <<now, outcome, run>>
      PROVE  Aging'
  <2>1. /\ outcome = "running" /\ Len(stack) \in Nat \ {0} /\ DOMAIN stack = 1 .. Len(stack)
    BY <1>i, TopFrame DEF Looking
  <2>2. Resumed(stack, Len(stack), v, stack')
    BY <1>i, <2>1, TopResumed
  <2>3. Calls(stack') /\ stack'[1].file = stack[1].file
    BY <1>p, <2>1, <2>2, ResumedCalls
  <2>4. Layered => FreshStack(stack', run.began)
    <3> SUFFICES ASSUME Layered PROVE FreshStack(stack', run.began)
      OBVIOUS
    <3>1. \A o \in v : o.at >= run.began - Age(stack[Len(stack)].file)
      BY <1>i, <1>p, FreshForTop
    <3> QED BY <1>p, <2>1, <2>2, <3>1, ResumedFresh
  <2>5. InTime'
    BY <1>p, <1>i, <2>3 DEF InTime
  <2>6. FreshResult'
    BY <1>i, <2>1 DEF FreshResult
  <2> QED
    BY <1>i, <1>p, <2>3, <2>4, <2>5, <2>6, <1>s
<1>4. ASSUME NEW n \in Frags, NEW t \in Target, FromDefinitions(n, t) PROVE Aging'
  <2>1. /\ Looking(n, t) /\ t \in DOMAIN defs /\ now - defs[t].at <= TTL
        /\ defs[t].value \in Value /\ defs[t].at \in Nat
    BY <1>4, <1>n DEF FromDefinitions, Hit, Live, TypeOK
  <2>2. ASSUME Layered, NEW o \in defs[t].value
        PROVE  o.at >= now - 2 * TTL - MaxRun - Age(t[1])
    <3>1. o.at >= defs[t].at - TTL - MaxRun - Age(t[1])
      BY <1>p, <2>1, <2>2 DEF FreshDefs
    <3>2. o.at \in Nat /\ Age(t[1]) \in Nat
      BY <2>1, AgeIsNat DEF Value, Origin, Target
    <3> QED BY <2>1, <3>1, <3>2, <1>n
  <2>3. stack' = WithTop(stack, Inlined(Top, n, defs[t].value)) /\ contracts' = contracts
        /\ defs' = defs /\ UNCHANGED <<now, outcome, run>>
    BY <1>4 DEF FromDefinitions, caches
  <2> QED
    BY <1>p, <1>i, <2>1, <2>2, <2>3
<1>5. ASSUME NEW n \in Frags, NEW t \in Target, FromContract(n, t) PROVE Aging'
  <2> DEFINE g == t[1]  v == contracts[g].value[t[2]]
  <2>1. /\ Looking(n, t) /\ g \in DOMAIN contracts /\ now - contracts[g].at <= TTL
        /\ t[2] \in DOMAIN contracts[g].value
        /\ v \in Value /\ contracts[g].at \in Nat /\ g \in Files
    BY <1>5, <1>n DEF FromContract, Missing, InContract, Hit, Live, TypeOK, IsNamed, Target
  <2>2. ASSUME Layered, NEW o \in v
        PROVE  /\ o.at >= now - 2 * TTL - MaxRun - Age(g)
               /\ o.at >= now - TTL - MaxRun - Age(g)
    <3>1. o.at >= contracts[g].at - MaxRun - Age(g)
      BY <1>p, <2>1, <2>2 DEF FreshContracts, NotOlder
    <3>2. o.at \in Nat /\ Age(g) \in Nat
      BY <2>1, AgeIsNat DEF Value, Origin
    <3> QED BY <2>1, <3>1, <3>2, <1>n
  <2>3. stack' = WithTop(stack, Inlined(Top, n, v)) /\ contracts' = contracts
        /\ defs' = Put(defs, t, v) /\ UNCHANGED <<now, outcome, run>>
    BY <1>5 DEF FromContract
  <2>4. Layered => FreshDefs(defs')
    BY <1>p, <2>2, <2>3, PutFresh
  <2> HIDE DEF v
  <2> QED
    BY <1>i, <2>1, <2>2, <2>3, <2>4
<1>6. ASSUME NEW n \in Frags, NEW t \in Target, Fetch(n, t) PROVE Aging'
  <2> DEFINE v == Read(t, n).values[Self]
  <2>1. Looking(n, t) /\ v \in Value /\ \A o \in v : o.at = now
    BY <1>6, FetchedValue DEF Fetch, Missing
  <2>2. Age(t[1]) \in Nat
    BY AgeIsNat DEF Target
  <2>3. stack' = WithTop(stack, Inlined(Top, n, v)) /\ contracts' = contracts
        /\ defs' = Put(defs, t, v) /\ UNCHANGED <<now, outcome, run>>
    BY <1>6 DEF Fetch
  <2> HIDE DEF v
  <2>4. \A o \in v : /\ o.at >= now - 2 * TTL - MaxRun - Age(t[1])
                     /\ o.at >= now - TTL - MaxRun - Age(t[1])
    BY <2>1, <2>2, <1>n
  <2>5. Layered => FreshDefs(defs')
    BY <1>p, <2>3, <2>4, PutFresh
  <2> QED
    BY <1>i, <2>1, <2>3, <2>4, <2>5
<1>7. ASSUME NEW n \in Frags, NEW t \in Target, Load(n, t) PROVE Aging'
  <2>1. LoadUnvisited(n, t) /\ outcome = "running"
    BY <1>7 DEF Load, LoadUnvisited, Missing, Looking
  <2>2. Calls(stack') /\ stack'[1] = stack[1]
    BY <1>p, <2>1, LoadCalls
  <2>3. /\ Len(stack) \in Nat \ {0} /\ DOMAIN stack = 1 .. Len(stack)
        /\ DOMAIN stack' = 1 .. Len(stack) + 1
        /\ \A i \in 1 .. Len(stack) : stack'[i] = stack[i]
        /\ stack'[Len(stack) + 1] = Read(t, n)
    BY <2>1, LoadPushes
  <2>4. Layered => FreshStack(stack', run.began)
    <3> SUFFICES ASSUME Layered, NEW i \in 1 .. Len(stack) + 1
                 PROVE  NotOlder(stack'[i].values, run.began - Age(stack'[i].file))
      BY <2>3 DEF FreshStack
    <3>1. CASE i \in 1 .. Len(stack)
      BY <1>p, <2>3, <3>1 DEF FreshStack
    <3>2. CASE i = Len(stack) + 1
      <4> DEFINE fr == Read(t, n)
      <4>1. fr.file = t[1] /\ \A k \in DOMAIN fr.values : \A o \in fr.values[k] : o.at = now
        BY ReadFrame
      <4>2. Age(t[1]) \in Nat
        BY AgeIsNat DEF Target
      <4>3. stack'[i] = fr
        BY <2>3, <3>2
      <4> HIDE DEF fr
      <4> QED BY <4>1, <4>2, <4>3, <1>n DEF NotOlder
    <3> QED BY <2>3, <3>1, <3>2
  <2>5. Layered => FreshContracts(contracts') /\ FreshDefs(defs')
    BY <1>p, <2>1, GotFresh DEF LoadUnvisited
  <2>6. InTime' /\ FreshResult' /\ run'.began = run.began
    BY <1>p, <2>1, <2>2 DEF LoadUnvisited, InTime, FreshResult
  <2> QED
    BY <2>2, <2>4, <2>5, <2>6, <1>s
<1>e. Calls(<< >>) /\ \A b : FreshStack(<< >>, b)
  BY DEF Calls, FreshStack
<1>8. ASSUME NEW n \in Frags, NEW t \in Target, Fail(n, t) PROVE Aging'
  <2>1. Layered => FreshContracts(contracts') /\ FreshDefs(defs')
    BY <1>8, <1>p, GotFresh DEF Fail
  <2>2. InTime' /\ FreshResult'
    BY <1>8 DEF Fail, InTime, FreshResult
  <2> QED
    BY <1>8, <1>e, <2>1, <2>2, <1>s DEF Fail
<1>l. ASSUME Loaded, Layered PROVE FreshContracts(contracts')
  <2>1. /\ IsFrame(Top) /\ outcome = "running" /\ Len(stack) \in DOMAIN stack
    BY <1>l, Returned
  <2>2. NotOlder(Top.values, run.began - Age(Top.file))
    BY <1>l, <1>p, <2>1 DEF FreshStack, Top
  <2>3. Age(Top.file) \in Nat /\ IsNamed(Top.values, Value)
    BY <2>1, AgeIsNat DEF IsFrame
  <2>4. now - run.began <= MaxRun
    BY <1>p, <2>1 DEF InTime
  <2>5. NotOlder(Top.values, now - MaxRun - Age(Top.file))
    <3> SUFFICES ASSUME NEW k \in DOMAIN Top.values, NEW o \in Top.values[k]
                 PROVE  o.at >= now - MaxRun - Age(Top.file)
      BY DEF NotOlder
    <3>1. o.at \in Nat /\ o.at >= run.began - Age(Top.file)
      BY <2>2, <2>3 DEF NotOlder, IsNamed, Value, Origin
    <3> QED BY <3>1, <2>3, <2>4, <1>n
  <2> QED
    BY <1>l, <1>p, <2>5, PutFresh DEF Loaded
<1>9. CASE Return
  <2> DEFINE k == Len(stack)  v == Top.values[Top.for[2]]
  <2>1. /\ Loaded /\ k \in Nat /\ k > 1 /\ DOMAIN stack = 1 .. k /\ IsFrame(Top)
        /\ outcome = "running" /\ now - run.began <= MaxRun
    BY <1>9, <1>p, Returned DEF Return, InTime
  <2>2. v \in Value /\ Top.for[2] \in DOMAIN Top.values
    BY <1>9, <2>1 DEF Return, IsFrame, IsNamed
  <2>3. Resumed(stack, k - 1, v, stack')
    BY <1>9, <2>1, <2>2, CallerResumed DEF Return
  <2>4. Calls(stack') /\ stack'[1].file = stack[1].file
    BY <1>p, <2>1, <2>3, ResumedCalls
  <2>5. Top = stack[k] /\ stack[k - 1].file \in Files /\ Top.for[1] = Top.file
        /\ k \in DOMAIN stack /\ k - 1 \in DOMAIN stack
    BY <1>p, <2>1 DEF Top, Calls, TypeOK, IsFrame
  <2>6. ASSUME Layered, NEW o \in v
        PROVE  /\ o.at >= run.began - Age(stack[k - 1].file)
               /\ o.at >= now - TTL - MaxRun - Age(Top.for[1])
    <3>1. o.at >= run.began - Age(Top.file) /\ o.at \in Nat
      BY <1>p, <2>2, <2>5, <2>6 DEF FreshStack, NotOlder, Value, Origin
    <3>2. /\ Top.into \in DOMAIN stack[k - 1].props
          /\ Top.for \in stack[k - 1].props[Top.into].refs
      BY <1>p, <2>1, <2>5 DEF Calls
    <3>3. PICK c \in Contents[stack[k - 1].file] : stack[k - 1].props = c.props
      BY <1>p, <2>5, Zenon DEF Calls
    <3>4. Top.for \in Target /\ Top.file \in Files
      BY <2>1 DEF IsFrame
    <3>5. Age(Top.file) + 2 * TTL + MaxRun <= Age(stack[k - 1].file)
      BY <2>5, <2>6, <3>2, <3>3, <3>4, AgeSteps
    <3>6. Age(Top.file) \in Nat /\ Age(stack[k - 1].file) \in Nat
      BY <2>5, <3>4, AgeIsNat
    <3>7. o.at >= run.began - Age(stack[k - 1].file)
      BY <3>1, <3>5, <3>6, <1>n
    <3>8. o.at >= now - TTL - MaxRun - Age(Top.file)
      BY <2>1, <3>1, <3>6, <1>n
    <3> QED BY <2>5, <3>7, <3>8
  <2>7. Layered => FreshStack(stack', run.began)
    BY <1>p, <2>1, <2>3, <2>6, ResumedFresh
  <2>8. Layered => FreshContracts(contracts') /\ FreshDefs(defs')
    BY <1>9, <1>p, <1>l, <2>1, <2>6, PutFresh DEF Return
  <2>9. InTime' /\ FreshResult' /\ run' = run
    BY <1>9, <1>p, <2>1, <2>4 DEF Return, InTime, FreshResult
  <2> QED
    BY <2>4, <2>7, <2>8, <2>9, <1>s
<1>10. CASE ReturnMissing
  <2>1. Layered => FreshContracts(contracts') /\ FreshDefs(defs')
    BY <1>10, <1>p, <1>l DEF ReturnMissing
  <2>2. InTime' /\ FreshResult'
    BY <1>10 DEF ReturnMissing, InTime, FreshResult
  <2> QED
    BY <1>10, <1>e, <2>1, <2>2, <1>s DEF ReturnMissing
<1>11. CASE Finish
  <2> DEFINE vals == Top.values
  <2>1. /\ outcome = "running" /\ Len(stack) = 1 /\ 1 \in DOMAIN stack /\ Top = stack[1]
        /\ run' = [run EXCEPT !.ended = now, !.values = vals]
        /\ stack' = << >> /\ outcome' = "resolved"
        /\ contracts' = contracts /\ defs' = defs /\ now' = now
    BY <1>11, TopFrame DEF Finish, caches, Top
  <2>2. stack[1].file = run.root
    BY <1>p, <2>1 DEF InTime
  <2>3. Layered => NotOlder(vals, run.began - Age(run.root))
    BY <1>p, <2>1, <2>2 DEF FreshStack
  <2> HIDE DEF vals
  <2>4. run'.values = vals /\ run'.began = run.began /\ run'.root = run.root
    BY <2>1, <1>n
  <2>5. InTime'
    BY <2>1 DEF InTime
  <2>6. Layered => FreshResult'
    BY <2>3, <2>4 DEF FreshResult
  <2> QED
    BY <1>p, <1>e, <2>1, <2>4, <2>5, <2>6, <1>s
<1>12. CASE UNCHANGED vars
  BY <1>12, <1>p, <1>s DEF vars, InTime, FreshResult
<1> QED
  BY <1>1, <1>2, <1>3, <1>4, <1>5, <1>6, <1>7, <1>8, <1>9, <1>10, <1>11, <1>12
  DEF Next, Resolve, Follow

\* At the start nothing is cached.
LEMMA AgingInit == Init => Aging
  BY AgingParts DEF Init, Calls, InTime, FreshStack, FreshContracts, FreshDefs, FreshResult

\* Every frame, cache entry and result carries values no older than it may,
\* for any files that can form no cycle (lint/resolve.py:263-301, 387-466).
THEOREM AgingIsInductive == Spec => []Aging
<1> QED
  BY AgingInit, AgingStep, TypeCorrect, PTL DEF Spec

\* How old an inlined value is, for any files that can form no cycle: the caches
\* of lint/resolve.py add up along a chain of references, at most twice their
\* expiry and one resolution for every step.
THEOREM ValuesAreRecent == Spec => []AgesAreBounded
<1>1. Aging => AgesAreBounded
  BY DEF Aging, Fresh, AgesAreBounded
<1> QED
  BY <1>1, AgingIsInductive, PTL

-----------------------------------------------------------------------------
(* How long a resolution goes on.                                          *)

\* There are never more calls than files, since no two are for the same one.
LEMMA NoMoreCallsThanFiles ==
  ASSUME TypeOK, NoFileTwice, outcome = "running"
  PROVE  Len(stack) \in 1 .. Cardinality(Files)
<1> DEFINE k == Len(stack)  file == [i \in 1 .. k |-> stack[i].file]
<1>1. k \in Nat \ {0} /\ DOMAIN stack = 1 .. k
  BY TopFrame
<1>2. file \in [1 .. k -> Files]
  BY <1>1 DEF TypeOK, IsFrame
<1>3. IsFiniteSet(Files) /\ Cardinality(Files) \in Nat
  BY CacheAssumption, FS_CardinalityType
<1> HIDE DEF k
<1>4. IsFiniteSet(1 .. k) /\ Cardinality(1 .. k) = k
  BY <1>1, FS_Interval
<1>5. ~(Cardinality(Files) < k)
  <2> SUFFICES ASSUME Cardinality(Files) < k PROVE FALSE
    OBVIOUS
  <2> HIDE DEF file
  <2>1. \E x, y \in 1 .. k : x # y /\ file[x] = file[y]
    BY <1>2, <1>3, <1>4, FS_PigeonHole
  <2> QED BY <1>1, <2>1 DEF file, NoFileTwice
<1> QED
  BY <1>1, <1>3, <1>5 DEF k

\* A property that is done is one less to do.
LEMMA OneLess ==
  ASSUME NEW fr, IsFrame(fr), NEW p \in fr.todo
  PROVE  /\ Cardinality(fr.todo) \in Nat \ {0} /\ Cardinality(fr.todo) <= Cardinality(Frags)
         /\ Cardinality(fr.todo \ {p}) = Cardinality(fr.todo) - 1
         /\ Cardinality(Frags) \in Nat
<1>1. fr.todo \in SUBSET Frags
  BY DEF IsFrame, IsNamed
<1>2. IsFiniteSet(Frags)
  BY CacheAssumption
<1>3. /\ IsFiniteSet(fr.todo) /\ Cardinality(fr.todo) <= Cardinality(Frags)
      /\ Cardinality(Frags) \in Nat
  BY <1>1, <1>2, FS_Subset, FS_CardinalityType
<1>4. Cardinality(fr.todo) \in Nat /\ (Cardinality(fr.todo) = 0 <=> fr.todo = {})
  BY <1>3, FS_CardinalityType, FS_EmptySet
<1>5. Cardinality(fr.todo \ {p}) = Cardinality(fr.todo) - 1
  BY <1>3, FS_RemoveElement
<1> QED
  BY <1>3, <1>4, <1>5

\* A file that is read has no more open references than there are fragments.
LEMMA TodoIsBounded ==
  ASSUME NEW fr, IsFrame(fr)
  PROVE  Cardinality(fr.todo) \in Nat /\ Cardinality(fr.todo) <= Cardinality(Frags)
         /\ Cardinality(Frags) \in Nat
<1>1. fr.todo \in SUBSET Frags
  BY DEF IsFrame, IsNamed
<1>2. IsFiniteSet(Frags)
  BY CacheAssumption
<1> QED
  BY <1>1, <1>2, FS_Subset, FS_CardinalityType

\* The reference that a call was made for is still open in its caller.
Awaited(s) == \A i \in DOMAIN s : i > 1 => s[i].into \in s[i - 1].todo

\* What a caller goes on with is done.
LEMMA InlinedTodo ==
  ASSUME NEW fr, IsFrame(fr), NEW p, NEW v
  PROVE  Inlined(fr, p, v).todo = fr.todo \ {p}
<1> DEFINE vals == [fr.values EXCEPT ![p] = IF fr.props[p].own THEN @ ELSE v]
           first == [fr EXCEPT !.values = vals]
<1>1. Inlined(fr, p, v) = [first EXCEPT !.todo = @ \ {p}]
  BY Zenon DEF Inlined
<1>2. first = [file |-> fr.file, for |-> fr.for, into |-> fr.into, props |-> fr.props,
               values |-> vals, todo |-> fr.todo]
  BY DEF IsFrame
<1> HIDE DEF first
<1> QED BY <1>1, <1>2

\* The top frame has a reference less to follow, or its caller has.
LEMMA TopTodo ==
  ASSUME TypeOK, outcome = "running", NEW p, NEW v,
         stack' = WithTop(stack, Inlined(Top, p, v))
  PROVE  /\ Len(stack') = Len(stack) /\ DOMAIN stack' = 1 .. Len(stack)
         /\ \A i \in 1 .. Len(stack) : i < Len(stack) => stack'[i] = stack[i]
         /\ stack'[Len(stack)].todo = stack[Len(stack)].todo \ {p}
         /\ stack'[Len(stack)].into = stack[Len(stack)].into
<1> DEFINE fr == Inlined(Top, p, v)  e == WithTop(stack, fr)
<1>1. IsSeq(stack) /\ Len(stack) > 0 /\ IsFrame(Top) /\ Top = stack[Len(stack)]
  BY TopFrame DEF TypeOK, Top
<1>2. fr.todo = Top.todo \ {p} /\ fr.into = Top.into
  BY <1>1, InlinedTodo DEF Inlined, IsFrame
<1> HIDE DEF fr
<1>3. /\ Len(e) = Len(stack) /\ DOMAIN e = 1 .. Len(stack)
      /\ \A i \in 1 .. Len(stack) : i < Len(stack) => e[i] = stack[i]
      /\ e[Len(stack)] = fr
  BY <1>1, TopReplaced
<1>4. stack' = e
  BY DEF fr
<1> HIDE DEF e
<1> QED
  BY <1>1, <1>2, <1>3, <1>4

LEMMA CallerTodo ==
  ASSUME TypeOK, Return
  PROVE  LET k == Len(stack) - 1 IN
         /\ Len(stack) \in Nat /\ Len(stack) > 1 /\ DOMAIN stack = 1 .. Len(stack)
         /\ Len(stack') = k /\ DOMAIN stack' = 1 .. k
         /\ \A i \in 1 .. k : i < k => stack'[i] = stack[i]
         /\ stack'[k].todo = stack[k].todo \ {stack[k + 1].into}
         /\ stack'[k].into = stack[k].into
<1> DEFINE k == Len(stack) - 1  caller == Below[Len(Below)]  v == Top.values[Top.for[2]]
           fr == Inlined(caller, Top.into, v)  e == WithTop(Below, fr)
<1>1. /\ Len(stack) \in Nat /\ Len(stack) > 1 /\ DOMAIN stack = 1 .. Len(stack)
      /\ StackTyped(Below) /\ Len(Below) = k
      /\ \A i \in 1 .. k : Below[i] = stack[i]
      /\ IsFrame(caller)
  BY Returned DEF Return
<1>2. caller = stack[k] /\ Top = stack[k + 1]
  BY <1>1 DEF Top
<1>3. fr.todo = caller.todo \ {Top.into} /\ fr.into = caller.into
  BY <1>1, InlinedTodo DEF Inlined, IsFrame
<1>4. stack' = e
  BY DEF Return
<1>6. IsSeq(Below) /\ Len(Below) > 0
  BY <1>1 DEF StackTyped
<1> HIDE DEF fr, caller
<1>5. /\ Len(e) = Len(Below) /\ DOMAIN e = 1 .. Len(Below)
      /\ \A i \in 1 .. Len(Below) : i < Len(Below) => e[i] = Below[i]
      /\ e[Len(Below)] = fr
  BY <1>6, TopReplaced
<1> HIDE DEF e, k
<1> QED
  BY <1>1, <1>2, <1>3, <1>4, <1>5 DEF k

\* The callers of a frame await what they awaited.
LEMMA AwaitedBelow ==
  ASSUME NEW s, NEW m \in Nat, DOMAIN s = 1 .. m, Awaited(s), NEW n \in Nat, n <= m,
         NEW e, DOMAIN e = 1 .. n, \A i \in 1 .. n : i < n => e[i] = s[i],
         n > 0 => e[n].into = s[n].into
  PROVE  Awaited(e)
<1> SUFFICES ASSUME NEW i \in 1 .. n, i > 1 PROVE e[i].into \in e[i - 1].todo
  BY DEF Awaited
<1>1. i \in 1 .. m /\ i - 1 \in 1 .. n /\ i - 1 < n /\ e[i - 1] = s[i - 1]
  OBVIOUS
<1>2. e[i].into = s[i].into
  <2>1. CASE i < n
    BY <2>1
  <2>2. CASE i = n
    BY <2>2
  <2> QED BY <2>1, <2>2
<1> QED
  BY <1>1, <1>2 DEF Awaited

\* Every step keeps the references open that the calls were made for: only the
\* frame that runs is done with one (resolve.py:335-340).
LEMMA AwaitedStep ==
  TypeOK /\ Awaited(stack) /\ [Next]_vars => Awaited(stack')
<1> SUFFICES ASSUME TypeOK, Awaited(stack), [Next]_vars PROVE Awaited(stack')
  OBVIOUS
<1>e. Awaited(<< >>) /\ \A x : Awaited(<<x>>)
  BY DEF Awaited
<1>1. ASSUME stack' = stack PROVE Awaited(stack')
  BY <1>1
<1>2. ASSUME NEW f \in Files, Start(f) PROVE Awaited(stack')
  BY <1>2, <1>e DEF Start
<1>3. ASSUME outcome = "running", NEW p, NEW v, stack' = WithTop(stack, Inlined(Top, p, v))
      PROVE  Awaited(stack')
  <2>1. DOMAIN stack = 1 .. Len(stack) /\ Len(stack) \in Nat
    BY <1>3, TopFrame
  <2>2. /\ Len(stack') = Len(stack) /\ DOMAIN stack' = 1 .. Len(stack)
        /\ \A i \in 1 .. Len(stack) : i < Len(stack) => stack'[i] = stack[i]
        /\ stack'[Len(stack)].into = stack[Len(stack)].into
    BY <1>3, TopTodo
  <2> QED BY <2>1, <2>2, AwaitedBelow
<1>4. ASSUME NEW p \in Frags, NEW t \in Target, Load(p, t) PROVE Awaited(stack')
  <2>1. /\ Len(stack) \in Nat \ {0} /\ DOMAIN stack = 1 .. Len(stack)
        /\ DOMAIN stack' = 1 .. Len(stack) + 1
        /\ \A i \in 1 .. Len(stack) : stack'[i] = stack[i]
        /\ stack'[Len(stack) + 1] = Read(t, p)
    BY <1>4, LoadPushes DEF Load
  <2>2. p \in stack[Len(stack)].todo /\ Read(t, p).into = p
    BY <1>4 DEF Load, LoadUnvisited, Missing, Looking, Top, Read
  <2> SUFFICES ASSUME NEW i \in 1 .. Len(stack) + 1, i > 1
               PROVE  stack'[i].into \in stack'[i - 1].todo
    BY <2>1 DEF Awaited
  <2>3. i - 1 \in 1 .. Len(stack) /\ stack'[i - 1] = stack[i - 1]
    BY <2>1
  <2>4. CASE i = Len(stack) + 1
    <3>1. i - 1 = Len(stack)
      BY <2>1, <2>4
    <3> QED BY <2>1, <2>2, <2>3, <2>4, <3>1
  <2>5. CASE i # Len(stack) + 1
    <3>1. i \in 1 .. Len(stack)
      BY <2>1, <2>5
    <3> QED BY <2>1, <2>3, <3>1 DEF Awaited
  <2> QED BY <2>4, <2>5
<1>5. CASE Return
  <2> DEFINE k == Len(stack) - 1
  <2>1. /\ Len(stack) \in Nat /\ Len(stack) > 1 /\ DOMAIN stack = 1 .. Len(stack)
        /\ DOMAIN stack' = 1 .. k
        /\ \A i \in 1 .. k : i < k => stack'[i] = stack[i]
        /\ stack'[k].into = stack[k].into
    BY <1>5, CallerTodo
  <2>2. k \in Nat /\ k <= Len(stack)
    BY <2>1
  <2> HIDE DEF k
  <2> QED BY <2>1, <2>2, AwaitedBelow
<1> QED
  BY <1>1, <1>2, <1>3, <1>4, <1>5, <1>e
  DEF Next, Resolve, Follow, Edit, Tick, FromDefinitions, FromContract, Fetch, Fail,
      ReturnMissing, Finish, vars, Missing, Looking

\* Each step of the resolver gets on with one of the calls and leaves those below
\* it as they are: the top frame, or on a return its caller (resolve.py:335-340).
LEMMA CountsDownStep ==
  ASSUME TypeOK, NoFileTwice, Awaited(stack), Resolve, outcome' = "running"
  PROVE  \E i \in 1 .. Cardinality(Files) :
           Left(i)' < Left(i) /\ \A j \in 1 .. i - 1 : Left(j)' = Left(j)
<1>r. outcome = "running"
  BY DEF Resolve, Follow, FromDefinitions, FromContract, Fetch, Load, LoadUnvisited, Fail,
         Missing, Looking, Return, ReturnMissing, Loaded, Finish
<1>s. /\ Len(stack) \in Nat \ {0} /\ DOMAIN stack = 1 .. Len(stack) /\ IsFrame(Top)
      /\ Len(stack) \in 1 .. Cardinality(Files)
      /\ \A i \in 1 .. Len(stack) : IsFrame(stack[i])
  BY <1>r, TopFrame, NoMoreCallsThanFiles DEF TypeOK
<1>f. Cardinality(Files) \in Nat
  BY CacheAssumption, FS_CardinalityType
<1>t. \A k \in 1 .. Len(stack) : Cardinality(stack[k].todo) \in Nat
  BY <1>s, TodoIsBounded
\* The calls below the k-th are as they were, and there is less to do in that one.
<1>k. ASSUME NEW k \in 1 .. Len(stack), Len(stack') \in Nat, k <= Len(stack'),
             \A j \in 1 .. k : j < k => stack'[j] = stack[j],
             Left(k)' < Left(k)
      PROVE  \E i \in 1 .. Cardinality(Files) :
               Left(i)' < Left(i) /\ \A j \in 1 .. i - 1 : Left(j)' = Left(j)
  <2>1. k \in 1 .. Cardinality(Files)
    BY <1>f, <1>s
  <2>2. ASSUME NEW j \in 1 .. k - 1 PROVE Left(j)' = Left(j)
    <3>1. /\ j \in 1 .. k /\ j < k /\ j < Len(stack) /\ j < Len(stack')
          /\ ~(j > Len(stack)) /\ ~(j > Len(stack'))
      BY <1>s, <1>k
    <3>2. stack'[j] = stack[j]
      BY <1>k, <3>1
    <3> QED BY <3>1, <3>2 DEF Left
  <2> QED BY <1>k, <2>1, <2>2
<1>1. ASSUME NEW p \in Top.todo, NEW v, stack' = WithTop(stack, Inlined(Top, p, v))
      PROVE  \E i \in 1 .. Cardinality(Files) :
               Left(i)' < Left(i) /\ \A j \in 1 .. i - 1 : Left(j)' = Left(j)
  <2>0. PICK k \in 1 .. Cardinality(Files) : k = Len(stack)
    BY <1>s
  <2>1. /\ Len(stack') = k
        /\ \A i \in 1 .. k : i < k => stack'[i] = stack[i]
        /\ stack'[k].todo = stack[k].todo \ {p}
    BY <1>1, <1>r, <2>0, TopTodo
  <2>2. /\ Cardinality(stack[k].todo) \in Nat \ {0}
        /\ Cardinality(stack'[k].todo) = Cardinality(stack[k].todo) - 1
    BY <1>1, <1>s, <2>0, <2>1, OneLess DEF Top
  <2>3. k \in 1 .. k /\ k \in Nat /\ k <= k
    BY <1>s, <2>0
  <2>4. Left(k) = 2 * Cardinality(stack[k].todo) /\ Left(k)' = 2 * Cardinality(stack'[k].todo)
    <3>1. ~(k > Len(stack)) /\ ~(k < Len(stack)) /\ ~(k > Len(stack')) /\ ~(k < Len(stack'))
      BY <2>0, <2>1, <2>3
    <3>2. Cardinality(stack'[k].todo) \in Nat
      BY <2>2
    <3> QED BY <2>2, <3>1, <3>2 DEF Left
  <2>5. Left(k)' < Left(k)
    BY <2>2, <2>4
  <2> QED BY <1>k, <2>0, <2>1, <2>3, <2>5
<1>2. ASSUME NEW p \in Frags, NEW t \in Target, Load(p, t)
      PROVE  \E i \in 1 .. Cardinality(Files) :
               Left(i)' < Left(i) /\ \A j \in 1 .. i - 1 : Left(j)' = Left(j)
  <2>0. PICK k \in 1 .. Cardinality(Files) : k = Len(stack)
    BY <1>s
  <2>1. /\ \A i \in 1 .. k : stack'[i] = stack[i]
        /\ Len(stack') = k + 1
    <3>1. /\ stack' = Append(stack, Read(t, p)) /\ IsSeq(stack)
      BY <1>2 DEF Load, LoadUnvisited, TypeOK
    <3> QED BY <1>2, <2>0, <3>1, LoadPushes, Pushed DEF Load
  <2>2. k \in Nat /\ k \in 1 .. k /\ k <= Len(stack') /\ Len(stack') \in Nat
        /\ Cardinality(stack[k].todo) \in Nat
    BY <1>s, <1>t, <2>0, <2>1
  <2>3. /\ Left(k) = 2 * Cardinality(stack[k].todo)
        /\ Left(k)' = 2 * Cardinality(stack[k].todo) - 1
    <3>1. ~(k > Len(stack)) /\ ~(k < Len(stack)) /\ ~(k > Len(stack')) /\ k < Len(stack')
          /\ stack'[k] = stack[k]
      BY <2>0, <2>1, <2>2
    <3> QED BY <2>2, <3>1 DEF Left
  <2>4. Left(k)' < Left(k)
    BY <2>2, <2>3
  <2> QED BY <1>k, <2>0, <2>1, <2>2, <2>4
<1>3. ASSUME Return
      PROVE  \E i \in 1 .. Cardinality(Files) :
               Left(i)' < Left(i) /\ \A j \in 1 .. i - 1 : Left(j)' = Left(j)
  <2>0. PICK k \in 1 .. Cardinality(Files) : k = Len(stack) - 1
    <3>1. Len(stack) - 1 \in 1 .. Cardinality(Files)
      BY <1>3, <1>f, <1>s, CallerTodo
    <3> QED BY <3>1
  <2> DEFINE p == stack[k + 1].into
  <2>1. /\ Len(stack) \in Nat /\ Len(stack) > 1 /\ DOMAIN stack = 1 .. Len(stack)
        /\ Len(stack') = k
        /\ \A i \in 1 .. k : i < k => stack'[i] = stack[i]
        /\ stack'[k].todo = stack[k].todo \ {p}
    BY <1>3, <2>0, CallerTodo
  <2>2. /\ k \in 1 .. Len(stack) /\ k \in Nat /\ k + 1 = Len(stack) /\ k + 1 \in DOMAIN stack
        /\ k + 1 > 1 /\ (k + 1) - 1 = k
    BY <2>0, <2>1
  <2>3. p \in stack[k].todo
    BY <2>2 DEF Awaited
  <2> HIDE DEF p
  <2>4. /\ Cardinality(stack[k].todo) \in Nat \ {0}
        /\ Cardinality(stack'[k].todo) = Cardinality(stack[k].todo) - 1
    BY <1>s, <2>1, <2>2, <2>3, OneLess
  <2>5. /\ Left(k) = 2 * Cardinality(stack[k].todo) - 1
        /\ Left(k)' = 2 * Cardinality(stack'[k].todo)
    <3>1. ~(k > Len(stack)) /\ k < Len(stack) /\ ~(k > Len(stack')) /\ ~(k < Len(stack'))
      BY <2>1, <2>2
    <3>2. Cardinality(stack'[k].todo) \in Nat
      BY <2>4
    <3> QED BY <2>4, <3>1, <3>2 DEF Left
  <2>6. Left(k)' < Left(k)
    BY <2>4, <2>5
  <2> QED BY <1>k, <2>1, <2>2, <2>6
<1>4. ASSUME NEW p \in Frags, NEW t \in Target, Follow(p, t)
      PROVE  \E i \in 1 .. Cardinality(Files) :
               Left(i)' < Left(i) /\ \A j \in 1 .. i - 1 : Left(j)' = Left(j)
  <2>1. ~Fail(p, t)
    BY DEF Fail
  <2>2. p \in Top.todo
    BY <1>4 DEF Follow, FromDefinitions, FromContract, Fetch, Load, LoadUnvisited, Fail,
                Missing, Looking
  <2>3. CASE FromDefinitions(p, t)
    BY <1>1, <2>2, <2>3 DEF FromDefinitions
  <2>4. CASE FromContract(p, t)
    BY <1>1, <2>2, <2>4 DEF FromContract
  <2>5. CASE Fetch(p, t)
    BY <1>1, <2>2, <2>5 DEF Fetch
  <2> QED BY <1>2, <1>4, <2>1, <2>3, <2>4, <2>5 DEF Follow
<1>5. ~ReturnMissing /\ ~Finish
  BY DEF ReturnMissing, Finish
<1> QED
  BY <1>3, <1>4, <1>5 DEF Resolve

\* Why every resolution ends, whatever the files refer to and whoever edits them
\* meanwhile: each of its steps lowers a bounded list of counts, compared from the
\* first on, as long as there are files (resolve.py:437, 447, 462, 484).
THEOREM ResolutionCountsDown == Spec => CountsDown
<1>1. Init => Awaited(stack)
  BY DEF Init, Awaited
<1>2. TypeOK /\ Awaited(stack) /\ [Next]_vars => (Awaited(stack))'
  BY AwaitedStep DEF Awaited
<1>3. TypeOK /\ NoFileTwice /\ Awaited(stack) /\ [Next]_vars =>
        [Resolve => \/ outcome' # "running"
                    \/ \E i \in 1 .. Cardinality(Files) :
                         Left(i)' < Left(i) /\ \A j \in 1 .. i - 1 : Left(j)' = Left(j)]_vars
  BY CountsDownStep
<1> QED
  BY <1>1, <1>2, <1>3, TypeCorrect, NeverEntersTwice, PTL DEF Spec, CountsDown

=============================================================================
