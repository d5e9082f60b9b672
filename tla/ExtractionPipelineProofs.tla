---------------------- MODULE ExtractionPipelineProofs ----------------------
(***************************************************************************)
(* Proofs about the slice planner, alone (SliceWalk) and in the pipeline   *)
(* (ExtractionPipeline), for any number of streams, events, processes,     *)
(* shards, jobs, attempts, slice limits and faults.                        *)
(***************************************************************************)
EXTENDS ExtractionPipeline, SliceWalk, CommonLemmas, FiniteSetTheorems, TLAPS

-----------------------------------------------------------------------------
(* What the slice planner returns *)

\* ToSequence is the greatest sequence of a slice's new events.
LEMMA ToSequenceMax ==
    ASSUME NEW N \in Nat, NEW new \in SUBSET Event, new # {},
           \A e \in new : e.seq <= N
    PROVE  /\ ToSequence(new) \in {e.seq : e \in new}
           /\ \A e \in new : e.seq <= ToSequence(new)
<1> DEFINE T == {e.seq : e \in new}
<1>1. T \in SUBSET (0..N) /\ T # {}
  BY DEF Event
<1>2. \E m \in T : \A n \in T : n <= m
  BY <1>1, GreatestNat
<1>3. \E m \in T : \A e \in new : e.seq <= m
  BY <1>2
<1> QED
  BY <1>3 DEF ToSequence

\* NextSlice takes new events of the stream from beyond the cursor and up to
\* the job's bound, and skips none of them.
LEMMA NewEventsPrefix ==
    ASSUME NEW evs \in SUBSET Event, IsFiniteSet(evs), NEW s \in Streams,
           NEW c \in Nat, NEW t \in Nat \ {0}
    PROVE  /\ NewEvents(evs, s, c, t) \subseteq
                   {e \in evs : e.stream = s /\ e.seq > c /\ e.seq <= t}
           /\ \A e \in evs, f \in NewEvents(evs, s, c, t) :
                   e.stream = s /\ e.seq > c /\ e.seq <= f.seq
                       => e \in NewEvents(evs, s, c, t)
<1> DEFINE rows == {e \in evs : e.stream = s /\ e.seq > c}
           upTo(e) == {f \in rows : f.seq <= e.seq}
           page == SessionEvents(evs, s, c, EventLimit)
           cut == EventsThrough(page, t)
<1>1. page = {e \in rows : Cardinality(upTo(e)) <= EventLimit}
  BY DEF SessionEvents
<1>2. cut = {e \in page : e.seq <= t}
  BY DEF EventsThrough
<1> DEFINE before(e) == {f \in cut : f.seq <= e.seq}
           fits(e) == \/ Cardinality(before(e)) = 1
                      \/ EventTokens(before(e)) <= TokenLimit
<1>3. NewEvents(evs, s, c, t) = {e \in cut : \A f \in before(e) : fits(f)}
  BY DEF NewEvents, BoundedEvents
<1>4. ASSUME NEW e \in evs, NEW f \in NewEvents(evs, s, c, t),
             e.stream = s, e.seq > c, e.seq <= f.seq
      PROVE  e \in NewEvents(evs, s, c, t)
  <2>1. e \in rows /\ f \in rows /\ f \in page /\ f \in cut
    BY <1>1, <1>2, <1>3, <1>4
  <2>2. upTo(e) \subseteq upTo(f)
    BY <1>4, <2>1 DEF Event
  <2>3. IsFiniteSet(upTo(f))
    BY FS_Subset
  <2>4. /\ Cardinality(upTo(e)) <= Cardinality(upTo(f))
        /\ Cardinality(upTo(e)) \in Nat /\ Cardinality(upTo(f)) \in Nat
    BY <2>2, <2>3, FS_Subset, FS_CardinalityType
  <2>5. e \in page
    BY <1>1, <2>1, <2>4, PlannerAssumption
  <2>6. e \in cut
    BY <1>2, <1>4, <2>1, <2>5 DEF Event
  <2>7. \A g \in cut : g.seq <= e.seq => g.seq <= f.seq
    <3>1. cut \subseteq Event
      BY <1>1, <1>2
    <3> HIDE DEF cut, page
    <3> QED
      BY <1>4, <2>1, <3>1 DEF Event
  <2>8. before(e) \subseteq before(f)
    BY <2>7
  <2> QED
    BY <1>3, <2>6, <2>8, Zenon
<1> QED
  BY <1>1, <1>2, <1>3, <1>4

\* A slice is empty only if no event waits between the cursor and the bound.
LEMMA NewEventsEmpty ==
    ASSUME NEW evs \in SUBSET Event, IsFiniteSet(evs), NEW s \in Streams,
           NEW c \in Nat, NEW t \in Nat \ {0},
           \A e, f \in evs : e.stream = f.stream /\ e.seq = f.seq => e = f,
           NewEvents(evs, s, c, t) = {}
    PROVE  \A e \in evs : e.stream = s /\ e.seq > c => e.seq > t
<1> SUFFICES ASSUME NEW e \in evs, e.stream = s, e.seq > c, e.seq <= t
             PROVE  FALSE
  BY DEF Event
<1> DEFINE rows == {d \in evs : d.stream = s /\ d.seq > c}
           T == {d.seq : d \in rows}
           page == SessionEvents(evs, s, c, EventLimit)
           cut == EventsThrough(page, t)
<1>1. T \in SUBSET Nat /\ e.seq \in T
  BY DEF Event
<1>2. PICK m \in T : \A n \in T : m <= n
  BY <1>1, LeastNat
<1>3. PICK f \in rows : m = f.seq
  BY <1>2
<1>4. f.seq <= e.seq /\ f.seq <= t
  BY <1>1, <1>2, <1>3 DEF Event
<1>5. \A g \in rows : g.seq <= f.seq => g = f
  <2> SUFFICES ASSUME NEW g \in rows, g.seq <= f.seq PROVE g = f
    OBVIOUS
  <2>1. f.seq <= g.seq
    BY <1>2, <1>3
  <2>2. f.seq = g.seq
    BY <2>1 DEF Event
  <2> QED
    BY <2>2
<1>6. {g \in rows : g.seq <= f.seq} = {f}
  BY <1>5 DEF Event
<1>7. f \in page
  <2>1. Cardinality({g \in rows : g.seq <= f.seq}) <= EventLimit
    <3>1. Cardinality({g \in rows : g.seq <= f.seq}) = 1
      BY <1>6, FS_Singleton, Zenon
    <3> QED
      BY <3>1, PlannerAssumption
  <2> QED
    BY <2>1 DEF SessionEvents
<1>8. f \in cut /\ cut \subseteq rows
  BY <1>4, <1>7 DEF EventsThrough, SessionEvents
<1> DEFINE before(d) == {g \in cut : g.seq <= d.seq}
           fits(d) == \/ Cardinality(before(d)) = 1
                      \/ EventTokens(before(d)) <= TokenLimit
<1>9. NewEvents(evs, s, c, t) = {d \in cut : \A g \in before(d) : fits(g)}
  BY DEF NewEvents, BoundedEvents
<1>10. before(f) = {f}
  <2> HIDE DEF cut, rows
  <2>1. f \in Event
    BY DEF rows
  <2> QED
    BY <1>5, <1>8, <2>1 DEF Event
<1>11. fits(f)
  <2> HIDE DEF before
  <2> QED
    BY <1>10, FS_Singleton
<1>12. f \in NewEvents(evs, s, c, t)
  <2> HIDE DEF cut, fits
  <2> QED
    BY <1>8, <1>9, <1>10, <1>11
<1> QED
  BY <1>12

-----------------------------------------------------------------------------
(* Sums of tokens: the fold of EventTokens adds up, event by event *)

\* The event that the sum takes next, and the equation of the sums over the
\* sets of a family that is closed under taking one.
Pick(evs) == CHOOSE e \in evs : TRUE
SumsOver(family, f) ==
    f = [s \in family |-> IF s = {} THEN 0 ELSE Tokens[Pick(s).id] + f[s \ {Pick(s)}]]

\* EventTokens is defined by a function that solves this equation.
LEMMA EventTokensDef ==
    ASSUME NEW evs
    PROVE  EventTokens(evs) = (CHOOSE f : SumsOver(SUBSET evs, f))[evs]
  BY DEF EventTokens, MapThenSumSet, MapThenFoldSet, SumsOver, Pick

\* The equation has a solution over the subsets of a finite set.
LEMMA SumsExist ==
    ASSUME NEW evs, IsFiniteSet(evs)
    PROVE  \E f : SumsOver(SUBSET evs, f)
<1> DEFINE Sub(n) == {s \in SUBSET evs : Cardinality(s) <= n}
           Bad == {n \in Nat : ~ \E f : SumsOver(Sub(n), f)}
<1>1. \A s \in SUBSET evs : /\ IsFiniteSet(s) /\ Cardinality(s) \in Nat
                            /\ Cardinality(s) <= Cardinality(evs)
                            /\ s # {} => /\ Pick(s) \in s
                                         /\ Cardinality(s \ {Pick(s)}) = Cardinality(s) - 1
                            /\ Cardinality(s) = 0 <=> s = {}
  <2> SUFFICES ASSUME NEW s \in SUBSET evs
               PROVE  /\ IsFiniteSet(s) /\ Cardinality(s) \in Nat
                      /\ Cardinality(s) <= Cardinality(evs)
                      /\ s # {} => /\ Pick(s) \in s
                                   /\ Cardinality(s \ {Pick(s)}) = Cardinality(s) - 1
                      /\ Cardinality(s) = 0 <=> s = {}
    BY Zenon
  <2>1. IsFiniteSet(s) /\ Cardinality(s) <= Cardinality(evs)
    BY FS_Subset
  <2>2. Cardinality(s) \in Nat /\ (Cardinality(s) = 0 <=> s = {})
    BY <2>1, FS_CardinalityType, FS_EmptySet
  <2>3. ASSUME s # {} PROVE Pick(s) \in s
    BY <2>3 DEF Pick
  <2>4. ASSUME s # {} PROVE Cardinality(s \ {Pick(s)}) = Cardinality(s) - 1
    BY <2>1, <2>3, <2>4, FS_RemoveElement
  <2> QED
    BY <2>1, <2>2, <2>3, <2>4
<1>2. Bad = {}
  <2> SUFFICES ASSUME Bad # {} PROVE FALSE
    OBVIOUS
  <2>1. PICK n \in Bad : \A k \in Bad : n <= k
    <3>1. Bad \in SUBSET Nat
      OBVIOUS
    <3> QED
      BY <3>1, LeastNat, Zenon
  <2>2. PICK g : IF n = 0 THEN TRUE ELSE SumsOver(Sub(n - 1), g)
    <3>1. CASE n = 0
      BY <3>1
    <3>2. CASE n # 0
      <4>1. n \in Nat
        OBVIOUS
      <4>2. n - 1 \in Nat /\ ~ (n <= n - 1)
        BY <3>2, <4>1
      <4>3. \E h : SumsOver(Sub(n - 1), h)
        BY <2>1, <4>2, Zenon
      <4> QED
        BY <3>2, <4>3
    <3> QED
      BY <3>1, <3>2
  <2> DEFINE f == [s \in Sub(n) |-> IF s = {} THEN 0 ELSE Tokens[Pick(s).id] + g[s \ {Pick(s)}]]
  <2>3. ASSUME NEW s \in Sub(n), s # {}
        PROVE  f[s \ {Pick(s)}] = g[s \ {Pick(s)}]
    <3> DEFINE r == s \ {Pick(s)}
    <3>1. n # 0 /\ r \in Sub(n - 1) /\ r \in Sub(n)
      BY <1>1, <2>3
    <3>2. g = [t \in Sub(n - 1) |-> IF t = {} THEN 0 ELSE Tokens[Pick(t).id] + g[t \ {Pick(t)}]]
      BY <2>2, <3>1 DEF SumsOver
    <3> HIDE DEF Sub, r
    <3>3. g[r] = IF r = {} THEN 0 ELSE Tokens[Pick(r).id] + g[r \ {Pick(r)}]
      BY <3>1, <3>2
    <3>4. f[r] = IF r = {} THEN 0 ELSE Tokens[Pick(r).id] + g[r \ {Pick(r)}]
      BY <3>1
    <3>5. f[r] = g[r]
      BY <3>3, <3>4, Zenon
    <3> QED
      BY <3>5 DEF r
  <2>4. SumsOver(Sub(n), f)
    <3> HIDE DEF Sub
    <3>1. [s \in Sub(n) |-> IF s = {} THEN 0 ELSE Tokens[Pick(s).id] + f[s \ {Pick(s)}]] = f
      <4>1. ASSUME NEW s \in Sub(n)
            PROVE  (IF s = {} THEN 0 ELSE Tokens[Pick(s).id] + f[s \ {Pick(s)}])
                     = (IF s = {} THEN 0 ELSE Tokens[Pick(s).id] + g[s \ {Pick(s)}])
        <5> HIDE DEF f
        <5> QED
          BY <2>3
      <4>2. \A s \in Sub(n) : (IF s = {} THEN 0 ELSE Tokens[Pick(s).id] + f[s \ {Pick(s)}])
                     = (IF s = {} THEN 0 ELSE Tokens[Pick(s).id] + g[s \ {Pick(s)}])
        BY <4>1, Zenon
      <4> QED
        BY <4>2
    <3> QED
      BY <3>1 DEF SumsOver
  <2> QED
    BY <2>1, <2>4
<1>3. Sub(Cardinality(evs)) = SUBSET evs
  BY <1>1
<1>4. Cardinality(evs) \in Nat
  BY FS_CardinalityType
<1>5. \E f : SumsOver(Sub(Cardinality(evs)), f)
  BY <1>2, <1>4, Zenon
<1> QED
  BY <1>3, <1>5, Zenon
\* One event after the other: what the sum over a finite set is.
LEMMA SumsUnfold ==
    ASSUME NEW evs, IsFiniteSet(evs), NEW f, SumsOver(SUBSET evs, f), NEW s \in SUBSET evs
    PROVE  /\ s = {} => f[s] = 0
           /\ s # {} => Pick(s) \in s /\ f[s] = Tokens[Pick(s).id] + f[s \ {Pick(s)}]
<1>1. f = [t \in SUBSET evs |-> IF t = {} THEN 0 ELSE Tokens[Pick(t).id] + f[t \ {Pick(t)}]]
  BY DEF SumsOver
<1>2. f[s] = IF s = {} THEN 0 ELSE Tokens[Pick(s).id] + f[s \ {Pick(s)}]
  BY <1>1
<1>3. s # {} => Pick(s) \in s
  BY DEF Pick
<1> QED
  BY <1>2, <1>3

\* The solution does not depend on the set whose subsets it is defined on.
LEMMA SumsAgree ==
    ASSUME NEW evs, IsFiniteSet(evs), NEW sub \in SUBSET evs,
           NEW f, SumsOver(SUBSET evs, f), NEW g, SumsOver(SUBSET sub, g)
    PROVE  f[sub] = g[sub]
<1> DEFINE Bad == {n \in Nat : \E t \in SUBSET sub : Cardinality(t) = n /\ f[t] # g[t]}
<1>1. IsFiniteSet(sub)
  BY FS_Subset
<1>2. Bad = {}
  <2> SUFFICES ASSUME Bad # {} PROVE FALSE
    OBVIOUS
  <2>1. PICK n \in Bad : \A k \in Bad : n <= k
    <3>1. Bad \in SUBSET Nat
      OBVIOUS
    <3> QED
      BY <3>1, LeastNat, Zenon
  <2>2. PICK t \in SUBSET sub : Cardinality(t) = n /\ f[t] # g[t]
    OBVIOUS
  <2>3. IsFiniteSet(t)
    BY <1>1, FS_Subset
  <2>4. t # {} /\ t \in SUBSET evs
    BY <1>1, <2>2, SumsUnfold
  <2>5. Pick(t) \in t /\ t \ {Pick(t)} \in SUBSET sub
    BY <2>4 DEF Pick
  <2>6. f[t \ {Pick(t)}] # g[t \ {Pick(t)}]
    BY <1>1, <2>2, <2>4, SumsUnfold
  <2>7. Cardinality(t \ {Pick(t)}) = n - 1 /\ n \in Nat /\ n - 1 \in Nat
    <3>1. Cardinality(t \ {Pick(t)}) = n - 1
      BY <2>2, <2>3, <2>5, FS_RemoveElement
    <3>2. Cardinality(t \ {Pick(t)}) \in Nat /\ n \in Nat
      BY <2>3, FS_Subset, FS_CardinalityType
    <3> QED
      BY <3>1, <3>2
  <2>8. n - 1 \in Bad
    BY <2>5, <2>6, <2>7
  <2> HIDE DEF Bad
  <2> QED
    BY <2>1, <2>7, <2>8
<1>3. Cardinality(sub) \in Nat
  BY <1>1, FS_CardinalityType
<1> QED
  BY <1>2, <1>3

\* EventTokens over a finite set of events is a natural number, zero for the
\* empty set, and the sum without one event plus the tokens of that event.
LEMMA TokensPick ==
    ASSUME NEW evs, IsFiniteSet(evs)
    PROVE  /\ EventTokens({}) = 0
           /\ evs # {} => /\ Pick(evs) \in evs
                          /\ EventTokens(evs) = Tokens[Pick(evs).id] + EventTokens(evs \ {Pick(evs)})
<1> DEFINE f == CHOOSE f : SumsOver(SUBSET evs, f)
           rest == evs \ {Pick(evs)}
           g == CHOOSE g : SumsOver(SUBSET rest, g)
           z == CHOOSE z : SumsOver(SUBSET {}, z)
<1>1. SumsOver(SUBSET evs, f)
  BY SumsExist, Zenon
<1>2. IsFiniteSet(rest)
  BY FS_Subset
<1>3. SumsOver(SUBSET rest, g)
  BY <1>2, SumsExist, Zenon
<1>4. IsFiniteSet({})
  BY FS_EmptySet
<1>5. SumsOver(SUBSET {}, z)
  BY <1>4, SumsExist, Zenon
<1> HIDE DEF f, g, z
<1>6. EventTokens(evs) = f[evs] /\ EventTokens(rest) = g[rest] /\ EventTokens({}) = z[{}]
  BY EventTokensDef DEF f, g, z
<1>7. z[{}] = 0
  BY <1>4, <1>5, SumsUnfold
<1>8. evs # {} => Pick(evs) \in evs /\ f[evs] = Tokens[Pick(evs).id] + f[rest]
  BY <1>1, SumsUnfold
<1>9. f[rest] = g[rest]
  <2>1. rest \in SUBSET evs /\ rest \in SUBSET rest
    OBVIOUS
  <2> HIDE DEF rest
  <2> QED
    BY <1>1, <1>3, <2>1, SumsAgree
<1> QED
  BY <1>6, <1>7, <1>8, <1>9
\* A sum of tokens is a natural number.
LEMMA TokensNat ==
    ASSUME NEW evs \in SUBSET Event, IsFiniteSet(evs)
    PROVE  EventTokens(evs) \in Nat
<1> DEFINE Bad == {n \in Nat : \E t \in SUBSET evs : Cardinality(t) = n /\ EventTokens(t) \notin Nat}
<1>1. Bad = {}
  <2> SUFFICES ASSUME Bad # {} PROVE FALSE
    OBVIOUS
  <2>1. PICK n \in Bad : \A k \in Bad : n <= k
    <3>1. Bad \in SUBSET Nat
      OBVIOUS
    <3> QED
      BY <3>1, LeastNat, Zenon
  <2>2. PICK t \in SUBSET evs : Cardinality(t) = n /\ EventTokens(t) \notin Nat
    OBVIOUS
  <2> DEFINE r == t \ {Pick(t)}
  <2>3. IsFiniteSet(t) /\ IsFiniteSet(r) /\ n \in Nat /\ r \in SUBSET evs
    BY FS_Subset
  <2>4. t # {} /\ Pick(t) \in t /\ EventTokens(t) = Tokens[Pick(t).id] + EventTokens(r)
    <3>1. t # {}
      <4> SUFFICES ASSUME t = {} PROVE FALSE
        OBVIOUS
      <4>1. EventTokens({}) = 0
        BY <2>3, TokensPick
      <4> QED
        BY <2>2, <4>1
    <3> QED
      BY <2>3, <3>1, TokensPick
  <2>5. Tokens[Pick(t).id] \in Nat
    BY <2>4, PlannerAssumption DEF Event
  <2>6. EventTokens(r) \notin Nat
    BY <2>2, <2>4, <2>5
  <2>7. Cardinality(r) = n - 1 /\ Cardinality(r) \in Nat
    BY <2>2, <2>3, <2>4, FS_RemoveElement, FS_CardinalityType
  <2> HIDE DEF r
  <2>8. n - 1 \in Bad
    BY <2>3, <2>6, <2>7
  <2> HIDE DEF Bad
  <2> QED
    BY <2>1, <2>3, <2>8
<1>2. Cardinality(evs) \in Nat
  BY FS_CardinalityType
<1> QED
  BY <1>1, <1>2

\* Any event may be taken out of the sum first.
LEMMA TokensRemove ==
    ASSUME NEW evs \in SUBSET Event, IsFiniteSet(evs), NEW e \in evs
    PROVE  /\ EventTokens(evs) = Tokens[e.id] + EventTokens(evs \ {e})
           /\ Tokens[e.id] \in Nat \ {0} /\ EventTokens(evs \ {e}) \in Nat
<1> DEFINE Splits(t, d) == EventTokens(t) = Tokens[d.id] + EventTokens(t \ {d})
           Bad == {n \in Nat : \E t \in SUBSET evs : Cardinality(t) = n /\ \E d \in t : ~ Splits(t, d)}
<1>0. \A d \in evs : Tokens[d.id] \in Nat \ {0}
  BY PlannerAssumption DEF Event
<1>1. Bad = {}
  <2> SUFFICES ASSUME Bad # {} PROVE FALSE
    OBVIOUS
  <2>1. PICK n \in Bad : \A k \in Bad : n <= k
    <3>1. Bad \in SUBSET Nat
      OBVIOUS
    <3> QED
      BY <3>1, LeastNat, Zenon
  <2>2. PICK t \in SUBSET evs : Cardinality(t) = n /\ \E d \in t : ~ Splits(t, d)
    BY Zenon
  <2>3. PICK d \in t : ~ Splits(t, d)
    BY <2>2, Zenon
  <2> DEFINE p == Pick(t)
  <2>4. IsFiniteSet(t) /\ n \in Nat
    BY FS_Subset
  <2>5. p \in t /\ EventTokens(t) = Tokens[p.id] + EventTokens(t \ {p})
    BY <2>3, <2>4, TokensPick
  <2>6. p # d
    BY <2>3, <2>5
  <2> HIDE DEF p
  <2>7. ASSUME NEW c \in t PROVE /\ IsFiniteSet(t \ {c}) /\ Cardinality(t \ {c}) = n - 1
                                 /\ n - 1 \in Nat /\ t \ {c} \in SUBSET evs
    <3>1. IsFiniteSet(t \ {c}) /\ Cardinality(t \ {c}) = n - 1
      BY <2>2, <2>4, FS_RemoveElement
    <3> QED
      BY <3>1, FS_CardinalityType
  <2>8. n - 1 \notin Bad
    <3> HIDE DEF Bad
    <3> QED
      BY <2>1, <2>4, <2>7, <2>5
  <2>9. ASSUME NEW c \in t, NEW b \in t \ {c} PROVE Splits(t \ {c}, b)
    BY <2>7, <2>8, Zenon
  <2>10. Splits(t \ {p}, d) /\ Splits(t \ {d}, p)
    BY <2>5, <2>6, <2>9
  <2>11. (t \ {p}) \ {d} = (t \ {d}) \ {p}
    OBVIOUS
  <2>12. EventTokens((t \ {p}) \ {d}) \in Nat /\ EventTokens(t \ {p}) \in Nat /\ EventTokens(t \ {d}) \in Nat
    <3>1. IsFiniteSet(t \ {p}) /\ IsFiniteSet(t \ {d}) /\ IsFiniteSet((t \ {p}) \ {d})
      BY <2>4, FS_Subset
    <3> QED
      BY <3>1, TokensNat
  <2>13. Tokens[p.id] \in Nat /\ Tokens[d.id] \in Nat
    BY <1>0, <2>5
  <2> QED
    BY <2>3, <2>5, <2>10, <2>11, <2>12, <2>13
<1>2. Cardinality(evs) \in Nat
  BY FS_CardinalityType
<1>3. Splits(evs, e)
  BY <1>1, <1>2, Zenon
<1>4. EventTokens(evs \ {e}) \in Nat
  BY FS_Subset, TokensNat
<1> QED
  BY <1>0, <1>3, <1>4

\* One event more.
LEMMA TokensAdd ==
    ASSUME NEW evs \in SUBSET Event, IsFiniteSet(evs), NEW e \in Event, e \notin evs
    PROVE  /\ EventTokens(evs \cup {e}) = Tokens[e.id] + EventTokens(evs)
           /\ Tokens[e.id] \in Nat \ {0} /\ EventTokens(evs) \in Nat
<1>1. IsFiniteSet(evs \cup {e}) /\ evs \cup {e} \in SUBSET Event
  BY FS_AddElement
<1>2. (evs \cup {e}) \ {e} = evs
  OBVIOUS
<1> QED
  BY <1>1, <1>2, TokensRemove

\* The sum over two disjoint sets.
LEMMA TokensUnion ==
    ASSUME NEW a \in SUBSET Event, IsFiniteSet(a), NEW b \in SUBSET Event, IsFiniteSet(b),
           a \cap b = {}
    PROVE  /\ EventTokens(a \cup b) = EventTokens(a) + EventTokens(b)
           /\ EventTokens(a) \in Nat /\ EventTokens(b) \in Nat
<1> DEFINE Adds(t) == EventTokens(a \cup t) = EventTokens(a) + EventTokens(t)
           Bad == {n \in Nat : \E t \in SUBSET b : Cardinality(t) = n /\ ~ Adds(t)}
<1>0. EventTokens(a) \in Nat
  BY TokensNat
<1>1. Bad = {}
  <2> SUFFICES ASSUME Bad # {} PROVE FALSE
    OBVIOUS
  <2>1. PICK n \in Bad : \A k \in Bad : n <= k
    <3>1. Bad \in SUBSET Nat
      OBVIOUS
    <3> QED
      BY <3>1, LeastNat, Zenon
  <2>2. PICK t \in SUBSET b : Cardinality(t) = n /\ ~ Adds(t)
    BY Zenon
  <2>3. IsFiniteSet(t) /\ n \in Nat /\ t \in SUBSET Event
    BY FS_Subset
  <2>4. t # {}
    <3> SUFFICES ASSUME t = {} PROVE FALSE
      OBVIOUS
    <3>1. a \cup t = a /\ EventTokens(t) = 0
      BY TokensPick
    <3> QED
      BY <1>0, <2>2, <3>1
  <2>5. PICK e \in t : TRUE
    BY <2>4
  <2> DEFINE r == t \ {e}
  <2>6. IsFiniteSet(r) /\ Cardinality(r) = n - 1 /\ Cardinality(r) \in Nat /\ r \in SUBSET b
    BY <2>2, <2>3, FS_RemoveElement, FS_CardinalityType
  <2>7. Adds(r)
    <3>1. n - 1 \notin Bad
      <4> HIDE DEF Bad, r
      <4> QED
        BY <2>1, <2>3, <2>6
    <3> QED
      BY <2>6, <3>1, Zenon
  <2>8. EventTokens(t) = Tokens[e.id] + EventTokens(r) /\ Tokens[e.id] \in Nat /\ EventTokens(r) \in Nat
    BY <2>3, TokensRemove
  <2>9. e \notin a \cup r /\ a \cup t = (a \cup r) \cup {e} /\ IsFiniteSet(a \cup r)
    BY <2>6, FS_Union
  <2>10. EventTokens(a \cup t) = Tokens[e.id] + EventTokens(a \cup r)
    <3>1. a \cup r \in SUBSET Event /\ e \in Event
      BY <2>3
    <3> HIDE DEF r
    <3> QED
      BY <2>9, <3>1, TokensAdd
  <2> QED
    BY <1>0, <2>2, <2>7, <2>8, <2>10
<1>2. Cardinality(b) \in Nat
  BY FS_CardinalityType
<1>3. Adds(b)
  BY <1>1, <1>2, Zenon
<1> QED
  BY <1>0, <1>3, TokensNat

\* More events have no fewer tokens.
LEMMA TokensMonotone ==
    ASSUME NEW a \in SUBSET Event, IsFiniteSet(a), NEW b \in SUBSET a
    PROVE  /\ EventTokens(b) <= EventTokens(a)
           /\ EventTokens(a) \in Nat /\ EventTokens(b) \in Nat
<1>1. IsFiniteSet(b) /\ IsFiniteSet(a \ b) /\ a = b \cup (a \ b) /\ b \cap (a \ b) = {}
  BY FS_Subset
<1>2. EventTokens(a) = EventTokens(b) + EventTokens(a \ b) /\ EventTokens(b) \in Nat /\ EventTokens(a \ b) \in Nat
  BY <1>1, TokensUnion
<1> QED
  BY <1>2

-----------------------------------------------------------------------------
(* One slice: within the limits, and up to a limit *)

\* A log of one stream: finitely many events, at most one per sequence.
StreamLog(evs, s) ==
    /\ evs \in SUBSET Event /\ IsFiniteSet(evs)
    /\ \A e \in evs : e.stream = s
    /\ \A e, f \in evs : e.seq = f.seq => e = f

\* The new events of a slice are the first events beyond the cursor; they
\* keep to both limits, unless one event alone has too many tokens.
LEMMA NewEventsFit ==
    ASSUME NEW s \in Streams, NEW evs, StreamLog(evs, s), NEW c \in Nat, NEW t \in Nat \ {0},
           NEW new, new = NewEvents(evs, s, c, t), new # {}
    PROVE  /\ Cardinality(new) <= EventLimit
           /\ Cardinality(new) = 1 \/ EventTokens(new) <= TokenLimit
<1> DEFINE rows == {e \in evs : e.stream = s /\ e.seq > c}
           upTo(e) == {f \in rows : f.seq <= e.seq}
           page == SessionEvents(evs, s, c, EventLimit)
           cut == EventsThrough(page, t)
<1>0. evs \in SUBSET Event /\ IsFiniteSet(evs)
  BY DEF StreamLog
<1>1. page = {e \in rows : Cardinality(upTo(e)) <= EventLimit}
  BY DEF SessionEvents
<1>2. cut = {e \in page : e.seq <= t}
  BY DEF EventsThrough
<1> DEFINE before(e) == {f \in cut : f.seq <= e.seq}
           fits(e) == \/ Cardinality(before(e)) = 1
                      \/ EventTokens(before(e)) <= TokenLimit
<1>3. new = {e \in cut : \A f \in before(e) : fits(f)}
  BY DEF NewEvents, BoundedEvents
<1>4. new \in SUBSET evs /\ new \in SUBSET Event /\ IsFiniteSet(new)
  <2>1. new \in SUBSET evs
    BY <1>1, <1>2, <1>3
  <2> QED
    BY <1>0, <2>1, FS_Subset
<1>5. PICK m \in new : \A f \in new : f.seq <= m.seq
  <2> DEFINE T == {e.seq : e \in new}
  <2>1. T \in SUBSET (0..t) /\ T # {}
    <3>1. \A e \in new : e.seq \in 0..t
      BY <1>2, <1>3, <1>4 DEF Event
    <3> QED
      BY <3>1
  <2>2. \E m \in T : \A n \in T : n <= m
    BY <2>1, GreatestNat
  <2> QED
    BY <2>2
<1>6. m \in cut /\ m \in page /\ m \in rows /\ Cardinality(upTo(m)) <= EventLimit /\ fits(m)
  <2>1. m \in cut /\ \A f \in before(m) : fits(f)
    BY <1>3
  <2>2. m \in page /\ m \in rows /\ Cardinality(upTo(m)) <= EventLimit
    BY <1>1, <1>2, <2>1
  <2>3. m \in before(m)
    <3>1. m.seq \in Nat
      BY <1>4 DEF Event
    <3> QED
      BY <2>1, <3>1
  <2> QED
    BY <2>1, <2>2, <2>3, Zenon
<1>7. new = before(m)
  <2>1. ASSUME NEW f \in before(m) PROVE f \in new
    <3>1. \A g \in cut : g.seq <= f.seq => g.seq <= m.seq
      <4>1. cut \subseteq Event
        BY <1>0, <1>1, <1>2
      <4> QED
        BY <1>6, <2>1, <4>1 DEF Event
    <3>2. \A g \in before(f) : fits(g)
      BY <1>3, <3>1, Zenon
    <3> QED
      BY <1>3, <3>2, Zenon
  <2>2. ASSUME NEW f \in new PROVE f \in before(m)
    BY <1>3, <1>5
  <2> QED
    BY <2>1, <2>2
<1>8. Cardinality(new) <= EventLimit
  <2>1. new \in SUBSET upTo(m)
    BY <1>1, <1>2, <1>3, <1>5
  <2>2. IsFiniteSet(upTo(m))
    BY <1>0, FS_Subset
  <2>3. Cardinality(new) <= Cardinality(upTo(m)) /\ Cardinality(new) \in Nat /\ Cardinality(upTo(m)) \in Nat
    BY <1>4, <2>1, <2>2, FS_Subset, FS_CardinalityType
  <2> QED
    BY <1>6, <2>3, PlannerAssumption
<1>9. Cardinality(new) = 1 \/ EventTokens(new) <= TokenLimit
  BY <1>6, <1>7, Zenon
<1> QED
  BY <1>8, <1>9

\* The first event that waits behind a slice's new events does not fit: it is
\* one too many, or its tokens are.
LEMMA NewEventsMaximal ==
    ASSUME NEW s \in Streams, NEW evs, StreamLog(evs, s), NEW c \in Nat, NEW t \in Nat \ {0},
           NEW new, new = NewEvents(evs, s, c, t), new # {},
           NEW e \in evs, e.seq <= t, e.seq > ToSequence(new),
           \A f \in evs : f.seq <= t /\ f.seq > ToSequence(new) => e.seq <= f.seq
    PROVE  Cardinality(new) = EventLimit \/ EventTokens(new \cup {e}) > TokenLimit
<1> DEFINE rows == {d \in evs : d.stream = s /\ d.seq > c}
           upTo(d) == {f \in rows : f.seq <= d.seq}
           page == SessionEvents(evs, s, c, EventLimit)
           cut == EventsThrough(page, t)
           before(d) == {f \in cut : f.seq <= d.seq}
           fits(d) == \/ Cardinality(before(d)) = 1
                      \/ EventTokens(before(d)) <= TokenLimit
<1>0. /\ evs \in SUBSET Event /\ IsFiniteSet(evs)
      /\ \A d \in evs : d.stream = s /\ d.seq \in Nat
      /\ \A d, f \in evs : d.seq = f.seq => d = f
  BY DEF StreamLog, Event
<1>1. page = {d \in rows : Cardinality(upTo(d)) <= EventLimit}
  BY DEF SessionEvents
<1>2. cut = {d \in page : d.seq <= t}
  BY DEF EventsThrough
<1>3. new = {d \in cut : \A f \in before(d) : fits(f)}
  BY DEF NewEvents, BoundedEvents
<1>4. new \in SUBSET rows /\ IsFiniteSet(new) /\ new \in SUBSET Event /\ \A d \in new : d.seq <= t
  <2>1. new \in SUBSET rows /\ \A d \in new : d.seq <= t
    BY <1>1, <1>2, <1>3
  <2> QED
    BY <1>0, <2>1, FS_Subset
<1>5. /\ \A d \in new : d.seq <= ToSequence(new)
      /\ \E d \in new : d.seq = ToSequence(new)
  <2>1. ToSequence(new) \in {d.seq : d \in new} /\ \A d \in new : d.seq <= ToSequence(new)
    BY <1>4, ToSequenceMax
  <2> QED
    BY <2>1
<1>6. PICK m \in new : m.seq = ToSequence(new)
  BY <1>5
<1>7. e \in rows /\ e \notin new /\ m \in evs
  BY <1>0, <1>4, <1>5, <1>6
<1>8. upTo(e) = new \cup {e}
  <2>1. ASSUME NEW f \in upTo(e), f # e PROVE f \in new
    <3>1. f \in evs /\ f.seq > c /\ f.seq <= e.seq /\ f.seq # e.seq
      BY <1>0, <2>1
    <3>2. ~ (f.seq > m.seq)
      BY <1>0, <1>6, <1>7, <3>1
    <3>3. f.seq <= m.seq
      BY <1>0, <1>7, <3>1, <3>2
    <3> QED
      BY <1>0, <3>1, <3>3, NewEventsPrefix
  <2>2. ASSUME NEW f \in new PROVE f \in upTo(e)
    BY <1>0, <1>4, <1>5, <1>6, <1>7
  <2>3. e \in upTo(e)
    BY <1>0, <1>7
  <2> HIDE DEF upTo
  <2> QED
    BY <2>1, <2>2, <2>3
<1>9. Cardinality(new \cup {e}) = Cardinality(new) + 1 /\ Cardinality(new) \in Nat
  BY <1>4, <1>7, FS_AddElement, FS_CardinalityType
<1>10. Cardinality(new) <= EventLimit
  BY NewEventsFit
<1>11. CASE e \notin page
  <2>1. ~ (Cardinality(new \cup {e}) <= EventLimit)
    BY <1>1, <1>7, <1>8, <1>11
  <2> QED
    BY <1>9, <1>10, <2>1, PlannerAssumption
<1>12. CASE e \in page
  <2>1. e \in cut
    BY <1>2, <1>12
  <2>2. before(e) = new \cup {e}
    <3>1. before(e) \subseteq upTo(e)
      BY <1>1, <1>2
    <3>2. new \cup {e} \subseteq before(e)
      BY <1>0, <1>3, <1>8, <2>1
    <3> HIDE DEF before, upTo
    <3> QED
      BY <1>8, <3>1, <3>2
  <2>3. ~ fits(e)
    <3>1. PICK f \in before(e) : ~ fits(f)
      BY <1>3, <1>7, <2>1, Zenon
    <3>2. ASSUME f \in new PROVE FALSE
      <4>1. f \in before(f)
        BY <1>0, <1>3, <1>4, <3>2
      <4> QED
        BY <1>3, <3>1, <3>2, <4>1, Zenon
    <3>3. f = e
      BY <2>2, <3>1, <3>2, Zenon
    <3> QED
      BY <3>1, <3>3, Zenon
  <2>4. ~ (EventTokens(new \cup {e}) <= TokenLimit)
    BY <2>2, <2>3, Zenon
  <2>5. EventTokens(new \cup {e}) \in Nat
    BY <1>0, <1>4, TokensNat, FS_AddElement
  <2> QED
    BY <2>4, <2>5, PlannerAssumption
<1> QED
  BY <1>11, <1>12

\* The overlap of a slice is a run of the last events up to the cursor.
LEMMA OverlapShape ==
    ASSUME NEW s \in Streams, NEW evs, StreamLog(evs, s), NEW c \in Nat, NEW used \in Nat,
           NEW ov, ov = OverlapEvents(evs, s, c, used)
    PROVE  /\ ov \in SUBSET {e \in evs : e.seq <= c}
           /\ \A e \in ov, f \in evs : f.seq >= e.seq /\ f.seq <= c => f \in ov
<1> DEFINE rows == {e \in evs : e.stream = s /\ e.seq <= c}
           from(e) == {f \in rows : f.seq >= e.seq}
           before == SessionEventsBefore(evs, s, c, Overlap)
           tail(e) == {f \in before : f.seq >= e.seq}
<1>0. /\ evs \in SUBSET Event /\ IsFiniteSet(evs)
      /\ \A d \in evs : d.stream = s /\ d.seq \in Nat
  BY DEF StreamLog, Event
<1>1. before = {e \in rows : Cardinality(from(e)) <= Overlap}
  BY DEF SessionEventsBefore
<1>2. CASE c = 0 \/ Overlap = 0 \/ used >= TokenLimit
  <2>1. ov = {}
    BY <1>2 DEF OverlapEvents
  <2> QED
    BY <2>1
<1>3. CASE ~ (c = 0 \/ Overlap = 0 \/ used >= TokenLimit)
  <2>1. ov = {e \in before : EventTokens(tail(e)) <= TokenLimit - used}
    BY <1>3 DEF OverlapEvents
  <2>2. ov \in SUBSET {e \in evs : e.seq <= c}
    BY <1>1, <2>1
  <2>3. ASSUME NEW e \in ov, NEW f \in evs, f.seq >= e.seq, f.seq <= c PROVE f \in ov
    <3>1. e \in evs /\ e \in before /\ f \in rows /\ e.seq \in Nat /\ f.seq \in Nat
      BY <1>0, <1>1, <2>1, <2>3
    <3>2. IsFiniteSet(from(e)) /\ from(f) \in SUBSET from(e)
      <4>1. \A d \in evs : d.seq \in Nat
        BY <1>0
      <4>2. from(e) \in SUBSET evs /\ from(f) \in SUBSET from(e)
        BY <2>3, <3>1, <4>1
      <4> QED
        BY <1>0, <4>2, FS_Subset
    <3>3. /\ Cardinality(from(f)) <= Cardinality(from(e))
          /\ Cardinality(from(f)) \in Nat /\ Cardinality(from(e)) \in Nat
      BY <3>2, FS_Subset, FS_CardinalityType
    <3>4. f \in before
      BY <1>1, <3>1, <3>3, PlannerAssumption
    <3>5. before \in SUBSET evs
      BY <1>1
    <3>6. tail(e) \in SUBSET Event /\ IsFiniteSet(tail(e)) /\ tail(f) \in SUBSET tail(e)
      <4>1. \A d \in before : d.seq \in Nat
        BY <1>0, <3>5
      <4>2. tail(f) \in SUBSET tail(e)
        <5> HIDE DEF before
        <5> QED
          BY <2>3, <3>1, <4>1
      <4>3. tail(e) \in SUBSET evs
        BY <3>5
      <4> QED
        BY <1>0, <4>2, <4>3, FS_Subset
    <3>7. /\ EventTokens(tail(f)) <= EventTokens(tail(e))
          /\ EventTokens(tail(f)) \in Nat /\ EventTokens(tail(e)) \in Nat
      BY <3>6, TokensMonotone
    <3>8. EventTokens(tail(e)) <= TokenLimit - used
      BY <2>1
    <3>9. EventTokens(tail(f)) <= TokenLimit - used
      BY <3>7, <3>8, PlannerAssumption
    <3> QED
      BY <2>1, <3>4, <3>9
  <2> QED
    BY <2>2, <2>3
<1> QED
  BY <1>2, <1>3

\* The overlap keeps to its limit and to the tokens that the new events leave.
LEMMA OverlapFits ==
    ASSUME NEW s \in Streams, NEW evs, StreamLog(evs, s), NEW c \in Nat, NEW used \in Nat,
           NEW ov, ov = OverlapEvents(evs, s, c, used)
    PROVE  /\ Cardinality(ov) <= Overlap
           /\ ov = {} \/ EventTokens(ov) + used <= TokenLimit
<1> DEFINE rows == {e \in evs : e.stream = s /\ e.seq <= c}
           from(e) == {f \in rows : f.seq >= e.seq}
           before == SessionEventsBefore(evs, s, c, Overlap)
           tail(e) == {f \in before : f.seq >= e.seq}
<1>0. /\ evs \in SUBSET Event /\ IsFiniteSet(evs)
      /\ \A d \in evs : d.stream = s /\ d.seq \in Nat
  BY DEF StreamLog, Event
<1>1. before = {e \in rows : Cardinality(from(e)) <= Overlap}
  BY DEF SessionEventsBefore
<1>2. CASE ov = {}
  <2>1. Cardinality(ov) = 0
    BY <1>2, FS_EmptySet
  <2> QED
    BY <1>2, <2>1, PlannerAssumption
<1>3. CASE ov # {}
  <2>1. ov = {e \in before : EventTokens(tail(e)) <= TokenLimit - used}
    BY <1>3 DEF OverlapEvents
  <2>2. ov \in SUBSET rows /\ ov \in SUBSET before /\ before \in SUBSET evs
    BY <1>1, <2>1
  <2>3. PICK m \in ov : \A f \in ov : m.seq <= f.seq
    <3> DEFINE T == {e.seq : e \in ov}
    <3>1. T \in SUBSET Nat /\ T # {}
      BY <1>0, <1>3, <2>2
    <3>2. \E m \in T : \A n \in T : m <= n
      BY <3>1, LeastNat
    <3> QED
      BY <3>2
  <2>4. \A f \in ov : f.seq >= m.seq
    <3>1. \A f \in ov : f.seq \in Nat
      BY <1>0, <2>2
    <3> QED
      BY <2>3, <3>1
  <2>5. ov \in SUBSET from(m) /\ ov \in SUBSET tail(m)
    BY <2>2, <2>4
  <2>6. /\ from(m) \in SUBSET evs /\ tail(m) \in SUBSET evs
        /\ IsFiniteSet(from(m)) /\ IsFiniteSet(tail(m)) /\ tail(m) \in SUBSET Event
    <3>1. from(m) \in SUBSET evs /\ tail(m) \in SUBSET evs
      BY <2>2
    <3> QED
      BY <1>0, <3>1, FS_Subset
  <2>7. Cardinality(ov) <= Overlap
    <3>1. /\ Cardinality(ov) <= Cardinality(from(m)) /\ IsFiniteSet(ov)
      BY <2>5, <2>6, FS_Subset
    <3>2. Cardinality(ov) \in Nat /\ Cardinality(from(m)) \in Nat
      BY <2>6, <3>1, FS_CardinalityType
    <3>3. Cardinality(from(m)) <= Overlap
      BY <1>1, <2>2
    <3> QED
      BY <3>1, <3>2, <3>3, PlannerAssumption
  <2>8. /\ EventTokens(ov) <= EventTokens(tail(m))
        /\ EventTokens(ov) \in Nat /\ EventTokens(tail(m)) \in Nat
    BY <2>5, <2>6, TokensMonotone
  <2>9. EventTokens(tail(m)) <= TokenLimit - used
    BY <2>1
  <2> QED
    BY <2>7, <2>8, <2>9, PlannerAssumption
<1> QED
  BY <1>2, <1>3

\* The last event that the overlap leaves out does not fit either.
LEMMA OverlapMaximal ==
    ASSUME NEW s \in Streams, NEW evs, StreamLog(evs, s), NEW c \in Nat, NEW used \in Nat,
           NEW ov, ov = OverlapEvents(evs, s, c, used),
           NEW e \in evs, e.seq <= c, e \notin ov,
           \A f \in evs : f.seq <= c /\ f \notin ov => f.seq <= e.seq
    PROVE  Cardinality(ov) = Overlap \/ EventTokens(ov \cup {e}) + used > TokenLimit
<1> DEFINE rows == {d \in evs : d.stream = s /\ d.seq <= c}
           from(d) == {f \in rows : f.seq >= d.seq}
           before == SessionEventsBefore(evs, s, c, Overlap)
           tail(d) == {f \in before : f.seq >= d.seq}
<1>0. /\ evs \in SUBSET Event /\ IsFiniteSet(evs) /\ e \in Event /\ e.seq > 0
      /\ \A d \in evs : d.stream = s /\ d.seq \in Nat
      /\ \A d, f \in evs : d.seq = f.seq => d = f
  BY DEF StreamLog, Event
<1>1. before = {d \in rows : Cardinality(from(d)) <= Overlap}
  BY DEF SessionEventsBefore
<1>2. /\ ov \in SUBSET {d \in evs : d.seq <= c}
      /\ \A d \in ov, f \in evs : f.seq >= d.seq /\ f.seq <= c => f \in ov
  BY OverlapShape
<1>3. IsFiniteSet(ov) /\ ov \in SUBSET Event
  BY <1>0, <1>2, FS_Subset
<1>4. /\ EventTokens(ov \cup {e}) = Tokens[e.id] + EventTokens(ov)
      /\ Tokens[e.id] \in Nat \ {0} /\ EventTokens(ov) \in Nat
  BY <1>0, <1>3, TokensAdd
<1>5. /\ Cardinality(ov \cup {e}) = Cardinality(ov) + 1 /\ Cardinality(ov) \in Nat
      /\ Cardinality(ov) <= Overlap
  BY <1>3, FS_AddElement, FS_CardinalityType, OverlapFits
<1>6. CASE c = 0
  BY <1>0, <1>6
<1>7. CASE Overlap = 0
  BY <1>5, <1>7
<1>8. CASE used >= TokenLimit
  BY <1>4, <1>8, PlannerAssumption
<1>9. CASE ~ (c = 0 \/ Overlap = 0 \/ used >= TokenLimit)
  <2>1. ov = {d \in before : EventTokens(tail(d)) <= TokenLimit - used}
    BY <1>9 DEF OverlapEvents
  <2>2. from(e) = ov \cup {e}
    <3>1. ASSUME NEW f \in from(e), f \notin ov PROVE f = e
      <4>1. f \in evs /\ f.seq <= c /\ f.seq >= e.seq
        BY <3>1
      <4>2. f.seq <= e.seq
        BY <3>1, <4>1
      <4>3. f.seq = e.seq
        BY <1>0, <4>1, <4>2
      <4> QED
        BY <1>0, <4>1, <4>3
    <3>2. ASSUME NEW f \in ov PROVE f \in from(e)
      <4>1. f \in evs /\ f.seq <= c /\ f.stream = s
        BY <1>0, <1>2
      <4>2. ~ (e.seq >= f.seq)
        BY <1>2
      <4>3. f.seq >= e.seq
        BY <1>0, <4>1, <4>2
      <4> QED
        BY <4>1, <4>3
    <3>3. e \in from(e)
      BY <1>0
    <3> HIDE DEF from
    <3> QED
      BY <3>1, <3>2, <3>3
  <2>3. CASE e \notin before
    <3>1. ~ (Cardinality(ov \cup {e}) <= Overlap)
      BY <1>0, <1>1, <2>2, <2>3
    <3> QED
      BY <1>5, <3>1, PlannerAssumption
  <2>4. CASE e \in before
    <3>1. tail(e) = ov \cup {e}
      <4>1. tail(e) \subseteq from(e)
        BY <1>1
      <4>2. ov \cup {e} \subseteq tail(e)
        <5>1. ov \cup {e} \subseteq before
          BY <2>1, <2>4
        <5>2. \A f \in ov \cup {e} : f.seq >= e.seq
          BY <2>2
        <5> QED
          BY <5>1, <5>2
      <4> HIDE DEF tail, from
      <4> QED
        BY <2>2, <4>1, <4>2
    <3>2. ~ (EventTokens(ov \cup {e}) <= TokenLimit - used)
      <4> HIDE DEF tail
      <4> QED
        BY <2>1, <2>4, <3>1
    <3> QED
      BY <1>4, <3>2, PlannerAssumption
  <2> QED
    BY <2>3, <2>4
<1> QED
  BY <1>6, <1>7, <1>8, <1>9

-----------------------------------------------------------------------------
(* The walk over a log *)

\* The inductive invariant of the walk: every slice is what NextSlice returned
\* for the cursor it started from, and the slices before a cursor have consumed
\* exactly the events up to it.
WalkInv ==
    /\ WalkTypeOK
    /\ \A i \in DOMAIN taken :
          /\ taken[i].new # {}
          /\ taken[i].new = NewEvents(log, Stream, taken[i].cursor, through)
          /\ taken[i].overlap = OverlapEvents(log, Stream, taken[i].cursor,
                                              EventTokens(taken[i].new))
    /\ \A k \in DOMAIN taken :
          UNION {taken[j].new : j \in 1..(k - 1)} = {e \in log : e.seq <= taken[k].cursor}
    /\ UNION {taken[j].new : j \in DOMAIN taken} = {e \in log : e.seq <= position}

\* The logs of the walk are logs of its stream.
LEMMA LogsAreStreamLogs ==
    ASSUME NEW evs \in Logs
    PROVE  /\ StreamLog(evs, Stream) /\ Stream \in Streams
           /\ \A e \in evs : e.seq \in 1..LastSeq
<1>1. Stream \in Streams
  BY LogsAssumption DEF Stream
<1>2. \A e \in evs : e.seq \in 1..LastSeq
  BY LogsAssumption DEF Event
<1>3. IsFiniteSet(evs)
  <2> DEFINE f == [e \in evs |-> e.seq]
  <2>1. f \in Injection(evs, 1..LastSeq)
    <3>1. f \in [evs -> 1..LastSeq]
      BY <1>2
    <3>2. \A a, b \in evs : f[a] = f[b] => a = b
      BY LogsAssumption
    <3> QED
      BY <3>1, <3>2 DEF Injection, IsInjective
  <2>2. IsFiniteSet(1..LastSeq)
    BY LogsAssumption, FS_Interval
  <2> QED
    BY <2>1, <2>2, FS_Injection, Zenon
<1> QED
  BY <1>1, <1>2, <1>3, LogsAssumption DEF StreamLog

\* A bound beyond every event stands for none.
Bound(t) == IF t = 0 THEN LastSeq + 1 ELSE t

\* Without a bound, the planner cuts as with one beyond every event.
LEMMA BoundedAlike ==
    ASSUME NEW evs \in Logs, NEW c \in Nat, NEW t \in 0..LastSeq
    PROVE  /\ Bound(t) \in Nat \ {0}
           /\ NewEvents(evs, Stream, c, t) = NewEvents(evs, Stream, c, Bound(t))
           /\ \A e \in evs : e.seq <= Bound(t) <=> (t = 0 \/ e.seq <= t)
<1>1. \A e \in evs : e.seq \in 1..LastSeq
  BY LogsAreStreamLogs
<1>2. LastSeq \in Nat
  BY LogsAssumption
<1>3. SessionEvents(evs, Stream, c, EventLimit) \in SUBSET evs
  BY DEF SessionEvents
<1>4. EventsThrough(SessionEvents(evs, Stream, c, EventLimit), t) =
         EventsThrough(SessionEvents(evs, Stream, c, EventLimit), Bound(t))
  <2>1. CASE t = 0
    BY <1>1, <1>2, <1>3, <2>1 DEF EventsThrough, Bound
  <2>2. CASE t # 0
    BY <2>2 DEF Bound
  <2> QED
    BY <2>1, <2>2
<1>5. Bound(t) \in Nat \ {0} /\ \A e \in evs : e.seq <= Bound(t) <=> (t = 0 \/ e.seq <= t)
  BY <1>1, <1>2 DEF Bound
<1> QED
  BY <1>4, <1>5 DEF NewEvents

\* One slice of a log: what it takes, where it moves the cursor to, and what it
\* means that there is none.
LEMMA SliceOfLog ==
    ASSUME NEW evs \in Logs, NEW c \in 0..LastSeq, NEW t \in 0..LastSeq,
           NEW new, new = NewEvents(evs, Stream, c, t)
    PROVE  /\ new \in SUBSET {e \in evs : e.seq > c /\ (t = 0 \/ e.seq <= t)}
           /\ EventTokens(new) \in Nat
           /\ OverlapEvents(evs, Stream, c, EventTokens(new)) \in SUBSET {e \in evs : e.seq <= c}
           /\ new # {} =>
                /\ ToSequence(new) \in 0..LastSeq
                /\ {e \in evs : e.seq <= ToSequence(new)} = {e \in evs : e.seq <= c} \cup new
           /\ new = {} => \A e \in evs : e.seq > c => ~ (t = 0 \/ e.seq <= t)
<1>1. /\ StreamLog(evs, Stream) /\ Stream \in Streams /\ LastSeq \in Nat /\ c \in Nat
      /\ \A e \in evs : e.seq \in 1..LastSeq /\ e.stream = Stream
      /\ evs \in SUBSET Event /\ IsFiniteSet(evs)
      /\ \A e, f \in evs : e.stream = f.stream /\ e.seq = f.seq => e = f
  BY LogsAreStreamLogs, LogsAssumption DEF StreamLog
<1>2. /\ Bound(t) \in Nat \ {0} /\ new = NewEvents(evs, Stream, c, Bound(t))
      /\ \A e \in evs : e.seq <= Bound(t) <=> (t = 0 \/ e.seq <= t)
  BY <1>1, BoundedAlike
<1> HIDE DEF Bound
<1>3. /\ new \in SUBSET {e \in evs : e.stream = Stream /\ e.seq > c /\ e.seq <= Bound(t)}
      /\ \A e \in evs, f \in new : e.stream = Stream /\ e.seq > c /\ e.seq <= f.seq => e \in new
  BY <1>1, <1>2, NewEventsPrefix
<1>4. new \in SUBSET {e \in evs : e.seq > c /\ (t = 0 \/ e.seq <= t)}
  BY <1>2, <1>3
<1>5. IsFiniteSet(new) /\ new \in SUBSET Event /\ EventTokens(new) \in Nat
  BY <1>1, <1>4, FS_Subset, TokensNat
<1>6. OverlapEvents(evs, Stream, c, EventTokens(new)) \in SUBSET {e \in evs : e.seq <= c}
  BY <1>1, <1>5, OverlapShape
<1>7. ASSUME new # {}
      PROVE  /\ ToSequence(new) \in 0..LastSeq
             /\ {e \in evs : e.seq <= ToSequence(new)} = {e \in evs : e.seq <= c} \cup new
  <2>1. /\ ToSequence(new) \in {e.seq : e \in new}
        /\ \A e \in new : e.seq <= ToSequence(new)
    <3>1. \A e \in new : e.seq <= LastSeq
      BY <1>1, <1>3
    <3> QED
      BY <1>1, <1>5, <1>7, <3>1, ToSequenceMax
  <2>2. PICK m \in new : m.seq = ToSequence(new)
    BY <2>1
  <2>3. m \in evs /\ m.seq \in 1..LastSeq /\ m.seq > c
    BY <1>1, <1>3
  <2>4. \A e \in evs : e.seq <= m.seq <=> e.seq <= c \/ e \in new
    <3> SUFFICES ASSUME NEW e \in evs PROVE e.seq <= m.seq <=> e.seq <= c \/ e \in new
      OBVIOUS
    <3>1. e.seq \in Nat /\ e.stream = Stream
      BY <1>1
    <3>2. e.seq <= m.seq /\ ~ (e.seq <= c) => e \in new
      BY <1>1, <1>3, <3>1
    <3>3. e \in new => e.seq <= m.seq
      BY <2>1, <2>2
    <3> QED
      BY <1>1, <2>3, <3>1, <3>2, <3>3
  <2> QED
    BY <1>3, <2>2, <2>3, <2>4
<1>8. ASSUME new = {} PROVE \A e \in evs : e.seq > c => ~ (t = 0 \/ e.seq <= t)
  <2>1. \A e \in evs : e.stream = Stream /\ e.seq > c => e.seq > Bound(t)
    BY <1>1, <1>2, <1>8, NewEventsEmpty
  <2> QED
    BY <1>1, <1>2, <2>1
<1> QED
  BY <1>4, <1>5, <1>6, <1>7, <1>8

\* Nothing is consumed at the start.
LEMMA WalkInitInv == WalkInit => WalkInv
<1> SUFFICES ASSUME WalkInit PROVE WalkInv
  OBVIOUS
<1>1. log \in Logs /\ through \in 0..LastSeq /\ position = 0 /\ taken = << >> /\ LastSeq \in Nat
  BY LogsAssumption DEF WalkInit
<1>2. WalkTypeOK
  BY <1>1 DEF WalkTypeOK
<1>3. {e \in log : e.seq <= position} = {}
  BY <1>1, LogsAreStreamLogs
<1>4. UNION {taken[j].new : j \in DOMAIN taken} = {}
  BY <1>1
<1> QED
  BY <1>1, <1>2, <1>3, <1>4 DEF WalkInv

\* The next slice takes the events that follow.
LEMMA WalkNextInv == WalkInv /\ [Walk]_walkVars => WalkInv'
<1> SUFFICES ASSUME WalkInv, [Walk]_walkVars PROVE WalkInv'
  OBVIOUS
<1>1. CASE UNCHANGED walkVars
  BY <1>1 DEF WalkInv, WalkTypeOK, walkVars
<1>2. CASE Walk
  <2> DEFINE new == NewEvents(log, Stream, position, through)
             ov == OverlapEvents(log, Stream, position, EventTokens(new))
             next == [cursor |-> position, new |-> new, overlap |-> ov]
             n == Len(taken) + 1
             Slice == [cursor : 0..LastSeq, new : SUBSET log, overlap : SUBSET log]
  <2>1. new # {} /\ position' = ToSequence(new) /\ taken' = Append(taken, next)
        /\ log' = log /\ through' = through
    BY <1>2 DEF Walk, NextSlice
  <2>2. /\ log \in Logs /\ through \in 0..LastSeq /\ position \in 0..LastSeq /\ taken \in Seq(Slice)
    BY DEF WalkInv, WalkTypeOK
  <2>3. /\ new \in SUBSET log /\ ov \in SUBSET log /\ position' \in 0..LastSeq
        /\ {e \in log : e.seq <= position'} = {e \in log : e.seq <= position} \cup new
    BY <2>1, <2>2, SliceOfLog
  <2> HIDE DEF new, ov
  <2>4. next \in Slice
    BY <2>2, <2>3
  <2>5. /\ taken' \in Seq(Slice) /\ DOMAIN taken' = 1..n /\ DOMAIN taken = 1..(n - 1) /\ n \in Nat
        /\ taken'[n] = next /\ \A i \in 1..(n - 1) : taken'[i] = taken[i]
    BY <2>1, <2>2, <2>4
  <2> HIDE DEF n, next
  <2>6. WalkTypeOK'
    BY <2>1, <2>2, <2>3, <2>5 DEF WalkTypeOK
  <2>7. ASSUME NEW i \in DOMAIN taken'
        PROVE  /\ taken'[i].new # {}
               /\ taken'[i].new = NewEvents(log, Stream, taken'[i].cursor, through)
               /\ taken'[i].overlap = OverlapEvents(log, Stream, taken'[i].cursor,
                                                    EventTokens(taken'[i].new))
    <3>1. CASE i = n
      <4>1. taken'[i].new = new /\ taken'[i].cursor = position /\ taken'[i].overlap = ov
        BY <2>5, <3>1 DEF next
      <4> QED
        BY <2>1, <4>1 DEF new, ov
    <3>2. CASE i # n
      <4>1. i \in DOMAIN taken /\ taken'[i] = taken[i]
        BY <2>5, <3>2
      <4> QED
        BY <4>1 DEF WalkInv
    <3> QED
      BY <3>1, <3>2
  <2>8. ASSUME NEW k \in 1..n
        PROVE  UNION {taken'[j].new : j \in 1..(k - 1)} = UNION {taken[j].new : j \in 1..(k - 1)}
    <3>1. \A j \in 1..(k - 1) : taken'[j].new = taken[j].new
      BY <2>5
    <3> QED
      BY <3>1
  <2>9. ASSUME NEW k \in DOMAIN taken'
        PROVE  UNION {taken'[j].new : j \in 1..(k - 1)} = {e \in log : e.seq <= taken'[k].cursor}
    <3>1. CASE k = n
      <4>1. taken'[k].cursor = position
        BY <2>5, <3>1 DEF next
      <4>2. UNION {taken[j].new : j \in 1..(n - 1)} = {e \in log : e.seq <= position}
        BY <2>5 DEF WalkInv
      <4> QED
        BY <2>5, <2>8, <3>1, <4>1, <4>2
    <3>2. CASE k # n
      <4>1. k \in DOMAIN taken /\ taken'[k] = taken[k] /\ k \in 1..n
        BY <2>5, <3>2
      <4>2. UNION {taken[j].new : j \in 1..(k - 1)} = {e \in log : e.seq <= taken[k].cursor}
        BY <4>1 DEF WalkInv
      <4> QED
        BY <2>8, <4>1, <4>2
    <3> QED
      BY <3>1, <3>2
  <2>10. UNION {taken'[j].new : j \in DOMAIN taken'} = {e \in log : e.seq <= position'}
    <3>1. UNION {taken[j].new : j \in 1..(n - 1)} = {e \in log : e.seq <= position}
      BY <2>5 DEF WalkInv
    <3>2. taken'[n].new = new
      BY <2>5 DEF next
    <3> DEFINE all == UNION {taken'[j].new : j \in 1..n}
               old == UNION {taken[j].new : j \in 1..(n - 1)}
    <3>3. ASSUME NEW e \in all PROVE e \in old \/ e \in new
      <4>1. PICK j \in 1..n : e \in taken'[j].new
        OBVIOUS
      <4>2. CASE j = n
        BY <3>2, <4>1, <4>2
      <4>3. CASE j # n
        <5>1. j \in 1..(n - 1) /\ e \in taken[j].new
          BY <2>5, <4>1, <4>3
        <5> QED
          BY <5>1
      <4> QED
        BY <4>2, <4>3
    <3>4. ASSUME NEW e \in old PROVE e \in all
      <4>1. PICK j \in 1..(n - 1) : e \in taken[j].new
        OBVIOUS
      <4>2. j \in 1..n /\ e \in taken'[j].new
        BY <2>5, <4>1
      <4> QED
        BY <4>2
    <3>5. ASSUME NEW e \in new PROVE e \in all
      <4>1. n \in 1..n /\ e \in taken'[n].new
        BY <2>5, <3>2 DEF n
      <4> QED
        BY <4>1
    <3>6. UNION {taken'[j].new : j \in DOMAIN taken'} = all
      BY <2>5
    <3> HIDE DEF all, old
    <3>7. all = old \cup new
      BY <3>3, <3>4, <3>5
    <3>8. old = {e \in log : e.seq <= position}
      BY <3>1 DEF old
    <3> QED
      BY <2>3, <3>6, <3>7, <3>8
  <2> QED
    BY <2>1, <2>6, <2>7, <2>9, <2>10 DEF WalkInv
<1> QED
  BY <1>1, <1>2

\* The invariant says that the slices partition the consumed part of the log.
LEMMA WalkPartitions == WalkInv => SlicesPartition
<1> SUFFICES ASSUME WalkInv PROVE SlicesPartition
  OBVIOUS
<1>1. /\ log \in Logs /\ through \in 0..LastSeq /\ position \in 0..LastSeq /\ WalkTypeOK
      /\ taken \in Seq([cursor : 0..LastSeq, new : SUBSET log, overlap : SUBSET log])
      /\ LastSeq \in Nat /\ \A e \in log : e.seq \in 1..LastSeq
  BY LogsAssumption, LogsAreStreamLogs DEF WalkInv, WalkTypeOK
<1>2. \A i \in DOMAIN taken : i \in Nat /\ taken[i].cursor \in 0..LastSeq
  <2> SUFFICES ASSUME NEW i \in DOMAIN taken PROVE i \in Nat /\ taken[i].cursor \in 0..LastSeq
    OBVIOUS
  <2> DEFINE Slice == [cursor : 0..LastSeq, new : SUBSET log, overlap : SUBSET log]
  <2>1. taken \in Seq(Slice)
    BY <1>1
  <2> HIDE DEF Slice
  <2>2. i \in Nat /\ taken[i] \in Slice
    BY <2>1
  <2> QED
    BY <2>2 DEF Slice
<1>3. UNION {s.new : s \in Slices} = {e \in log : e.seq <= position}
  <2>1. UNION {s.new : s \in Slices} = UNION {taken[j].new : j \in DOMAIN taken}
    BY DEF Slices
  <2> QED
    BY <2>1 DEF WalkInv
<1>4. ASSUME NEW i \in DOMAIN taken, NEW k \in DOMAIN taken, i < k
      PROVE  /\ \A e \in taken[i].new, f \in taken[k].new : e.seq < f.seq
             /\ taken[k].overlap \subseteq UNION {taken[j].new : j \in 1..(k - 1)}
  <2>1. UNION {taken[j].new : j \in 1..(k - 1)} = {e \in log : e.seq <= taken[k].cursor}
    BY DEF WalkInv
  <2>2. i \in 1..(k - 1)
    BY <1>1, <1>4
  <2>3. \A e \in taken[i].new : e \in log /\ e.seq <= taken[k].cursor
    BY <2>1, <2>2
  <2>4. /\ taken[k].new \in SUBSET {e \in log : e.seq > taken[k].cursor /\ (through = 0 \/ e.seq <= through)}
        /\ taken[k].overlap \in SUBSET {e \in log : e.seq <= taken[k].cursor}
    <3>1. /\ taken[k].new = NewEvents(log, Stream, taken[k].cursor, through)
          /\ taken[k].overlap = OverlapEvents(log, Stream, taken[k].cursor, EventTokens(taken[k].new))
      BY DEF WalkInv
    <3>2. taken[k].cursor \in 0..LastSeq /\ log \in Logs /\ through \in 0..LastSeq
      BY <1>1, <1>2
    <3> QED
      BY <3>1, <3>2, SliceOfLog
  <2>5. \A e \in taken[i].new, f \in taken[k].new : e.seq < f.seq
    <3> SUFFICES ASSUME NEW e \in taken[i].new, NEW f \in taken[k].new PROVE e.seq < f.seq
      OBVIOUS
    <3>1. e.seq <= taken[k].cursor /\ f.seq > taken[k].cursor /\ e \in log /\ f \in log
      BY <2>3, <2>4
    <3> QED
      BY <1>1, <1>2, <3>1
  <2> QED
    BY <2>1, <2>4, <2>5
<1>5. ASSUME NextSlice(log, Stream, position, through).new = {}
      PROVE  Due \subseteq UNION {s.new : s \in Slices}
  <2>1. NewEvents(log, Stream, position, through) = {}
    BY <1>5 DEF NextSlice
  <2>2. \A e \in log : e.seq > position => ~ (through = 0 \/ e.seq <= through)
    <3>1. log \in Logs /\ position \in 0..LastSeq /\ through \in 0..LastSeq
      BY <1>1
    <3>2. PICK new : new = NewEvents(log, Stream, position, through)
      OBVIOUS
    <3>3. new = {} => \A e \in log : e.seq > position => ~ (through = 0 \/ e.seq <= through)
      BY <3>1, <3>2, SliceOfLog
    <3> QED
      BY <2>1, <3>2, <3>3
  <2>3. \A e \in Due : e \in log /\ e.seq <= position
    BY <1>1, <2>2 DEF Due
  <2> QED
    BY <1>3, <2>3
<1> QED
  BY <1>1, <1>3, <1>4, <1>5 DEF SlicesPartition

\* Every slice is within the limits and stops only at one.
LEMMA WalkMaximal == WalkInv => SlicesMaximal
<1> SUFFICES ASSUME WalkInv PROVE SlicesMaximal
  OBVIOUS
<1>1. /\ log \in Logs /\ through \in 0..LastSeq /\ Stream \in Streams /\ StreamLog(log, Stream)
      /\ LastSeq \in Nat /\ log \in SUBSET Event /\ IsFiniteSet(log)
      /\ \A e \in log : e.seq \in 1..LastSeq
  BY LogsAssumption, LogsAreStreamLogs DEF WalkInv, WalkTypeOK, StreamLog
<1>2. ASSUME NEW s \in Slices
      PROVE  /\ s.cursor \in 0..LastSeq /\ s.new # {}
             /\ s.new = NewEvents(log, Stream, s.cursor, through)
             /\ s.overlap = OverlapEvents(log, Stream, s.cursor, EventTokens(s.new))
  <2>1. PICK i \in DOMAIN taken : s = taken[i]
    BY DEF Slices
  <2>2. taken[i].cursor \in 0..LastSeq
    <3> DEFINE Slice == [cursor : 0..LastSeq, new : SUBSET log, overlap : SUBSET log]
    <3>1. taken \in Seq(Slice)
      BY DEF WalkInv, WalkTypeOK
    <3> HIDE DEF Slice
    <3>2. taken[i] \in Slice
      BY <3>1
    <3> QED
      BY <3>2 DEF Slice
  <2> QED
    BY <2>1, <2>2 DEF WalkInv
<1>3. ASSUME NEW s \in Slices
      PROVE  /\ s.new \in SUBSET {e \in log : e.seq > s.cursor} /\ EventTokens(s.new) \in Nat
             /\ s.overlap \in SUBSET {e \in log : e.seq <= s.cursor}
             /\ s.new \in SUBSET Event /\ s.overlap \in SUBSET Event
             /\ IsFiniteSet(s.new) /\ IsFiniteSet(s.overlap) /\ s.cursor \in Nat
             /\ s.new \cap s.overlap = {}
  <2>1. /\ s.new \in SUBSET {e \in log : e.seq > s.cursor /\ (through = 0 \/ e.seq <= through)}
        /\ EventTokens(s.new) \in Nat
        /\ s.overlap \in SUBSET {e \in log : e.seq <= s.cursor}
    BY <1>1, <1>2, SliceOfLog
  <2>2. s.new \in SUBSET log /\ s.overlap \in SUBSET log /\ s.cursor \in Nat
    BY <1>1, <1>2, <2>1
  <2>3. IsFiniteSet(s.new) /\ IsFiniteSet(s.overlap)
    BY <1>1, <2>2, FS_Subset
  <2>4. ASSUME NEW e \in s.new, e \in s.overlap PROVE FALSE
    <3>1. e \in log /\ e.seq > s.cursor /\ e.seq <= s.cursor
      BY <2>1, <2>4
    <3> QED
      BY <1>1, <2>2, <3>1
  <2> QED
    BY <1>1, <2>1, <2>2, <2>3, <2>4
<1>4. ASSUME NEW s \in Slices
      PROVE  /\ Bound(through) \in Nat \ {0}
             /\ s.new = NewEvents(log, Stream, s.cursor, Bound(through))
             /\ \A e \in log : e.seq <= Bound(through) <=> (through = 0 \/ e.seq <= through)
  BY <1>1, <1>2, <1>3, BoundedAlike
<1>5. SlicesFit
  <2> SUFFICES ASSUME NEW s \in Slices
               PROVE  /\ Cardinality(s.new) <= EventLimit /\ Cardinality(s.overlap) <= Overlap
                      /\ \/ EventTokens(s.new \cup s.overlap) <= TokenLimit
                         \/ Cardinality(s.new) = 1 /\ s.overlap = {}
    BY DEF SlicesFit
  <2>1. /\ Cardinality(s.new) <= EventLimit
        /\ Cardinality(s.new) = 1 \/ EventTokens(s.new) <= TokenLimit
    BY <1>1, <1>2, <1>3, <1>4, NewEventsFit
  <2>2. /\ Cardinality(s.overlap) <= Overlap
        /\ s.overlap = {} \/ EventTokens(s.overlap) + EventTokens(s.new) <= TokenLimit
    BY <1>1, <1>2, <1>3, OverlapFits
  <2>3. CASE s.overlap = {}
    <3>1. s.new \cup s.overlap = s.new
      BY <2>3
    <3> QED
      BY <2>1, <2>2, <2>3, <3>1
  <2>4. CASE s.overlap # {}
    <3>1. /\ EventTokens(s.new \cup s.overlap) = EventTokens(s.new) + EventTokens(s.overlap)
          /\ EventTokens(s.new) \in Nat /\ EventTokens(s.overlap) \in Nat
      BY <1>3, TokensUnion
    <3> QED
      BY <2>1, <2>2, <2>4, <3>1, PlannerAssumption
  <2> QED
    BY <2>3, <2>4
<1>6. ASSUME NEW s \in Slices, NEW e \in Due, e.seq > ToSequence(s.new),
             \A f \in Due : f.seq > ToSequence(s.new) => e.seq <= f.seq
      PROVE  Cardinality(s.new) = EventLimit \/ EventTokens(s.new \cup {e}) > TokenLimit
  <2>1. /\ e \in log /\ e.seq <= Bound(through)
        /\ \A f \in log : f.seq <= Bound(through) /\ f.seq > ToSequence(s.new) => e.seq <= f.seq
    BY <1>4, <1>6 DEF Due
  <2> QED
    BY <1>1, <1>2, <1>3, <1>4, <1>6, <2>1, NewEventsMaximal
<1>7. ASSUME NEW s \in Slices, NEW e \in log, e.seq <= s.cursor, e \notin s.overlap,
             \A f \in log : f.seq <= s.cursor /\ f \notin s.overlap => f.seq <= e.seq
      PROVE  Cardinality(s.overlap) = Overlap \/ EventTokens(s.new \cup s.overlap \cup {e}) > TokenLimit
  <2>1. \/ Cardinality(s.overlap) = Overlap
        \/ EventTokens(s.overlap \cup {e}) + EventTokens(s.new) > TokenLimit
    BY <1>1, <1>2, <1>3, <1>7, OverlapMaximal
  <2>2. EventTokens(s.new \cup s.overlap \cup {e}) = EventTokens(s.new) + EventTokens(s.overlap \cup {e})
        /\ EventTokens(s.new) \in Nat /\ EventTokens(s.overlap \cup {e}) \in Nat
    <3>1. s.new \cup s.overlap \cup {e} = s.new \cup (s.overlap \cup {e})
      OBVIOUS
    <3>2. IsFiniteSet(s.overlap \cup {e}) /\ s.overlap \cup {e} \in SUBSET Event
      BY <1>1, <1>3, FS_AddElement
    <3>3. e \notin s.new
      <4>1. e.seq \in Nat /\ (e \in s.new => e.seq > s.cursor)
        BY <1>1, <1>3
      <4> QED
        BY <1>3, <1>7, <4>1
    <3>4. s.new \cap (s.overlap \cup {e}) = {}
      BY <1>3, <3>3
    <3> QED
      BY <1>3, <3>1, <3>2, <3>4, TokensUnion
  <2> QED
    BY <2>1, <2>2, PlannerAssumption
<1> QED
  BY <1>5, <1>6, <1>7 DEF SlicesMaximal

\* The walk's invariant holds throughout.
LEMMA WalkCorrect == WalkSpec => []WalkInv
  BY WalkInitInv, WalkNextInv, PTL DEF WalkSpec

\* Whatever the log, the limits and the sizes of events: repeated NextSlice and
\* CommitSlice calls cut the stream into pieces in order and without a gap, and
\* end only when everything that was due has been consumed.
THEOREM StreamIsPartitioned == WalkSpec => []SlicesPartition
  BY WalkCorrect, WalkPartitions, PTL

\* Every slice keeps to EventLimit, TokenLimit and Overlap, and ends only where
\* one event more would break a limit.
THEOREM SlicesStopAtALimit == WalkSpec => []SlicesMaximal
  BY WalkCorrect, WalkMaximal, PTL

-----------------------------------------------------------------------------
(* Rows, jobs and workers agree *)

\* Leaving the lake's rows and runs alone preserves LakeInv.
LEMMA LakeFrame ==
    ASSUME LakeInv, UNCHANGED <<lakeVars, runs>>
    PROVE  LakeInv' /\ Covered' = Covered
BY DEF LakeInv, lakeVars, Covered

\* A worker that lets go of its job leaves the others' alone.
LEMMA ReleaseStep ==
    ASSUME StructInv, NEW w \in Workers, pc[w] # "idle",
           NEW st \in {"available", "completed", "discarded"},
           NEW a \in 0..MaxAttempts, st = "available" => a < MaxAttempts,
           Release(w, st, a), UNCHANGED <<lakeVars, version>>,
           runs \subseteq runs', runs' \subseteq Run, Covered' \subseteq events,
           faults' \in 0..MaxFaults
    PROVE  StructInv'
<1> USE DEF StructInv
<1>1. held[w] \in JobIds /\ jobs[held[w]] \in Job
  BY NoneAssumption DEF HoldInv, TypeOK, HeldJob
<1>2. jobs' \in [JobIds -> Job \cup {NoJob}]
  BY <1>1 DEF TypeOK, Release, Job
<1>3. TypeOK'
  BY <1>2 DEF TypeOK, Release, lakeVars
<1>4. LakeInv'
  BY DEF LakeInv, lakeVars
<1>5. \A j \in JobIds : /\ j # held[w] => jobs'[j] = jobs[j]
                        /\ jobs'[j] = NoJob <=> jobs[j] = NoJob
  BY <1>1, NoneAssumption DEF TypeOK, Release, Job
<1>6. jobs'[held[w]] = [jobs[held[w]] EXCEPT !.state = st, !.attempt = a]
  BY <1>1 DEF TypeOK, Release, Job
<1>7. JobsInv'
  <2> SUFFICES ASSUME NEW j \in JobIds, jobs'[j] # NoJob
               PROVE  /\ jobs'[j].through <= last[jobs'[j].stream]
                      /\ jobs'[j].state = "available" => jobs'[j].attempt < MaxAttempts
                      /\ jobs'[j].state = "running" => jobs'[j].attempt > 0
    BY DEF JobsInv, lakeVars
  <2>1. CASE j = held[w]
    <3>1. /\ jobs'[j].through = jobs[j].through /\ jobs'[j].stream = jobs[j].stream
          /\ jobs'[j].state = st /\ jobs'[j].attempt = a
      BY <1>1, <1>6, <2>1 DEF Job
    <3> QED
      BY <1>5, <2>1, <3>1 DEF JobsInv
  <2>2. CASE j # held[w]
    BY <1>5, <2>2 DEF JobsInv
  <2> QED
    BY <2>1, <2>2
<1>8. \A v \in Workers : v # w => /\ pc'[v] = pc[v] /\ held'[v] = held[v]
                                 /\ held[v] # held[w]
                                 /\ slice'[v] = slice[v] /\ slices'[v] = slices[v]
  BY <1>1, NoneAssumption DEF TypeOK, HoldInv, Release
<1>9. pc'[w] = "idle" /\ held'[w] = NoJob
  BY DEF TypeOK, Release
<1>10. HoldInv'
  BY <1>5, <1>8, <1>9 DEF HoldInv, HeldJob
<1>11. Covered \subseteq Covered'
  BY DEF Covered
<1>12. SliceInv'
  BY <1>5, <1>8, <1>9, <1>11 DEF SliceInv, HoldInv, HeldJob, lakeVars
<1> QED
  BY <1>3, <1>4, <1>7, <1>10, <1>12

\* The initial state satisfies StructInv.
LEMMA StructInit == Init => StructInv
<1> SUFFICES ASSUME Init PROVE StructInv
  OBVIOUS
<1>1. TypeOK
  BY PipelineAssumption DEF Init, TypeOK
<1>2. LakeInv
  BY FS_EmptySet DEF Init, LakeInv, Covered
<1>3. JobsInv /\ HoldInv /\ SliceInv
  BY NoneAssumption DEF Init, JobsInv, HoldInv, SliceInv
<1> QED
  BY <1>1, <1>2, <1>3 DEF StructInv

\* AppendSession keeps rows, jobs and workers in agreement.
LEMMA AppendStruct ==
    ASSUME StructInv, NEW s \in Streams, NEW b \in Batches(s), NEW done \in BOOLEAN,
           NEW j \in JobIds, NEW head \in {e.seq : e \in b}, \A e \in b : e.seq <= head,
           AppendSession(s, b, head, done, j)
    PROVE  StructInv'
<1> USE DEF StructInv
<1>1. b \subseteq Event /\ head \in Seqs /\ \A e \in b : e.stream = s
  BY PipelineAssumption DEF Batches, Event, Seqs
<1>2. /\ Accepted(b) \subseteq b /\ IsFiniteSet(b)
      /\ \A e, f \in b : e.seq = f.seq => e = f
  BY DEF Accepted, Batches
<1>3. /\ last' \in [Streams -> 0..MaxSeq] /\ last'[s] >= head
      /\ \A r \in Streams : last[r] <= last'[r]
  BY <1>1 DEF TypeOK, AppendSession, Seqs
<1>4. TypeOK'
  <2>1. jobs' \in [JobIds -> Job \cup {NoJob}]
    BY <1>1, PipelineAssumption DEF TypeOK, AppendSession, Job
  <2>2. events' \subseteq Event /\ stamped' \subseteq events'
    BY <1>1, <1>2 DEF TypeOK, AppendSession
  <2>3. complete' \in [Streams -> BOOLEAN]
    BY DEF TypeOK, AppendSession
  <2> QED
    BY <1>3, <2>1, <2>2, <2>3 DEF TypeOK, AppendSession, workerVars
<1>5. LakeInv'
  <2>1. IsFiniteSet(events')
    BY <1>2, FS_Subset, FS_Union DEF LakeInv, AppendSession
  <2>2. \A e, f \in events' : e.stream = f.stream /\ e.seq = f.seq => e = f
    BY <1>1, <1>2 DEF LakeInv, AppendSession
  <2>3. \A e \in events' : e.seq <= last'[e.stream]
    <3> TAKE e \in events'
    <3>1. CASE e \in events
      BY <1>3, <3>1 DEF LakeInv, TypeOK, Event
    <3>2. CASE e \in b
      BY <1>1, <1>3, <3>2 DEF Event, Seqs
    <3> QED
      BY <1>2, <3>1, <3>2 DEF AppendSession
  <2>4. \A r \in Streams : cursor'[r] <= last'[r]
    BY <1>3 DEF LakeInv, TypeOK, AppendSession
  <2>5. Covered' \subseteq events'
    BY DEF LakeInv, AppendSession, Covered
  <2> QED
    BY <2>1, <2>2, <2>3, <2>4, <2>5 DEF LakeInv
<1>6. /\ jobs'[j] = [state |-> "available", stream |-> s, through |-> head,
                     requireCurrent |-> ~done, attempt |-> 0]
      /\ \A i \in JobIds : i # j => jobs'[i] = jobs[i]
  BY DEF AppendSession, TypeOK
<1>7. JobsInv'
  <2> SUFFICES ASSUME NEW i \in JobIds, jobs'[i] # NoJob
               PROVE  /\ jobs'[i].through <= last'[jobs'[i].stream]
                      /\ jobs'[i].state = "available" => jobs'[i].attempt < MaxAttempts
                      /\ jobs'[i].state = "running" => jobs'[i].attempt > 0
    BY DEF JobsInv
  <2>1. CASE i = j
    BY <1>3, <1>6, <2>1, PipelineAssumption
  <2>2. CASE i # j
    <3>1. jobs[i] # NoJob /\ jobs[i] \in Job
      BY <1>6, <2>2 DEF TypeOK
    <3>2. jobs[i].through <= last'[jobs[i].stream]
      BY <1>3, <3>1 DEF JobsInv, TypeOK, Job, Seqs
    <3> QED
      BY <1>6, <2>2, <3>1, <3>2 DEF JobsInv
  <2> QED
    BY <2>1, <2>2
<1>8. \A w \in Workers : pc[w] # "idle" => held[w] # j /\ held[w] \in JobIds
  BY DEF HoldInv, HeldJob, AppendSession
<1>9. HoldInv'
  BY <1>6, <1>8 DEF HoldInv, HeldJob, AppendSession, workerVars
<1>10. SliceInv'
  BY <1>6, <1>8 DEF SliceInv, HeldJob, AppendSession, workerVars, Covered
<1> QED
  BY <1>4, <1>5, <1>7, <1>9, <1>10

\* A worker takes an available job of its own shard, and nobody else's.
LEMMA ClaimStruct ==
    ASSUME StructInv, NEW w \in Workers, NEW j \in JobIds, Claim(w, j)
    PROVE  StructInv'
<1> USE DEF StructInv
<1>1. /\ jobs[j] \in Job /\ jobs[j].attempt < MaxAttempts /\ held[w] = NoJob
      /\ w[1] \in Processes
  BY DEF Claim, TypeOK, JobsInv, HoldInv, Workers
<1>2. /\ jobs'[j] = [jobs[j] EXCEPT !.state = "running", !.attempt = @ + 1]
      /\ \A i \in JobIds : i # j => jobs'[i] = jobs[i]
      /\ jobs' \in [JobIds -> Job \cup {NoJob}]
  BY <1>1, PipelineAssumption DEF Claim, TypeOK, Job
<1>3. /\ pc'[w] \in {"check", "plan"} /\ held'[w] = j
      /\ \A v \in Workers : v # w => /\ pc'[v] = pc[v] /\ held'[v] = held[v]
                                     /\ slices'[v] = slices[v]
  BY DEF Claim, TypeOK
<1>4. TypeOK'
  <2>1. slices' \in [Workers -> 0..MaxSlicesPerJob]
    BY PipelineAssumption DEF Claim, TypeOK
  <2> QED
    BY <1>2, <2>1 DEF Claim, TypeOK, lakeVars, Working
<1>5. LakeInv' /\ Covered' = Covered
  BY LakeFrame DEF Claim
<1>6. /\ jobs'[j].through = jobs[j].through /\ jobs'[j].stream = jobs[j].stream
      /\ jobs'[j].state = "running" /\ jobs'[j].attempt > 0 /\ jobs'[j] # NoJob
  <2>1. jobs[j].attempt \in 0..MaxAttempts
    BY <1>1 DEF Job
  <2>2. jobs[j].attempt + 1 \in 0..MaxAttempts /\ jobs[j].attempt + 1 > 0
    BY <1>1, <2>1, PipelineAssumption
  <2>3. jobs'[j] = [state |-> "running", stream |-> jobs[j].stream,
                    through |-> jobs[j].through,
                    requireCurrent |-> jobs[j].requireCurrent,
                    attempt |-> jobs[j].attempt + 1]
    BY <1>1, <1>2 DEF Job
  <2>4. jobs'[j] \in Job
    BY <1>1, <2>2, <2>3 DEF Job
  <2> QED
    BY <2>2, <2>3, <2>4, NoneAssumption
<1>7. JobsInv'
  <2> SUFFICES ASSUME NEW i \in JobIds, jobs'[i] # NoJob
               PROVE  /\ jobs'[i].through <= last[jobs'[i].stream]
                      /\ jobs'[i].state = "available" => jobs'[i].attempt < MaxAttempts
                      /\ jobs'[i].state = "running" => jobs'[i].attempt > 0
    BY DEF JobsInv, Claim, lakeVars
  <2>1. CASE i = j
    BY <1>6, <2>1 DEF JobsInv, Claim
  <2>2. CASE i # j
    BY <1>2, <2>2 DEF JobsInv
  <2> QED
    BY <2>1, <2>2
<1>8. \A v \in Workers : v # w /\ pc[v] # "idle" => held[v] # j
  BY DEF Claim, HoldInv, HeldJob
<1>9. HoldInv'
  <2>1. version[w[1]] \in Versions
    BY <1>1 DEF Claim, TypeOK
  <2>2. ASSUME NEW v \in Workers
        PROVE  \/ pc'[v] = "idle" /\ held'[v] = NoJob
               \/ /\ pc'[v] # "idle" /\ held'[v] \in JobIds
                  /\ jobs'[held'[v]] # NoJob /\ jobs'[held'[v]].state = "running"
                  /\ version'[v[1]] \in Versions
    <3>1. CASE v = w
      BY <1>3, <1>6, <2>1, <3>1 DEF Claim
    <3>2. CASE v # w
      BY <1>2, <1>3, <1>8, <3>2 DEF HoldInv, HeldJob, Claim
    <3> QED
      BY <3>1, <3>2
  <2>3. \A v1, v2 \in Workers : held'[v1] = held'[v2] /\ held'[v1] # NoJob => v1 = v2
    BY <1>3, <1>8 DEF HoldInv
  <2> QED
    BY <2>2, <2>3 DEF HoldInv, HeldJob
<1>10. SliceInv'
  <2> SUFFICES ASSUME NEW v \in Workers, pc'[v] \in {"apply", "commit"}
               PROVE  /\ slice'[v] # {} /\ slices'[v] < MaxSlicesPerJob
                      /\ slice'[v] \subseteq {e \in events' : e.stream = jobs'[held'[v]].stream}
                      /\ pc'[v] = "commit" => slice'[v] \subseteq Covered'
    BY DEF SliceInv, HeldJob
  <2>1. v # w /\ pc[v] \in {"apply", "commit"} /\ held[v] \in JobIds
    BY <1>3 DEF HoldInv
  <2>2. jobs'[held'[v]] = jobs[held[v]]
    BY <1>2, <1>3, <1>8, <2>1
  <2> QED
    BY <1>3, <1>5, <2>1, <2>2 DEF SliceInv, HeldJob, Claim, lakeVars
<1> QED
  BY <1>4, <1>5, <1>7, <1>9, <1>10

\* Crashes and restarts change only the workers of their own process.
LEMMA ProcessStruct ==
    ASSUME StructInv, NEW p \in Processes, Crash(p) \/ Restart(p)
    PROVE  StructInv'
<1> USE DEF StructInv
<1>1. CASE Crash(p)
  <2>1. TypeOK'
    BY <1>1, PipelineAssumption DEF Crash, TypeOK, lakeVars
  <2>2. LakeInv' /\ Covered' = Covered /\ JobsInv'
    BY <1>1, LakeFrame DEF Crash, JobsInv, lakeVars
  <2>3. HoldInv' /\ SliceInv'
    BY <1>1, <2>2 DEF Crash, TypeOK, HoldInv, SliceInv, HeldJob, Workers, lakeVars
  <2> QED
    BY <2>1, <2>2, <2>3
<1>2. CASE Restart(p)
  <2>1. TypeOK' /\ JobsInv'
    BY <1>2 DEF Restart, TypeOK, JobsInv, lakeVars, workerVars
  <2>2. LakeInv' /\ Covered' = Covered
    BY <1>2, LakeFrame DEF Restart
  <2>3. HoldInv' /\ SliceInv'
    BY <1>2, <2>2 DEF Restart, TypeOK, HoldInv, SliceInv, HeldJob, Workers, lakeVars, workerVars
  <2> QED
    BY <2>1, <2>2, <2>3
<1> QED
  BY <1>1, <1>2

\* Rescuing an orphaned job takes it from no worker.
LEMMA RescueStruct ==
    ASSUME StructInv, NEW j \in JobIds, Rescue(j)
    PROVE  StructInv'
<1> USE DEF StructInv
<1>1. jobs[j] \in Job
  BY DEF Rescue, TypeOK
<1>2. /\ jobs'[j] = [jobs[j] EXCEPT !.state = AfterError(jobs[j])]
      /\ \A i \in JobIds : i # j => jobs'[i] = jobs[i]
      /\ jobs' \in [JobIds -> Job \cup {NoJob}]
  BY <1>1 DEF Rescue, TypeOK, Job, AfterError
<1>3. TypeOK'
  BY <1>2 DEF Rescue, TypeOK, lakeVars, workerVars
<1>4. LakeInv' /\ Covered' = Covered
  BY LakeFrame DEF Rescue
<1>5. JobsInv'
  BY <1>1, <1>2, PipelineAssumption DEF JobsInv, Rescue, Job, AfterError, lakeVars
<1>6. \A w \in Workers : held'[w] = held[w] /\ held[w] # j
  BY DEF Rescue, workerVars
<1>7. HoldInv' /\ SliceInv'
  BY <1>2, <1>4, <1>6 DEF HoldInv, SliceInv, HeldJob, Rescue, lakeVars, workerVars
<1> QED
  BY <1>3, <1>4, <1>5, <1>7

\* The reads of ProcessExtraction change only the worker that reads.
LEMMA ReadStruct ==
    ASSUME StructInv, NEW w \in Workers,
           IsCurrent(w) \/ ReadCursor(w) \/ ReadEvents(w)
    PROVE  StructInv'
<1> USE DEF StructInv
<1>1. /\ pc[w] \in {"check", "plan", "read"} /\ held[w] \in JobIds
      /\ HeldJob(w) \in Job
  BY DEF IsCurrent, ReadCursor, ReadEvents, HoldInv, TypeOK, HeldJob
<1>2. LakeInv' /\ Covered' = Covered
  BY LakeFrame DEF IsCurrent, ReadCursor, ReadEvents
<1>3. UNCHANGED <<lakeVars, jobs, runs, version, held, slices, faults>>
  BY DEF IsCurrent, ReadCursor, ReadEvents
<1>4. /\ pc'[w] # "idle"
      /\ \A v \in Workers : v # w => pc'[v] = pc[v] /\ slice'[v] = slice[v]
  BY DEF IsCurrent, ReadCursor, ReadEvents, TypeOK
<1>5. JobsInv' /\ HoldInv'
  BY <1>1, <1>3, <1>4 DEF JobsInv, HoldInv, HeldJob, lakeVars
<1> DEFINE new == NewEvents(events, HeldJob(w).stream, seen[w], HeldJob(w).through)
<1>6. new \subseteq {e \in events : e.stream = HeldJob(w).stream}
  <2>1. /\ HeldJob(w).stream \in Streams /\ HeldJob(w).through \in Nat \ {0}
        /\ seen[w] \in Nat /\ events \in SUBSET Event /\ IsFiniteSet(events)
    BY <1>1, PipelineAssumption DEF Job, Seqs, TypeOK, LakeInv
  <2> QED
    BY <2>1, NewEventsPrefix
<1>7. TypeOK'
  <2>1. pc' \in [Workers -> Working \cup {"idle", "stop", "snooze"}]
    BY DEF IsCurrent, ReadCursor, ReadEvents, TypeOK, Working
  <2>2. seen' \in [Workers -> 0..MaxSeq]
    BY <1>1 DEF IsCurrent, ReadCursor, ReadEvents, TypeOK, Job
  <2>3. slice' \in [Workers -> SUBSET Event]
    BY <1>6 DEF IsCurrent, ReadCursor, ReadEvents, TypeOK
  <2> QED
    BY <1>3, <2>1, <2>2, <2>3 DEF TypeOK, lakeVars
<1>8. pc'[w] \in {"apply", "commit"} =>
          /\ pc'[w] = "apply" /\ slice'[w] = new /\ new # {}
          /\ slices[w] < MaxSlicesPerJob
  BY DEF IsCurrent, ReadCursor, ReadEvents, TypeOK
<1>9. SliceInv'
  <2> SUFFICES ASSUME NEW v \in Workers, pc'[v] \in {"apply", "commit"}
               PROVE  /\ slice'[v] # {} /\ slices'[v] < MaxSlicesPerJob
                      /\ slice'[v] \subseteq {e \in events' : e.stream = HeldJob(v)'.stream}
                      /\ pc'[v] = "commit" => slice'[v] \subseteq Covered'
    BY DEF SliceInv
  <2> HIDE DEF new
  <2>1. CASE v = w
    BY <1>3, <1>6, <1>8, <2>1 DEF HeldJob, lakeVars
  <2>2. CASE v # w
    BY <1>2, <1>3, <1>4, <2>2 DEF SliceInv, HeldJob, lakeVars
  <2> QED
    BY <2>1, <2>2
<1> QED
  BY <1>2, <1>5, <1>7, <1>9

\* ApplyExtractionRun adds runs and keeps the slice in hand.
LEMMA ApplyStruct ==
    ASSUME StructInv, NEW w \in Workers,
           \/ ApplyNew(w, "completed") \/ ApplyNew(w, "quarantined")
           \/ Replay(w)
    PROVE  StructInv'
<1> USE DEF StructInv
<1>1. /\ pc[w] = "apply" /\ held[w] \in JobIds /\ version[w[1]] \in Versions
      /\ slice[w] \subseteq events /\ slice[w] \subseteq Event
  BY DEF ApplyNew, Replay, HoldInv, SliceInv, TypeOK
<1>2. UNCHANGED <<lakeVars, jobs, version, held, seen, slice, slices, faults>>
  BY DEF ApplyNew, Replay
<1>3. pc' = [pc EXCEPT ![w] = "commit"]
  BY DEF ApplyNew, Replay
<1>4. runs \subseteq runs' /\ runs' \subseteq Run
  BY <1>1 DEF ApplyNew, Replay, TypeOK, Run
<1>5. Covered \subseteq Covered' /\ Covered' \subseteq events /\ slice[w] \subseteq Covered'
  <2>1. CASE Replay(w)
    BY <2>1 DEF Replay, Stored, Covered, LakeInv
  <2>2. ASSUME NEW st, ApplyNew(w, st)
        PROVE  Covered' = Covered \cup slice[w]
    <3> DEFINE r == [new |-> slice[w], version |-> version[w[1]], status |-> st]
    <3>1. runs' = runs \cup {r} /\ r.new = slice[w]
      BY <2>2 DEF ApplyNew
    <3> HIDE DEF r
    <3> QED
      BY <3>1 DEF Covered
  <2> QED
    BY <1>1, <2>1, <2>2 DEF LakeInv
<1>6. TypeOK' /\ JobsInv' /\ HoldInv'
  BY <1>1, <1>2, <1>3, <1>4 DEF TypeOK, JobsInv, HoldInv, HeldJob, Working, lakeVars
<1>7. LakeInv'
  BY <1>2, <1>5 DEF LakeInv, lakeVars
<1>8. SliceInv'
  BY <1>1, <1>2, <1>3, <1>5 DEF SliceInv, HeldJob, TypeOK, lakeVars
<1> QED
  BY <1>6, <1>7, <1>8

\* CommitSlice moves the cursor to a sequence the stream has.
LEMMA CommitStruct ==
    ASSUME StructInv, NEW w \in Workers, CommitSlice(w)
    PROVE  StructInv'
<1> USE DEF StructInv
<1> DEFINE s == HeldJob(w).stream
           to == ToSequence(slice[w])
<1>1. /\ held[w] \in JobIds /\ HeldJob(w) \in Job /\ s \in Streams
      /\ slice[w] # {} /\ slice[w] \subseteq events /\ slice[w] \subseteq Event
      /\ \A e \in slice[w] : e.stream = s
      /\ slices[w] < MaxSlicesPerJob
  BY DEF CommitSlice, HoldInv, SliceInv, TypeOK, HeldJob, Job
<1>2. last[s] \in Nat /\ \A e \in slice[w] : e.seq <= last[s]
  BY <1>1, PipelineAssumption DEF LakeInv, TypeOK
<1>3. to \in Nat /\ to <= last[s]
  BY <1>1, <1>2, ToSequenceMax DEF Event
<1> HIDE DEF to
<1>4. /\ cursor' \in [Streams -> 0..MaxSeq]
      /\ \A r \in Streams : cursor'[r] <= last[r] /\ cursor[r] <= cursor'[r]
  BY <1>1, <1>2, <1>3, PipelineAssumption DEF CommitSlice, TypeOK, LakeInv, to
<1>5. TypeOK'
  <2>1. slices' \in [Workers -> 0..MaxSlicesPerJob] /\ slice' \in [Workers -> SUBSET Event]
    BY <1>1, PipelineAssumption DEF CommitSlice, TypeOK
  <2> QED
    BY <1>4, <2>1 DEF CommitSlice, TypeOK, Working
<1>6. LakeInv' /\ Covered' = Covered
  BY <1>4 DEF CommitSlice, LakeInv, Covered
<1>7. JobsInv' /\ HoldInv'
  BY <1>1 DEF CommitSlice, JobsInv, HoldInv, HeldJob, TypeOK
<1>8. SliceInv'
  BY <1>6 DEF CommitSlice, SliceInv, HeldJob, TypeOK
<1> QED
  BY <1>5, <1>6, <1>7, <1>8

\* How a call of Work ends: an error is retried or discarded, a snooze gives
\* its attempt back, and only a worker with nothing left to do completes.
LEMMA OutcomeRelease ==
    ASSUME StructInv, NEW w \in Workers,
           \/ Fail(w) \/ ApplyThenFail(w) \/ Conflict(w) \/ Complete(w) \/ Snooze(w)
    PROVE  /\ pc[w] # "idle" /\ faults' \in 0..MaxFaults /\ UNCHANGED <<lakeVars, version>>
           /\ runs \subseteq runs' /\ runs' \subseteq Run
           /\ Covered' \subseteq events /\ Covered \subseteq Covered'
           /\ \E st \in {"available", "completed", "discarded"}, a \in 0..MaxAttempts :
                 /\ st = "available" => a < MaxAttempts
                 /\ st = "completed" => pc[w] = "stop"
                 /\ Release(w, st, a)
<1> USE DEF StructInv
<1>1. /\ pc[w] # "idle" /\ HeldJob(w) \in Job /\ HeldJob(w).attempt \in 1..MaxAttempts
      /\ version[w[1]] \in Versions
  BY NoneAssumption, PipelineAssumption
     DEF Fail, ApplyThenFail, Conflict, Complete, Snooze, HoldInv, JobsInv, TypeOK,
         HeldJob, Job, Working
<1>2. faults' \in 0..MaxFaults /\ UNCHANGED <<lakeVars, version>>
  BY PipelineAssumption DEF Fail, ApplyThenFail, Conflict, Complete, Snooze, TypeOK
<1>3. /\ runs \subseteq runs' /\ runs' \subseteq Run
      /\ Covered' \subseteq events /\ Covered \subseteq Covered'
  <2>1. CASE UNCHANGED runs
    BY <2>1 DEF TypeOK, LakeInv, Covered
  <2>2. CASE ApplyThenFail(w)
    <3> DEFINE r == [new |-> slice[w], version |-> version[w[1]], status |-> "completed"]
    <3>1. runs' = runs \cup {r} /\ r.new \subseteq events /\ r \in Run
      BY <1>1, <2>2 DEF ApplyThenFail, SliceInv, Run, TypeOK
    <3> HIDE DEF r
    <3> QED
      BY <3>1 DEF Covered, LakeInv, TypeOK
  <2> QED
    BY <2>1, <2>2 DEF Fail, Conflict, Complete, Snooze
<1>4. \E st \in {"available", "completed", "discarded"}, a \in 0..MaxAttempts :
          /\ st = "available" => a < MaxAttempts
          /\ st = "completed" => pc[w] = "stop"
          /\ Release(w, st, a)
  <2>1. CASE Snooze(w)
    <3>1. /\ HeldJob(w).attempt - 1 \in 0..MaxAttempts
          /\ HeldJob(w).attempt - 1 < MaxAttempts
      BY <1>1, PipelineAssumption
    <3> QED
      BY <2>1, <3>1 DEF Snooze
  <2>2. CASE Complete(w)
    <3>1. HeldJob(w).attempt \in 0..MaxAttempts
      BY <1>1, PipelineAssumption
    <3> QED
      BY <2>2, <3>1 DEF Complete
  <2>3. CASE Release(w, AfterError(HeldJob(w)), HeldJob(w).attempt)
    <3>1. /\ HeldJob(w).attempt \in 0..MaxAttempts
          /\ AfterError(HeldJob(w)) \in {"available", "discarded"}
          /\ AfterError(HeldJob(w)) = "available" => HeldJob(w).attempt < MaxAttempts
      BY <1>1, PipelineAssumption DEF AfterError
    <3> QED
      BY <2>3, <3>1
  <2> QED
    BY <2>1, <2>2, <2>3 DEF Fail, ApplyThenFail, Conflict
<1> QED
  BY <1>1, <1>2, <1>3, <1>4

\* However a call of Work ends, StructInv is preserved.
LEMMA OutcomeStruct ==
    ASSUME StructInv, NEW w \in Workers,
           \/ Fail(w) \/ ApplyThenFail(w) \/ Conflict(w) \/ Complete(w) \/ Snooze(w)
    PROVE  StructInv'
BY OutcomeRelease, ReleaseStep

\* StructInv is inductive.
LEMMA StructNext == StructInv /\ [Next]_vars => StructInv'
<1> SUFFICES ASSUME StructInv, [Next]_vars PROVE StructInv'
  OBVIOUS
<1>1. CASE Ingest
  BY <1>1, AppendStruct DEF Ingest
<1>2. ASSUME NEW w \in Workers, Step(w) \/ Fail(w) \/ ApplyThenFail(w)
      PROVE  StructInv'
  BY <1>2, ReadStruct, ApplyStruct, CommitStruct, OutcomeStruct DEF Step
<1>3. ASSUME NEW w \in Workers, NEW j \in JobIds, Claim(w, j)
      PROVE  StructInv'
  BY <1>3, ClaimStruct
<1>4. ASSUME NEW p \in Processes, Crash(p) \/ Restart(p)
      PROVE  StructInv'
  BY <1>4, ProcessStruct
<1>5. ASSUME NEW j \in JobIds, Rescue(j)
      PROVE  StructInv'
  BY <1>5, RescueStruct
<1>6. CASE UNCHANGED vars
  BY <1>6 DEF vars, lakeVars, workerVars, StructInv, TypeOK, LakeInv, JobsInv, HoldInv,
              SliceInv, HeldJob, Covered
<1> QED
  BY <1>1, <1>2, <1>3, <1>4, <1>5, <1>6 DEF Next

\* Type correctness of the pipeline: every row, job, run and worker keeps its
\* type at every step, whatever order producers append in; the cursor stays
\* a sequence of the stream and an attempt count never passes MaxAttempts.
THEOREM TypeCorrect == Spec => []TypeOK
<1>1. Init => StructInv
  BY StructInit
<1>2. StructInv /\ [Next]_vars => StructInv'
  BY StructNext
<1>3. StructInv => TypeOK
  BY DEF StructInv
<1> QED
  BY <1>1, <1>2, <1>3, PTL DEF Spec

-----------------------------------------------------------------------------
(* Fed in order, nothing is skipped and no backlog is forgotten *)

OrderedInv ==
    /\ StampInv /\ CursorCovered /\ BacklogHasJob
    /\ \A w \in Workers : PrefixOf(w) /\ StopOf(w)

\* What worker w is working on is what it was working on before the step.
SameWork(w) ==
    /\ pc'[w] = pc[w] /\ seen'[w] = seen[w] /\ slice'[w] = slice[w]
    /\ HeldJob(w)'.stream = HeldJob(w).stream
    /\ HeldJob(w)'.through = HeldJob(w).through

\* A step that appends no event: it is enough that the cursor only moves over
\* covered events, that no head job is completed while events wait, and that
\* each worker that moved has an unbroken slice.
LEMMA OrderedStep ==
    ASSUME StructInv, StructInv', OrderedProducer, OrderedInv,
           UNCHANGED <<events, last>>,
           \A s \in Streams : cursor[s] <= cursor'[s],
           \A e \in events : e.seq <= cursor'[e.stream] => e \in Covered',
           \A e \in stamped' : e.seq <= cursor'[e.stream],
           \A e \in events, j \in JobIds :
               e.seq > cursor'[e.stream] /\ HeadJob(e.stream, j) => HeadJob(e.stream, j)',
           \A w \in Workers : \/ pc'[w] \in {"idle", "check", "plan", "snooze"}
                              \/ pc[w] # "idle" /\ SameWork(w)
                              \/ (PrefixOf(w) /\ StopOf(w))'
    PROVE  OrderedInv'
<1>1. /\ cursor \in [Streams -> 0..MaxSeq] /\ cursor' \in [Streams -> 0..MaxSeq]
      /\ events \subseteq Event
  BY DEF StructInv, TypeOK
<1>2. \A e \in events : /\ e.stream \in Streams /\ e.seq \in Nat
                        /\ cursor[e.stream] \in Int /\ cursor'[e.stream] \in Int
                        /\ cursor[e.stream] <= cursor'[e.stream]
  BY <1>1 DEF Event
<1>3. \A e \in events : e.seq <= cursor[e.stream] => e.seq <= cursor'[e.stream]
  BY <1>2
<1>4. StampInv' /\ CursorCovered'
  BY DEF StampInv, CursorCovered
<1>5. BacklogHasJob'
  <2> SUFFICES ASSUME NEW e \in events, e.seq > cursor'[e.stream]
               PROVE  \E j \in JobIds : HeadJob(e.stream, j)'
    BY DEF BacklogHasJob
  <2>1. e.seq > cursor[e.stream]
    BY <1>2
  <2> QED
    BY <2>1 DEF OrderedInv, BacklogHasJob
<1>6. ASSUME NEW w \in Workers PROVE (PrefixOf(w) /\ StopOf(w))'
  <2>1. CASE pc'[w] \in {"idle", "check", "plan", "snooze"}
    BY <2>1 DEF PrefixOf, StopOf
  <2>2. CASE pc[w] # "idle" /\ SameWork(w)
    <3>1. PrefixOf(w) /\ StopOf(w) /\ HeldJob(w) \in Job /\ seen[w] \in 0..MaxSeq
      BY <2>2 DEF OrderedInv, StructInv, HoldInv, TypeOK, HeldJob
    <3>2. /\ cursor[HeldJob(w).stream] <= cursor'[HeldJob(w).stream]
          /\ cursor[HeldJob(w).stream] \in Int /\ cursor'[HeldJob(w).stream] \in Int
      BY <1>1, <3>1 DEF Job
    <3>3. PrefixOf(w)'
      <4>1. pc'[w] = "read" => seen'[w] <= cursor'[HeldJob(w)'.stream]
        BY <2>2, <3>1, <3>2 DEF PrefixOf, SameWork
      <4>2. pc'[w] \in {"apply", "commit"} =>
              \A e \in events, f \in slice'[w] :
                  e.stream = f.stream /\ e.seq <= f.seq =>
                      e \in slice'[w] \/ e.seq <= cursor'[e.stream]
        BY <1>3, <2>2, <3>1 DEF PrefixOf, SameWork
      <4> QED
        BY <4>1, <4>2 DEF PrefixOf
    <3>4. StopOf(w)'
      BY <1>3, <2>2, <3>1 DEF StopOf, SameWork
    <3> QED
      BY <3>3, <3>4
  <2> QED
    BY <2>1, <2>2
<1> QED
  BY <1>4, <1>5, <1>6 DEF OrderedInv

\* The initial state satisfies OrderedInv.
LEMMA OrderedInit == Init => OrderedInv
<1> SUFFICES ASSUME Init PROVE OrderedInv
  OBVIOUS
<1>1. StampInv /\ CursorCovered /\ BacklogHasJob
  BY DEF Init, StampInv, CursorCovered, BacklogHasJob
<1>2. \A w \in Workers : PrefixOf(w) /\ StopOf(w)
  BY DEF Init, PrefixOf, StopOf
<1> QED
  BY <1>1, <1>2 DEF OrderedInv

\* A batch that arrives in order opens no hole in any slice in hand, and its
\* own job is the one that has to reach the new head.
LEMMA AppendOrdered ==
    ASSUME StructInv, OrderedProducer, OrderedInv,
           NEW s \in Streams, NEW b \in Batches(s), NEW done \in BOOLEAN,
           NEW j \in JobIds, NEW head \in {e.seq : e \in b}, \A e \in b : e.seq <= head,
           AppendSession(s, b, head, done, j)
    PROVE  OrderedInv'
<1>1. /\ b \subseteq Event /\ head \in Seqs /\ \A e \in b : e.stream = s
      /\ Accepted(b) \subseteq b
  BY PipelineAssumption DEF Batches, Event, Seqs, Accepted
<1>2. /\ events \subseteq Event /\ last \in [Streams -> 0..MaxSeq]
      /\ cursor \in [Streams -> 0..MaxSeq]
      /\ \A e \in events : e.seq <= last[e.stream]
      /\ \A r \in Streams : cursor[r] <= last[r]
  BY DEF StructInv, TypeOK, LakeInv
<1>3. /\ events' = events \cup Accepted(b)
      /\ \A e \in Accepted(b) : e.stream = s /\ e.seq > last[s] /\ e.seq > cursor[s]
  <2>1. \A e \in Accepted(b) : e.seq > last[s]
    BY <1>1, <1>2 DEF AppendSession, InOrder, Accepted
  <2> QED
    BY <1>1, <1>2, <2>1 DEF AppendSession, Event
<1>4. UNCHANGED <<cursor, stamped, runs, workerVars>> /\ Covered' = Covered
  BY DEF AppendSession, Covered
<1>5. StampInv' /\ CursorCovered'
  <2>1. \A e \in Accepted(b) : ~ (e.seq <= cursor[e.stream])
    BY <1>1, <1>2, <1>3 DEF Event
  <2> QED
    BY <1>3, <1>4, <2>1 DEF OrderedInv, StampInv, CursorCovered
<1>6. /\ jobs'[j] = [state |-> "available", stream |-> s, through |-> head,
                     requireCurrent |-> ~done, attempt |-> 0]
      /\ jobs'[j] # NoJob
      /\ \A i \in JobIds : i # j => jobs'[i] = jobs[i]
      /\ \A r \in Streams : r # s => last'[r] = last[r]
      /\ last'[s] = IF head > last[s] THEN head ELSE last[s]
  <2>1. jobs'[j] = [state |-> "available", stream |-> s, through |-> head,
                     requireCurrent |-> ~done, attempt |-> 0]
    BY DEF AppendSession, StructInv, TypeOK
  <2>2. jobs'[j] \in Job
    BY <1>1, <2>1, PipelineAssumption DEF Job
  <2> QED
    BY <1>2, <2>1, <2>2, NoneAssumption DEF AppendSession, StructInv, TypeOK
<1>7. CASE head > last[s]
  <2>1. BacklogHasJob'
    <3> SUFFICES ASSUME NEW e \in events', e.seq > cursor[e.stream]
                 PROVE  \E i \in JobIds : HeadJob(e.stream, i)'
      BY <1>4 DEF BacklogHasJob
    <3>1. CASE e.stream = s
      BY <1>6, <1>7, <3>1 DEF HeadJob
    <3>2. CASE e.stream # s
      <4>1. e \in events /\ e.stream \in Streams
        BY <1>2, <1>3, <3>2 DEF Event
      <4>2. PICK i \in JobIds : HeadJob(e.stream, i)
        BY <4>1 DEF OrderedInv, BacklogHasJob
      <4>3. i # j
        BY <4>2 DEF HeadJob, AppendSession
      <4> QED
        BY <1>6, <3>2, <4>1, <4>2, <4>3 DEF HeadJob
    <3> QED
      BY <3>1, <3>2
  <2>2. ASSUME NEW w \in Workers PROVE (PrefixOf(w) /\ StopOf(w))'
    <3>1. CASE pc[w] = "idle"
      BY <1>4, <3>1 DEF PrefixOf, StopOf, workerVars
    <3>2. CASE pc[w] # "idle"
      <4>1. /\ held[w] \in JobIds /\ held[w] # j /\ HeldJob(w) \in Job
            /\ HeldJob(w).through <= last[HeldJob(w).stream]
        BY <3>2 DEF StructInv, HoldInv, HeldJob, AppendSession, TypeOK, JobsInv
      <4>2. HeldJob(w)' = HeldJob(w)
        BY <1>4, <1>6, <4>1 DEF HeldJob, workerVars
      <4>3. PrefixOf(w)'
        <5>1. ASSUME pc[w] \in {"apply", "commit"}, NEW e \in Accepted(b), NEW f \in slice[w]
              PROVE  ~ (e.stream = f.stream /\ e.seq <= f.seq)
          <6>1. f \in events
            BY <5>1 DEF StructInv, SliceInv
          <6> QED
            BY <1>1, <1>2, <1>3, <6>1 DEF Event
        <5> QED
          BY <1>3, <1>4, <4>2, <5>1 DEF OrderedInv, PrefixOf, workerVars
      <4>4. StopOf(w)'
        <5>1. CASE HeldJob(w).stream = s
          <6>1. HeldJob(w).through # last'[s]
            BY <1>1, <1>2, <1>6, <1>7, <4>1, <5>1 DEF Job, Seqs
          <6> QED
            BY <4>2, <5>1, <6>1 DEF StopOf
        <5>2. CASE HeldJob(w).stream # s
          <6>1. \A e \in events' : e.stream = HeldJob(w).stream => e \in events
            BY <1>3, <5>2
          <6>2. last'[HeldJob(w).stream] = last[HeldJob(w).stream]
            BY <1>6, <4>1, <5>2 DEF Job
          <6> QED
            BY <1>4, <4>2, <6>1, <6>2 DEF OrderedInv, StopOf, workerVars
        <5> QED
          BY <5>1, <5>2
      <4> QED
        BY <4>3, <4>4
    <3> QED
      BY <3>1, <3>2
  <2> QED
    BY <1>5, <2>1, <2>2 DEF OrderedInv
<1>8. CASE ~ (head > last[s])
  <2>1. Accepted(b) = {}
    BY <1>1, <1>2, <1>3, <1>8 DEF Event, Seqs
  <2>2. events' = events /\ last' = last
    BY <1>2, <1>3, <1>6, <1>8, <2>1 DEF AppendSession
  <2>3. BacklogHasJob'
    <3> SUFFICES ASSUME NEW e \in events, e.seq > cursor[e.stream]
                 PROVE  \E i \in JobIds : HeadJob(e.stream, i)'
      BY <1>4, <2>2 DEF BacklogHasJob
    <3>1. PICK i \in JobIds : HeadJob(e.stream, i)
      BY DEF OrderedInv, BacklogHasJob
    <3>2. i # j
      BY <3>1 DEF HeadJob, AppendSession
    <3> QED
      BY <1>6, <2>2, <3>1, <3>2 DEF HeadJob
  <2>4. ASSUME NEW w \in Workers PROVE (PrefixOf(w) /\ StopOf(w))'
    <3>1. CASE pc[w] = "idle"
      BY <1>4, <3>1 DEF PrefixOf, StopOf, workerVars
    <3>2. CASE pc[w] # "idle"
      <4>1. held[w] \in JobIds /\ held[w] # j
        BY <3>2 DEF StructInv, HoldInv, HeldJob, AppendSession
      <4>2. HeldJob(w)' = HeldJob(w)
        BY <1>4, <1>6, <4>1 DEF HeldJob, workerVars
      <4> QED
        BY <1>4, <2>2, <4>2 DEF OrderedInv, PrefixOf, StopOf, workerVars
    <3> QED
      BY <3>1, <3>2
  <2> QED
    BY <1>5, <2>3, <2>4 DEF OrderedInv
<1> QED
  BY <1>7, <1>8

\* A worker lets go of its job: a head job is completed only when StopOf says
\* that nothing waits.
LEMMA ReleaseOrdered ==
    ASSUME StructInv, StructInv', OrderedProducer, OrderedInv,
           NEW w \in Workers, pc[w] # "idle",
           NEW st \in {"available", "completed", "discarded"}, NEW a \in 0..MaxAttempts,
           st = "completed" => pc[w] = "stop",
           Release(w, st, a), UNCHANGED lakeVars, Covered \subseteq Covered'
    PROVE  OrderedInv'
<1>1. /\ held[w] \in JobIds /\ HeldJob(w) \in Job
      /\ events \subseteq Event /\ cursor \in [Streams -> 0..MaxSeq]
      /\ jobs \in [JobIds -> Job \cup {NoJob}] /\ jobs' \in [JobIds -> Job \cup {NoJob}]
  BY DEF StructInv, HoldInv, TypeOK, HeldJob
<1>2. /\ \A i \in JobIds : i # held[w] => jobs'[i] = jobs[i]
      /\ jobs'[held[w]] = [jobs[held[w]] EXCEPT !.state = st, !.attempt = a]
  BY <1>1 DEF Release, HeldJob, Job
<1>3. /\ jobs'[held[w]] # NoJob /\ jobs'[held[w]].state = st
      /\ jobs'[held[w]].stream = HeldJob(w).stream
      /\ jobs'[held[w]].through = HeldJob(w).through
  <2>1. jobs[held[w]] \in Job
    BY <1>1 DEF HeldJob
  <2>2. jobs'[held[w]] = [state |-> st, stream |-> jobs[held[w]].stream,
                          through |-> jobs[held[w]].through,
                          requireCurrent |-> jobs[held[w]].requireCurrent, attempt |-> a]
    BY <1>2, <2>1 DEF Job
  <2>3. jobs'[held[w]] # NoJob
    <3>1. jobs'[held[w]] \in Job
      BY <2>1, <2>2 DEF Job
    <3> QED
      BY <3>1, NoneAssumption
  <2> QED
    BY <2>2, <2>3 DEF HeldJob
<1>4. ASSUME NEW v \in Workers
      PROVE  pc'[v] = "idle" \/ (pc[v] # "idle" /\ SameWork(v))
  <2>1. CASE v = w
    BY <2>1 DEF Release, StructInv, TypeOK
  <2>2. CASE v # w /\ pc[v] = "idle"
    BY <2>2 DEF Release, StructInv, TypeOK
  <2>3. CASE v # w /\ pc[v] # "idle"
    <3>1. held[v] \in JobIds /\ held[v] # held[w]
      BY <1>1, <2>3, NoneAssumption DEF StructInv, HoldInv
    <3>2. /\ pc'[v] = pc[v] /\ held'[v] = held[v] /\ slice'[v] = slice[v]
          /\ seen'[v] = seen[v]
      BY <2>3 DEF Release, StructInv, TypeOK
    <3> QED
      BY <1>2, <2>3, <3>1, <3>2 DEF SameWork, HeldJob
  <2> QED
    BY <2>1, <2>2, <2>3
<1>5. ASSUME NEW e \in events, NEW i \in JobIds, e.seq > cursor[e.stream],
             HeadJob(e.stream, i)
      PROVE  HeadJob(e.stream, i)'
  <2>1. CASE i # held[w]
    BY <1>2, <1>5, <2>1 DEF HeadJob, lakeVars
  <2>2. CASE i = held[w]
    <3>1. HeldJob(w).stream = e.stream /\ HeldJob(w).through = last[e.stream]
      BY <1>5, <2>2 DEF HeadJob, HeldJob
    <3>2. st # "completed"
      <4>1. ~ (e.seq <= cursor[e.stream])
        BY <1>1, <1>5 DEF Event
      <4> QED
        BY <3>1, <4>1 DEF OrderedInv, StopOf
    <3> QED
      BY <1>3, <2>2, <3>1, <3>2 DEF HeadJob, lakeVars
  <2> QED
    BY <2>1, <2>2
<1>6. \A s \in Streams : cursor[s] <= cursor'[s]
  BY <1>1 DEF lakeVars
<1>7. /\ \A e \in events : e.seq <= cursor'[e.stream] => e \in Covered'
      /\ \A e \in stamped' : e.seq <= cursor'[e.stream]
      /\ UNCHANGED <<events, last, cursor>>
  BY DEF OrderedInv, CursorCovered, StampInv, lakeVars
<1> QED
  BY <1>4, <1>5, <1>6, <1>7, OrderedStep

\* However a call of Work ends, OrderedInv is preserved.
LEMMA OutcomeOrdered ==
    ASSUME StructInv, StructInv', OrderedProducer, OrderedInv, NEW w \in Workers,
           \/ Fail(w) \/ ApplyThenFail(w) \/ Conflict(w) \/ Complete(w) \/ Snooze(w)
    PROVE  OrderedInv'
BY OutcomeRelease, ReleaseOrdered

\* Claiming, crashing, restarting and rescuing move no cursor and complete no
\* job.
LEMMA QueueOrdered ==
    ASSUME StructInv, StructInv', OrderedProducer, OrderedInv,
           \/ \E w \in Workers, j \in JobIds : Claim(w, j)
           \/ \E p \in Processes : Crash(p) \/ Restart(p)
           \/ \E j \in JobIds : Rescue(j)
    PROVE  OrderedInv'
<1>1. UNCHANGED lakeVars /\ UNCHANGED runs
  BY DEF Claim, Crash, Restart, Rescue
<1>2. /\ \A s \in Streams : cursor[s] <= cursor'[s]
      /\ \A e \in events : e.seq <= cursor'[e.stream] => e \in Covered'
      /\ \A e \in stamped' : e.seq <= cursor'[e.stream]
      /\ UNCHANGED <<events, last, cursor>>
  <2>1. Covered' = Covered
    BY <1>1 DEF Covered
  <2>2. cursor \in [Streams -> 0..MaxSeq]
    BY DEF StructInv, TypeOK
  <2> QED
    BY <1>1, <2>1, <2>2 DEF lakeVars, OrderedInv, CursorCovered, StampInv
<1>3. ASSUME NEW j \in JobIds, jobs[j] # NoJob
      PROVE  /\ jobs'[j] # NoJob /\ jobs'[j].stream = jobs[j].stream
             /\ jobs'[j].through = jobs[j].through
             /\ jobs[j].state # "completed" => jobs'[j].state # "completed"
  <2>1. jobs[j] \in Job /\ jobs \in [JobIds -> Job \cup {NoJob}]
    BY <1>3 DEF StructInv, TypeOK
  <2>2. CASE UNCHANGED jobs
    BY <1>3, <2>2
  <2>3. ASSUME NEW w \in Workers, NEW i \in JobIds, Claim(w, i)
        PROVE  /\ jobs'[j] # NoJob /\ jobs'[j].stream = jobs[j].stream
               /\ jobs'[j].through = jobs[j].through
               /\ jobs[j].state # "completed" => jobs'[j].state # "completed"
    <3>1. CASE i # j
      BY <1>3, <2>1, <2>3, <3>1 DEF Claim
    <3>2. CASE i = j
      <4>1. jobs'[j] = [state |-> "running", stream |-> jobs[j].stream,
                        through |-> jobs[j].through,
                        requireCurrent |-> jobs[j].requireCurrent,
                        attempt |-> jobs[j].attempt + 1]
        BY <2>1, <2>3, <3>2 DEF Claim, Job
      <4>2. jobs[j].attempt \in 0..MaxAttempts /\ jobs[j].attempt < MaxAttempts
        BY <2>1, <2>3, <3>2 DEF Claim, StructInv, JobsInv, Job
      <4>3. jobs[j].attempt + 1 \in 0..MaxAttempts
        BY <4>2, PipelineAssumption
      <4>4. jobs'[j] \in Job
        BY <2>1, <4>1, <4>3 DEF Job
      <4> QED
        BY <4>1, <4>4, NoneAssumption
    <3> QED
      BY <3>1, <3>2
  <2>4. ASSUME NEW i \in JobIds, Rescue(i)
        PROVE  /\ jobs'[j] # NoJob /\ jobs'[j].stream = jobs[j].stream
               /\ jobs'[j].through = jobs[j].through
               /\ jobs[j].state # "completed" => jobs'[j].state # "completed"
    <3>1. CASE i # j
      BY <1>3, <2>1, <2>4, <3>1 DEF Rescue
    <3>2. CASE i = j
      <4>1. jobs'[j] = [state |-> AfterError(jobs[j]), stream |-> jobs[j].stream,
                        through |-> jobs[j].through,
                        requireCurrent |-> jobs[j].requireCurrent,
                        attempt |-> jobs[j].attempt]
        BY <2>1, <2>4, <3>2 DEF Rescue, Job
      <4>2. AfterError(jobs[j]) \in {"available", "discarded"}
        BY DEF AfterError
      <4>3. jobs'[j] \in Job
        BY <2>1, <4>1, <4>2 DEF Job
      <4> QED
        BY <4>1, <4>2, <4>3, NoneAssumption
    <3> QED
      BY <3>1, <3>2
  <2> QED
    BY <2>2, <2>3, <2>4 DEF Crash, Restart
<1>4. \A e \in events, j \in JobIds : HeadJob(e.stream, j) => HeadJob(e.stream, j)'
  BY <1>2, <1>3 DEF HeadJob
<1>5. ASSUME NEW v \in Workers
      PROVE  \/ pc'[v] \in {"idle", "check", "plan", "snooze"}
             \/ pc[v] # "idle" /\ SameWork(v)
  <2>1. CASE pc'[v] \in {"idle", "check", "plan", "snooze"}
    BY <2>1
  <2>2. CASE ~ (pc'[v] \in {"idle", "check", "plan", "snooze"})
    <3>1. /\ pc'[v] = pc[v] /\ held'[v] = held[v] /\ slice'[v] = slice[v]
          /\ seen'[v] = seen[v]
      <4>1. /\ pc \in [Workers -> Working \cup {"idle", "stop", "snooze"}]
            /\ held \in [Workers -> JobIds \cup {NoJob}]
        BY DEF StructInv, TypeOK
      <4>2. ASSUME NEW w \in Workers, NEW j \in JobIds, Claim(w, j)
            PROVE  /\ pc'[v] = pc[v] /\ held'[v] = held[v] /\ slice'[v] = slice[v]
                   /\ seen'[v] = seen[v]
        <5>1. v # w
          BY <2>2, <4>1, <4>2 DEF Claim
        <5> QED
          BY <4>1, <4>2, <5>1 DEF Claim
      <4>3. ASSUME NEW p \in Processes, Crash(p)
            PROVE  /\ pc'[v] = pc[v] /\ held'[v] = held[v] /\ slice'[v] = slice[v]
                   /\ seen'[v] = seen[v]
        BY <2>2, <4>3 DEF Crash
      <4> QED
        BY <4>2, <4>3 DEF Restart, Rescue, workerVars
    <3>2. held[v] \in JobIds /\ jobs[held[v]] # NoJob /\ pc[v] # "idle"
      BY <2>2, <3>1 DEF StructInv, HoldInv, HeldJob
    <3> QED
      BY <1>3, <3>1, <3>2 DEF SameWork, HeldJob
  <2> QED
    BY <2>1, <2>2
<1> QED
  BY <1>2, <1>4, <1>5, OrderedStep

\* The reads: a slice holds every event from the cursor it read to its end,
\* and an empty one means that nothing waits up to the job's bound.
LEMMA ReadOrdered ==
    ASSUME StructInv, StructInv', OrderedProducer, OrderedInv, NEW w \in Workers,
           IsCurrent(w) \/ ReadCursor(w) \/ ReadEvents(w)
    PROVE  OrderedInv'
<1>1. /\ pc[w] # "idle" /\ HeldJob(w) \in Job /\ HeldJob(w).stream \in Streams
      /\ HeldJob(w).through \in Nat \ {0} /\ seen[w] \in Nat
      /\ events \in SUBSET Event /\ IsFiniteSet(events)
      /\ \A e, f \in events : e.stream = f.stream /\ e.seq = f.seq => e = f
      /\ \A e \in events : e.seq <= last[e.stream]
      /\ cursor \in [Streams -> 0..MaxSeq]
      /\ last \in [Streams -> 0..MaxSeq]
  <2>1. pc[w] # "idle" /\ HeldJob(w) \in Job
    BY DEF IsCurrent, ReadCursor, ReadEvents, StructInv, HoldInv, TypeOK, HeldJob
  <2> QED
    BY <2>1, PipelineAssumption DEF StructInv, TypeOK, LakeInv, Job, Seqs
<1>2. UNCHANGED <<lakeVars, jobs, runs, held>> /\ HeldJob(w)' = HeldJob(w)
  BY DEF IsCurrent, ReadCursor, ReadEvents, HeldJob
<1>3. /\ \A s \in Streams : cursor[s] <= cursor'[s]
      /\ \A e \in events : e.seq <= cursor'[e.stream] => e \in Covered'
      /\ \A e \in stamped' : e.seq <= cursor'[e.stream]
      /\ UNCHANGED <<events, last, cursor>>
      /\ \A e \in events, j \in JobIds : HeadJob(e.stream, j) => HeadJob(e.stream, j)'
  <2>1. Covered' = Covered
    BY <1>2 DEF Covered
  <2> QED
    BY <1>1, <1>2, <2>1 DEF lakeVars, OrderedInv, CursorCovered, StampInv, HeadJob
<1>4. \A v \in Workers : v # w => pc'[v] = "idle" \/ (pc[v] # "idle" /\ SameWork(v))
  BY <1>2 DEF IsCurrent, ReadCursor, ReadEvents, StructInv, TypeOK, SameWork, HeldJob
<1>5. pc \in [Workers -> Working \cup {"idle", "stop", "snooze"}]
      /\ slice \in [Workers -> SUBSET Event] /\ seen \in [Workers -> 0..MaxSeq]
  BY DEF StructInv, TypeOK
<1>6. CASE IsCurrent(w)
  <2>1. pc'[w] = "plan" \/ (pc'[w] = "stop" /\ HeldJob(w).through # last[HeldJob(w).stream])
    BY <1>5, <1>6 DEF IsCurrent
  <2>2. pc'[w] = "plan" \/ (PrefixOf(w) /\ StopOf(w))'
    BY <1>2, <1>3, <2>1 DEF PrefixOf, StopOf
  <2> QED
    BY <1>3, <1>4, <2>2, OrderedStep
<1>7. CASE ReadCursor(w)
  <2>1. pc'[w] = "read" /\ seen'[w] = cursor[HeldJob(w).stream]
    BY <1>5, <1>7 DEF ReadCursor
  <2>2. (PrefixOf(w) /\ StopOf(w))'
    BY <1>1, <1>2, <1>3, <2>1 DEF PrefixOf, StopOf
  <2> QED
    BY <1>3, <1>4, <2>2, OrderedStep
<1>8. CASE ReadEvents(w)
  <2> DEFINE new == NewEvents(events, HeldJob(w).stream, seen[w], HeldJob(w).through)
  <2>1. /\ new \subseteq {e \in events : /\ e.stream = HeldJob(w).stream
                                        /\ e.seq > seen[w] /\ e.seq <= HeldJob(w).through}
        /\ \A e \in events, f \in new :
              e.stream = HeldJob(w).stream /\ e.seq > seen[w] /\ e.seq <= f.seq => e \in new
    BY <1>1, NewEventsPrefix
  <2>2. new = {} => \A e \in events : e.stream = HeldJob(w).stream /\ e.seq > seen[w]
                                          => e.seq > HeldJob(w).through
    BY <1>1, NewEventsEmpty
  <2>3. seen[w] <= cursor[HeldJob(w).stream]
    BY <1>8 DEF OrderedInv, PrefixOf, ReadEvents
  <2>4. \/ pc'[w] = "snooze"
        \/ pc'[w] = "stop" /\ new = {}
        \/ pc'[w] = "apply" /\ slice'[w] = new
    BY <1>5, <1>8 DEF ReadEvents
  <2> HIDE DEF new
  <2>5. CASE pc'[w] = "stop" /\ new = {}
    <3>1. ASSUME NEW e \in events, e.stream = HeldJob(w).stream,
                 HeldJob(w).through = last[HeldJob(w).stream]
          PROVE  e.seq <= cursor[e.stream]
      <4>1. ~ (e.seq > HeldJob(w).through)
        BY <1>1, <3>1 DEF Event
      <4>2. ~ (e.seq > seen[w])
        BY <2>2, <2>5, <3>1, <4>1
      <4> QED
        BY <1>1, <2>3, <3>1, <4>2 DEF Event
    <3>2. (PrefixOf(w) /\ StopOf(w))'
      BY <1>2, <1>3, <2>5, <3>1 DEF PrefixOf, StopOf
    <3> QED
      BY <1>3, <1>4, <3>2, OrderedStep
  <2>6. CASE pc'[w] = "apply" /\ slice'[w] = new
    <3>1. ASSUME NEW e \in events, NEW f \in new, e.stream = f.stream, e.seq <= f.seq
          PROVE  e \in new \/ e.seq <= cursor[e.stream]
      <4>1. f.stream = HeldJob(w).stream
        BY <2>1
      <4>2. CASE e.seq > seen[w]
        BY <2>1, <3>1, <4>1, <4>2
      <4>3. CASE ~ (e.seq > seen[w])
        BY <1>1, <2>3, <3>1, <4>1, <4>3 DEF Event
      <4> QED
        BY <4>2, <4>3
    <3>2. (PrefixOf(w) /\ StopOf(w))'
      BY <1>3, <2>6, <3>1 DEF PrefixOf, StopOf
    <3> QED
      BY <1>3, <1>4, <3>2, OrderedStep
  <2>7. CASE pc'[w] = "snooze"
    BY <1>3, <1>4, <2>7, OrderedStep
  <2> QED
    BY <2>4, <2>5, <2>6, <2>7
<1> QED
  BY <1>6, <1>7, <1>8

\* ApplyExtractionRun only adds to what is covered.
LEMMA ApplyOrdered ==
    ASSUME StructInv, StructInv', OrderedProducer, OrderedInv, NEW w \in Workers,
           \/ ApplyNew(w, "completed") \/ ApplyNew(w, "quarantined")
           \/ Replay(w)
    PROVE  OrderedInv'
<1>1. /\ UNCHANGED <<lakeVars, jobs, held, seen, slice>> /\ pc[w] = "apply"
      /\ pc' = [pc EXCEPT ![w] = "commit"] /\ runs \subseteq runs'
      /\ pc \in [Workers -> Working \cup {"idle", "stop", "snooze"}]
      /\ cursor \in [Streams -> 0..MaxSeq]
  BY DEF ApplyNew, Replay, StructInv, TypeOK
<1>2. /\ \A s \in Streams : cursor[s] <= cursor'[s]
      /\ \A e \in events : e.seq <= cursor'[e.stream] => e \in Covered'
      /\ \A e \in stamped' : e.seq <= cursor'[e.stream]
      /\ UNCHANGED <<events, last, cursor>>
      /\ \A e \in events, j \in JobIds : HeadJob(e.stream, j) => HeadJob(e.stream, j)'
  <2>1. Covered \subseteq Covered'
    BY <1>1 DEF Covered
  <2> QED
    BY <1>1, <2>1 DEF lakeVars, OrderedInv, CursorCovered, StampInv, HeadJob
<1>3. \A v \in Workers : v # w => pc'[v] = "idle" \/ (pc[v] # "idle" /\ SameWork(v))
  BY <1>1 DEF SameWork, HeldJob
<1>4. (PrefixOf(w) /\ StopOf(w))'
  BY <1>1, <1>2 DEF OrderedInv, PrefixOf, StopOf
<1> QED
  BY <1>2, <1>3, <1>4, OrderedStep

\* The cursor moves to the end of a slice without holes whose run is durable.
LEMMA CommitOrdered ==
    ASSUME StructInv, StructInv', OrderedProducer, OrderedInv, NEW w \in Workers,
           CommitSlice(w)
    PROVE  OrderedInv'
<1> DEFINE s == HeldJob(w).stream
           to == ToSequence(slice[w])
<1>1. /\ s \in Streams /\ slice[w] # {} /\ slice[w] \subseteq events
      /\ slice[w] \subseteq Event /\ slice[w] \subseteq Covered
      /\ \A e \in slice[w] : e.stream = s
  BY DEF CommitSlice, StructInv, HoldInv, SliceInv, TypeOK, HeldJob, Job
<1>2. /\ cursor \in [Streams -> 0..MaxSeq] /\ events \subseteq Event
      /\ last[s] \in Nat /\ \A e \in slice[w] : e.seq <= last[s]
      /\ pc \in [Workers -> Working \cup {"idle", "stop", "snooze"}]
      /\ slice \in [Workers -> SUBSET Event]
  BY <1>1, PipelineAssumption DEF StructInv, LakeInv, TypeOK
<1>3. PICK g \in slice[w] : to = g.seq
  BY <1>1, <1>2, ToSequenceMax
<1>4. to \in Nat
  BY <1>1, <1>3 DEF Event
<1>5. /\ cursor' = [cursor EXCEPT ![s] = IF to > cursor[s] THEN to ELSE cursor[s]]
      /\ stamped' = stamped \cup {e \in events : e.stream = s /\ e.seq <= to}
      /\ UNCHANGED <<events, last, jobs, runs, held, seen>>
      /\ pc' = [pc EXCEPT ![w] = "plan"] /\ slice' = [slice EXCEPT ![w] = {}]
  BY DEF CommitSlice
<1> HIDE DEF to
<1>6. /\ \A r \in Streams : cursor[r] <= cursor'[r]
      /\ \A r \in Streams : r # s => cursor'[r] = cursor[r]
      /\ cursor'[s] \in {cursor[s], to} /\ to <= cursor'[s] /\ cursor[s] <= cursor'[s]
  BY <1>1, <1>2, <1>4, <1>5
<1>7. ASSUME NEW e \in events, e.seq <= cursor'[e.stream]
      PROVE  e \in Covered'
  <2>0. Covered' = Covered
    BY <1>5 DEF Covered
  <2>1. CASE e.seq <= cursor[e.stream]
    BY <2>0, <2>1 DEF OrderedInv, CursorCovered
  <2>2. CASE ~ (e.seq <= cursor[e.stream])
    <3>1. e.stream = s
      BY <1>2, <1>6, <1>7, <2>2 DEF Event
    <3>2. e.seq <= g.seq /\ e.stream = g.stream
      BY <1>1, <1>3, <1>6, <1>7, <2>2, <3>1
    <3>3. e \in slice[w]
      BY <2>2, <3>2 DEF OrderedInv, PrefixOf, CommitSlice
    <3> QED
      BY <1>1, <2>0, <3>3
  <2> QED
    BY <2>1, <2>2
<1>8. ASSUME NEW e \in stamped' PROVE e.seq <= cursor'[e.stream]
  <2>0. stamped \subseteq events
    BY DEF StructInv, TypeOK
  <2>1. CASE e \in stamped
    <3>1. e.seq <= cursor[e.stream] /\ e.stream \in Streams /\ e.seq \in Nat
      BY <1>2, <2>0, <2>1 DEF OrderedInv, StampInv, Event
    <3>2. cursor[e.stream] \in Nat /\ cursor'[e.stream] \in Nat
      BY <1>2, <3>1 DEF StructInv, TypeOK
    <3> QED
      BY <1>6, <3>1, <3>2
  <2>2. CASE e \in events /\ e.stream = s /\ e.seq <= to
    <3>1. e.seq \in Nat /\ cursor'[s] \in Nat
      BY <1>1, <1>2, <2>2 DEF Event, StructInv, TypeOK
    <3> QED
      BY <1>4, <1>6, <2>2, <3>1
  <2> QED
    BY <1>5, <2>1, <2>2
<1>9. \A e \in events, j \in JobIds : HeadJob(e.stream, j) => HeadJob(e.stream, j)'
  BY <1>5 DEF HeadJob
<1>10. \A v \in Workers : pc'[v] = "plan" \/ pc'[v] = "idle" \/ (pc[v] # "idle" /\ SameWork(v))
  BY <1>2, <1>5 DEF SameWork, HeldJob
<1> QED
  BY <1>5, <1>6, <1>7, <1>8, <1>9, <1>10, OrderedStep

\* OrderedInv is inductive relative to StructInv.
LEMMA OrderedNext ==
    ASSUME StructInv, StructInv', OrderedProducer, OrderedInv, [Next]_vars
    PROVE  OrderedInv'
<1>1. CASE Ingest
  BY <1>1, AppendOrdered DEF Ingest
<1>2. ASSUME NEW w \in Workers, Step(w) \/ Fail(w) \/ ApplyThenFail(w)
      PROVE  OrderedInv'
  BY <1>2, ReadOrdered, ApplyOrdered, CommitOrdered, OutcomeOrdered DEF Step
<1>3. CASE \/ \E w \in Workers, j \in JobIds : Claim(w, j)
           \/ \E p \in Processes : Crash(p) \/ Restart(p)
           \/ \E j \in JobIds : Rescue(j)
  BY <1>3, QueueOrdered
<1>4. CASE UNCHANGED vars
  BY <1>4 DEF vars, lakeVars, workerVars, OrderedInv, StampInv, CursorCovered, BacklogHasJob,
              HeadJob, PrefixOf, StopOf, HeldJob, Covered
<1> QED
  BY <1>1, <1>2, <1>3, <1>4 DEF Next

\* PipelineInv, taken apart.
LEMMA PipelineInvParts ==
    PipelineInv <=> StructInv /\ (OrderedProducer => OrderedInv)
BY DEF PipelineInv, OrderedInv, CursorCovered, BacklogHasJob

\* PipelineInv is an inductive invariant of the pipeline.
LEMMA PipelineNext == PipelineInv /\ [Next]_vars => PipelineInv'
<1> SUFFICES ASSUME PipelineInv, [Next]_vars PROVE PipelineInv'
  OBVIOUS
<1>1. StructInv /\ (OrderedProducer => OrderedInv)
  BY PipelineInvParts
<1>2. StructInv'
  BY <1>1, StructNext
<1>3. OrderedProducer => OrderedInv'
  BY <1>1, <1>2, OrderedNext
<1> QED
  BY <1>2, <1>3 DEF PipelineInv, OrderedInv, CursorCovered, BacklogHasJob

\* The rows, the jobs and the workers of ProcessExtraction agree at every step,
\* and fed in order no worker ever holds a slice with a hole in it.
THEOREM PipelineCorrect == Spec => []PipelineInv
<1>1. Init => PipelineInv
  BY StructInit, OrderedInit, PipelineInvParts
<1> QED
  BY <1>1, PipelineNext, PTL DEF Spec

\* The runtime persists a run before it advances the cursor: at every moment
\* every event at or below a stream's cursor has a durable run.
THEOREM CursorNeverSkips == Spec => []CursorCovered
<1>1. PipelineInv => CursorCovered
  BY DEF PipelineInv
<1> QED
  BY <1>1, PipelineCorrect, PTL

\* The jobs that leave early because a newer batch overtook them (IsCurrent)
\* never leave a stream's backlog without a job.
THEOREM BacklogNeverForgotten == Spec => []BacklogHasJob
<1>1. PipelineInv => BacklogHasJob
  BY DEF PipelineInv
<1> QED
  BY <1>1, PipelineCorrect, PTL

\* With producers that append in order, AdvanceExtractionCursor sets
\* extracted_at only on events that a durable run covers.
THEOREM StampsAreCovered ==
    ASSUME OrderedProducer
    PROVE  Spec => []StampedCovered
<1>1. PipelineInv => StampedCovered
  BY DEF PipelineInv, StructInv, TypeOK, StampInv, CursorCovered, StampedCovered
<1> QED
  BY <1>1, PipelineCorrect, PTL

-----------------------------------------------------------------------------
(* One process extracts an event once *)

\* A worker has jobs of its own shard only; what it has read is still the
\* cursor, and its slice is still beyond it.
SerialWork(w) ==
    /\ pc[w] # "idle" => ShardOf[HeldJob(w).stream] = w[2]
    /\ pc[w] = "read" => seen[w] = cursor[HeldJob(w).stream]
    /\ pc[w] \in {"apply", "commit"} => \A e \in slice[w] : e.seq > cursor[e.stream]

\* A durable run is at or below the cursor, or its worker is about to move it.
RunsPlaced ==
    \A e \in Covered :
        e.seq <= cursor[e.stream] \/ \E w \in Workers : pc[w] = "commit" /\ e \in slice[w]

RunsApart == \A r1, r2 \in runs : r1 # r2 => r1.new \cap r2.new = {}

SerialInv == Serial => RunsPlaced /\ RunsApart /\ \A w \in Workers : SerialWork(w)

\* A step leaves the stream of every job that there is alone.
StreamsKept ==
    \A j \in JobIds : jobs[j] # NoJob => jobs'[j].stream = jobs[j].stream

\* Worker w goes on with what it was working on.
GoesOn(w) ==
    /\ pc'[w] = pc[w] /\ held'[w] = held[w] /\ seen'[w] = seen[w] /\ slice'[w] = slice[w]

\* No step changes the stream of a job.
LEMMA StreamsStay ==
    ASSUME StructInv, Next
    PROVE  StreamsKept
<1> SUFFICES ASSUME NEW j \in JobIds, jobs[j] # NoJob PROVE jobs'[j].stream = jobs[j].stream
  BY DEF StreamsKept
<1>1. jobs \in [JobIds -> Job \cup {NoJob}] /\ jobs[j] \in Job
  BY DEF StructInv, TypeOK
<1>2. CASE Ingest
  BY <1>1, <1>2 DEF Ingest, AppendSession
<1>3. ASSUME NEW w \in Workers, NEW st, NEW a, Release(w, st, a)
      PROVE  jobs'[j].stream = jobs[j].stream
  BY <1>1, <1>3 DEF Release, Job
<1>4. ASSUME NEW w \in Workers, Step(w) \/ Fail(w) \/ ApplyThenFail(w)
      PROVE  jobs'[j].stream = jobs[j].stream
  <2>1. UNCHANGED jobs \/ \E st, a : Release(w, st, a)
    BY <1>4 DEF Step, Fail, ApplyThenFail, IsCurrent, ReadCursor, ReadEvents, ApplyNew, Replay,
                Conflict, CommitSlice, Complete, Snooze
  <2> QED
    BY <1>3, <2>1
<1>5. ASSUME NEW w \in Workers, NEW i \in JobIds, Claim(w, i)
      PROVE  jobs'[j].stream = jobs[j].stream
  BY <1>1, <1>5 DEF Claim, Job
<1>6. CASE \E p \in Processes : Crash(p) \/ Restart(p)
  BY <1>6 DEF Crash, Restart
<1>7. ASSUME NEW i \in JobIds, Rescue(i)
      PROVE  jobs'[j].stream = jobs[j].stream
  BY <1>1, <1>7 DEF Rescue, Job
<1> QED
  BY <1>2, <1>4, <1>5, <1>6, <1>7 DEF Next

\* A worker that goes on while its stream's cursor stays keeps its place.
LEMMA SerialFrame ==
    ASSUME StructInv, StreamsKept, NEW w \in Workers, SerialWork(w), GoesOn(w),
           pc[w] # "idle" => cursor'[HeldJob(w).stream] = cursor[HeldJob(w).stream]
    PROVE  SerialWork(w)'
<1>1. CASE pc[w] = "idle"
  BY <1>1 DEF SerialWork, GoesOn
<1>2. CASE pc[w] # "idle"
  <2>1. held[w] \in JobIds /\ HeldJob(w) # NoJob
    BY <1>2 DEF StructInv, HoldInv
  <2>2. HeldJob(w)'.stream = HeldJob(w).stream
    BY <2>1 DEF GoesOn, HeldJob, StreamsKept
  <2>3. pc[w] \in {"apply", "commit"} => \A e \in slice[w] : e.stream = HeldJob(w).stream
    BY DEF StructInv, SliceInv
  <2> QED
    BY <1>2, <2>2, <2>3 DEF SerialWork, GoesOn
<1> QED
  BY <1>1, <1>2

\* One process has one worker for a stream.
LEMMA OneWorker ==
    ASSUME Serial, NEW v \in Workers, NEW w \in Workers, SerialWork(v), SerialWork(w),
           pc[v] # "idle", pc[w] # "idle", HeldJob(v).stream = HeldJob(w).stream
    PROVE  v = w
BY DEF Serial, SerialWork, Workers

\* Nothing of a slice in hand that is not applied yet has a durable run.
LEMMA SliceUncovered ==
    ASSUME StructInv, SerialInv, Serial, NEW w \in Workers, pc[w] = "apply"
    PROVE  slice[w] \cap Covered = {}
<1> SUFFICES ASSUME NEW e \in slice[w], e \in Covered PROVE FALSE
  OBVIOUS
<1>1. /\ e \in events /\ e.stream = HeldJob(w).stream /\ e.seq > cursor[e.stream]
      /\ e.seq \in Nat /\ cursor[e.stream] \in Nat
  BY DEF StructInv, SliceInv, SerialInv, SerialWork, TypeOK, Event
<1>2. PICK v \in Workers : pc[v] = "commit" /\ e \in slice[v]
  BY <1>1 DEF SerialInv, RunsPlaced
<1>3. e.stream = HeldJob(v).stream
  BY <1>2 DEF StructInv, SliceInv
<1>4. v = w
  BY <1>1, <1>2, <1>3, OneWorker DEF SerialInv
<1> QED
  BY <1>2, <1>4

\* Steps that move no cursor and add no run.
LEMMA SerialQuiet ==
    ASSUME StructInv, SerialInv, Serial, UNCHANGED <<cursor, runs>>,
           \A w \in Workers : SerialWork(w)',
           \A w \in Workers : pc[w] = "commit" => pc'[w] = "commit" /\ slice'[w] = slice[w]
    PROVE  SerialInv'
<1>1. Covered' = Covered
  BY DEF Covered
<1>2. RunsPlaced'
  BY <1>1 DEF SerialInv, RunsPlaced
<1>3. RunsApart'
  BY DEF SerialInv, RunsApart
<1> QED
  BY <1>2, <1>3 DEF SerialInv

\* Ingestion, claims, restarts and rescues disturb no worker at work.
LEMMA QueueSerial ==
    ASSUME StructInv, SerialInv, Serial, StreamsKept,
           \/ Ingest
           \/ \E w \in Workers, j \in JobIds : Claim(w, j)
           \/ \E p \in Processes : Restart(p)
           \/ \E j \in JobIds : Rescue(j)
    PROVE  SerialInv'
<1>1. UNCHANGED <<cursor, runs>>
  BY DEF Ingest, AppendSession, Claim, Restart, Rescue, lakeVars
<1>2. CASE UNCHANGED workerVars
  <2>1. \A w \in Workers : GoesOn(w)
    BY <1>2 DEF workerVars, GoesOn
  <2>2. \A w \in Workers : SerialWork(w)'
    BY <1>1, <2>1, SerialFrame DEF SerialInv
  <2> QED
    BY <1>1, <2>1, <2>2, SerialQuiet DEF GoesOn
<1>3. ASSUME NEW w \in Workers, NEW j \in JobIds, Claim(w, j)
      PROVE  SerialInv'
  <2>1. \A v \in Workers : v # w => GoesOn(v)
    BY <1>3 DEF Claim, GoesOn, StructInv, TypeOK
  <2>2. /\ pc'[w] \in {"check", "plan"} /\ held'[w] = j /\ pc[w] = "idle"
        /\ jobs[j] # NoJob /\ ShardOf[jobs[j].stream] = w[2]
    BY <1>3 DEF Claim, StructInv, TypeOK
  <2>3. SerialWork(w)'
    BY <2>2 DEF SerialWork, HeldJob, StreamsKept
  <2>4. \A v \in Workers : SerialWork(v)'
    BY <1>1, <2>1, <2>3, SerialFrame DEF SerialInv
  <2> QED
    BY <1>1, <2>1, <2>2, <2>4, SerialQuiet DEF GoesOn
<1> QED
  BY <1>2, <1>3 DEF Ingest, AppendSession, Restart, Rescue

\* The reads: the cursor that is read stays where it is until the slice that
\* starts there is committed.
LEMMA ReadSerial ==
    ASSUME StructInv, SerialInv, Serial, StreamsKept, NEW w \in Workers,
           IsCurrent(w) \/ ReadCursor(w) \/ ReadEvents(w)
    PROVE  SerialInv'
<1>1. /\ UNCHANGED <<cursor, runs, jobs, held>> /\ pc[w] \in {"check", "plan", "read"}
      /\ \A v \in Workers : v # w => GoesOn(v)
  BY DEF IsCurrent, ReadCursor, ReadEvents, lakeVars, GoesOn, StructInv, TypeOK
<1>2. /\ held[w] \in JobIds /\ HeldJob(w) \in Job /\ HeldJob(w)' = HeldJob(w)
      /\ ShardOf[HeldJob(w).stream] = w[2]
  BY <1>1, NoneAssumption DEF StructInv, HoldInv, TypeOK, HeldJob, SerialInv, SerialWork
<1>3. SerialWork(w)'
  <2>1. CASE IsCurrent(w)
    <3>1. pc'[w] \in {"plan", "stop"}
      BY <2>1 DEF IsCurrent, StructInv, TypeOK
    <3> QED
      BY <1>2, <3>1 DEF SerialWork
  <2>2. CASE ReadCursor(w)
    <3>1. pc'[w] = "read" /\ seen'[w] = cursor[HeldJob(w).stream]
      BY <2>2 DEF ReadCursor, StructInv, TypeOK
    <3> QED
      BY <1>1, <1>2, <3>1 DEF SerialWork
  <2>3. CASE ReadEvents(w)
    <3> DEFINE new == NewEvents(events, HeldJob(w).stream, seen[w], HeldJob(w).through)
    <3>1. \/ pc'[w] \in {"stop", "snooze"}
          \/ pc'[w] = "apply" /\ slice'[w] = new
      BY <2>3 DEF ReadEvents, StructInv, TypeOK
    <3>2. \A e \in new : e.stream = HeldJob(w).stream /\ e.seq > seen[w]
      <4>1. /\ HeldJob(w).stream \in Streams /\ HeldJob(w).through \in Nat \ {0}
            /\ seen[w] \in Nat /\ events \in SUBSET Event /\ IsFiniteSet(events)
        BY <1>2, PipelineAssumption DEF Job, Seqs, StructInv, TypeOK, LakeInv
      <4> QED
        BY <4>1, NewEventsPrefix
    <3> HIDE DEF new
    <3>3. seen[w] = cursor[HeldJob(w).stream]
      BY <2>3 DEF ReadEvents, SerialInv, SerialWork
    <3> QED
      BY <1>1, <1>2, <3>1, <3>2, <3>3 DEF SerialWork
  <2> QED
    BY <2>1, <2>2, <2>3
<1>4. \A v \in Workers : SerialWork(v)'
  BY <1>1, <1>3, SerialFrame DEF SerialInv
<1> QED
  BY <1>1, <1>4, SerialQuiet DEF GoesOn

\* A new run shares no event with the runs there are.
LEMMA ApplySerial ==
    ASSUME StructInv, SerialInv, Serial, StreamsKept, NEW w \in Workers,
           \/ ApplyNew(w, "completed") \/ ApplyNew(w, "quarantined")
           \/ Replay(w)
    PROVE  SerialInv'
<1>1. /\ UNCHANGED <<cursor, jobs, held, slice>> /\ pc[w] = "apply" /\ pc'[w] = "commit"
      /\ \A v \in Workers : v # w => GoesOn(v)
  BY DEF ApplyNew, Replay, lakeVars, GoesOn, StructInv, TypeOK
<1>2. SerialWork(w)'
  BY <1>1 DEF SerialInv, SerialWork, HeldJob
<1>3. \A v \in Workers : SerialWork(v)'
  BY <1>1, <1>2, SerialFrame DEF SerialInv
<1>4. CASE Replay(w)
  BY <1>1, <1>3, <1>4, SerialQuiet DEF Replay, GoesOn
<1>5. ASSUME NEW st, ApplyNew(w, st)
      PROVE  SerialInv'
  <2> DEFINE r == [new |-> slice[w], version |-> version[w[1]], status |-> st]
  <2>1. runs' = runs \cup {r} /\ r.new = slice[w]
    BY <1>5 DEF ApplyNew
  <2> HIDE DEF r
  <2>2. Covered' = Covered \cup slice[w]
    BY <2>1 DEF Covered
  <2>3. RunsPlaced'
    <3>1. \A v \in Workers : pc[v] = "commit" => pc'[v] = "commit"
      BY <1>1 DEF GoesOn
    <3> QED
      BY <1>1, <2>2, <3>1 DEF SerialInv, RunsPlaced
  <2>4. \A q \in runs : q.new \cap slice[w] = {}
    BY <1>1, SliceUncovered DEF Covered
  <2>5. RunsApart'
    BY <2>1, <2>4 DEF SerialInv, RunsApart
  <2> QED
    BY <1>3, <2>3, <2>5 DEF SerialInv
<1> QED
  BY <1>4, <1>5

\* A commit moves the cursor over the slice of the stream's only worker.
LEMMA CommitSerial ==
    ASSUME StructInv, SerialInv, Serial, StreamsKept, NEW w \in Workers, CommitSlice(w)
    PROVE  SerialInv'
<1> DEFINE s == HeldJob(w).stream
           to == ToSequence(slice[w])
<1>1. /\ UNCHANGED <<runs, jobs, held>> /\ pc[w] = "commit" /\ pc'[w] = "plan"
      /\ \A v \in Workers : v # w => GoesOn(v)
  BY DEF CommitSlice, GoesOn, StructInv, TypeOK
<1>2. /\ s \in Streams /\ slice[w] # {} /\ slice[w] \in SUBSET Event
      /\ \A e \in slice[w] : e.stream = s /\ e.seq <= last[s]
      /\ last[s] \in Nat /\ cursor \in [Streams -> 0..MaxSeq]
  BY <1>1, NoneAssumption
     DEF StructInv, HoldInv, SliceInv, LakeInv, TypeOK, HeldJob, Job
<1>3. to \in Nat /\ \A e \in slice[w] : e.seq <= to
  BY <1>2, ToSequenceMax DEF Event
<1>4. cursor' = [cursor EXCEPT ![s] = IF to > @ THEN to ELSE @]
  BY DEF CommitSlice
<1> HIDE DEF to
<1>5. SerialWork(w)'
  BY <1>1 DEF SerialWork, SerialInv, HeldJob
<1>6. ASSUME NEW v \in Workers, v # w PROVE SerialWork(v)'
  <2>1. pc[v] # "idle" => HeldJob(v).stream # s
    BY <1>1, <1>6, OneWorker DEF SerialInv
  <2>2. pc[v] # "idle" => cursor'[HeldJob(v).stream] = cursor[HeldJob(v).stream]
    <3>1. pc[v] # "idle" => HeldJob(v).stream \in Streams
      BY NoneAssumption DEF StructInv, HoldInv, TypeOK, HeldJob, Job
    <3> QED
      BY <1>2, <1>4, <2>1, <3>1
  <2> QED
    BY <1>1, <1>6, <2>2, SerialFrame DEF SerialInv
<1>7. RunsPlaced'
  <2>1. Covered' = Covered /\ Covered \subseteq Event
    BY <1>1 DEF Covered, StructInv, LakeInv, TypeOK
  <2> SUFFICES ASSUME NEW e \in Covered, ~ (e.seq <= cursor'[e.stream])
               PROVE  \E v \in Workers : pc'[v] = "commit" /\ e \in slice'[v]
    BY <2>1 DEF RunsPlaced
  <2>2. e.seq \in Nat /\ e.stream \in Streams
    BY <2>1 DEF Event
  <2>3. cursor[e.stream] <= cursor'[e.stream]
    BY <1>2, <1>3, <1>4, <2>2
  <2>4. cursor[e.stream] \in Nat /\ cursor'[e.stream] \in Nat
    BY <1>2, <1>3, <1>4, <2>2
  <2>5. ~ (e.seq <= cursor[e.stream])
    BY <2>2, <2>3, <2>4
  <2>6. PICK v \in Workers : pc[v] = "commit" /\ e \in slice[v]
    BY <2>5 DEF SerialInv, RunsPlaced
  <2>7. e \notin slice[w]
    <3>1. to <= cursor'[s]
      BY <1>2, <1>3, <1>4
    <3> QED
      BY <1>2, <1>3, <2>2, <2>4, <3>1
  <2> QED
    BY <1>1, <2>6, <2>7 DEF GoesOn
<1>8. RunsApart'
  BY <1>1 DEF SerialInv, RunsApart
<1> QED
  BY <1>5, <1>6, <1>7, <1>8 DEF SerialInv

\* A worker without a run to commit lets go of its job.
LEMMA EndSerial ==
    ASSUME StructInv, SerialInv, Serial, StreamsKept, NEW w \in Workers,
           Conflict(w) \/ Complete(w) \/ Snooze(w)
    PROVE  SerialInv'
<1>1. /\ UNCHANGED <<cursor, runs>> /\ pc[w] # "commit" /\ pc'[w] = "idle"
      /\ \A v \in Workers : v # w => GoesOn(v)
  BY DEF Conflict, Complete, Snooze, Release, lakeVars, GoesOn, StructInv, TypeOK
<1>2. SerialWork(w)'
  BY <1>1 DEF SerialWork
<1>3. \A v \in Workers : SerialWork(v)'
  BY <1>1, <1>2, SerialFrame DEF SerialInv
<1> QED
  BY <1>1, <1>3, SerialQuiet DEF GoesOn

\* SerialInv is inductive relative to StructInv: an error or a crash is a
\* fault, after which it says nothing.
LEMMA SerialNext == StructInv /\ SerialInv /\ [Next]_vars => SerialInv'
<1> SUFFICES ASSUME StructInv, SerialInv, [Next]_vars, Serial' PROVE SerialInv'
  BY DEF SerialInv
<1>1. CASE UNCHANGED vars
  BY <1>1 DEF vars, lakeVars, workerVars, SerialInv, Serial, RunsPlaced, RunsApart, SerialWork,
              HeldJob, Covered
<1>2. CASE Next
  <2>1. faults \in Nat
    BY PipelineAssumption DEF StructInv, TypeOK
  <2>2. /\ \A w \in Workers : ~ Fail(w) /\ ~ ApplyThenFail(w)
        /\ \A p \in Processes : ~ Crash(p)
    BY <2>1 DEF Serial, Fail, ApplyThenFail, Crash
  <2>3. ASSUME NEW w \in Workers, Step(w) PROVE UNCHANGED faults
    BY <2>3 DEF Step, IsCurrent, ReadCursor, ReadEvents, ApplyNew, Replay, Conflict,
                CommitSlice, Complete, Snooze
  <2>4. UNCHANGED faults
    BY <1>2, <2>2, <2>3, ZenonT(60) DEF Next, Ingest, AppendSession, Claim, Restart, Rescue
  <2>5. Serial /\ StreamsKept
    BY <1>2, <2>4, StreamsStay DEF Serial
  <2>6. ASSUME NEW w \in Workers, Step(w) PROVE SerialInv'
    BY <2>5, <2>6, ReadSerial, ApplySerial, CommitSerial, EndSerial DEF Step
  <2> QED
    BY <1>2, <2>2, <2>5, <2>6, QueueSerial DEF Next
<1> QED
  BY <1>1, <1>2

\* One worker per shard (queue.go) makes one process extract every event once:
\* until the first error or crash no two durable runs share an event, whatever
\* producers send.
THEOREM EventsExtractedOnce == Spec => []ExtractedOnce
<1>1. Init => StructInv /\ SerialInv
  BY StructInit DEF Init, SerialInv, RunsPlaced, RunsApart, SerialWork, Covered
<1>2. StructInv /\ SerialInv => ExtractedOnce
  BY DEF SerialInv, RunsApart, ExtractedOnce
<1> QED
  BY <1>1, <1>2, StructNext, SerialNext, PTL DEF Spec

-----------------------------------------------------------------------------
(* What a step may do *)

\* Every step leaves the lake's rows, heads, cursors and flags at least as they
\* were.
LEMMA StepGrowsLake == StructInv /\ [Next]_vars => [LakeStep]_vars
<1> SUFFICES ASSUME StructInv, Next PROVE LakeStep
  OBVIOUS
<1>1. /\ last \in [Streams -> 0..MaxSeq] /\ cursor \in [Streams -> 0..MaxSeq]
      /\ complete \in [Streams -> BOOLEAN] /\ events \subseteq Event
  BY DEF StructInv, TypeOK
<1>2. CASE UNCHANGED lakeVars
  BY <1>1, <1>2 DEF lakeVars, LakeStep
<1>3. ASSUME NEW s \in Streams, NEW b \in Batches(s), NEW done \in BOOLEAN,
             NEW j \in JobIds, NEW head \in {e.seq : e \in b},
             AppendSession(s, b, head, done, j)
      PROVE  LakeStep
  <2>1. head \in Nat
    BY <1>3, PipelineAssumption DEF Batches, Seqs
  <2> QED
    BY <1>1, <1>3, <2>1 DEF AppendSession, LakeStep
<1>4. ASSUME NEW w \in Workers, CommitSlice(w) PROVE LakeStep
  <2> DEFINE s == HeldJob(w).stream
             to == ToSequence(slice[w])
  <2>1. /\ cursor' = [cursor EXCEPT ![s] = IF to > cursor[s] THEN to ELSE cursor[s]]
        /\ stamped \subseteq stamped' /\ UNCHANGED <<events, last, complete>>
    BY <1>4 DEF CommitSlice
  <2>2. to \in Nat
    <3>1. /\ slice[w] # {} /\ slice[w] \subseteq Event /\ slice[w] \subseteq events
          /\ \A e \in slice[w] : e.seq <= MaxSeq
      BY <1>1, <1>4, PipelineAssumption
         DEF CommitSlice, StructInv, SliceInv, LakeInv, Event
    <3>2. to \in {e.seq : e \in slice[w]}
      BY <3>1, ToSequenceMax, PipelineAssumption
    <3> QED
      BY <3>1, <3>2 DEF Event
  <2> HIDE DEF s, to
  <2> QED
    BY <1>1, <2>1, <2>2 DEF LakeStep
<1>5. ASSUME NEW w \in Workers, Step(w) \/ Fail(w) \/ ApplyThenFail(w), ~ CommitSlice(w)
      PROVE  UNCHANGED lakeVars
  BY <1>5 DEF Step, Fail, ApplyThenFail, IsCurrent, ReadCursor, ReadEvents, ApplyNew, Replay,
              Conflict, Complete, Snooze
<1>6. ASSUME \/ \E w \in Workers, j \in JobIds : Claim(w, j)
             \/ \E p \in Processes : Crash(p) \/ Restart(p)
             \/ \E j \in JobIds : Rescue(j)
      PROVE  UNCHANGED lakeVars
  BY <1>6 DEF Claim, Crash, Restart, Rescue
<1> QED
  BY <1>2, <1>3, <1>4, <1>5, <1>6 DEF Next, Ingest

\* Nothing is taken back: GREATEST in upsertStream and in
\* AdvanceExtractionCursor keep heads and cursors from moving back, whichever
\* worker of whichever process commits last.
THEOREM LakeNeverShrinks == Spec => LakeMonotonic
<1>1. Init => StructInv
  BY StructInit
<1>2. StructInv /\ [Next]_vars => StructInv'
  BY StructNext
<1>3. StructInv /\ [Next]_vars => [LakeStep]_vars
  BY StepGrowsLake
<1> QED
  BY <1>1, <1>2, <1>3, PTL DEF Spec, LakeMonotonic

-----------------------------------------------------------------------------
(* The pipeline implements the processor contract *)

\* An append step is an arrival beyond the cursor.
LEMMA AppendArrives ==
    ASSUME StructInv, OrderedProducer, Ingest
    PROVE  Contract!Arrive
<1>0. PICK s \in Streams : \E b \in Batches(s), done \in BOOLEAN, j \in JobIds :
          \E head \in {e.seq : e \in b} : AppendSession(s, b, head, done, j)
  BY DEF Ingest
<1>1. PICK b \in Batches(s) : /\ InOrder(s, b) /\ events' = events \cup Accepted(b)
                              /\ UNCHANGED <<cursor, runs>>
  BY <1>0 DEF AppendSession
<1>2. cursor[s] \in Nat /\ last[s] \in Nat /\ cursor[s] <= last[s]
  BY PipelineAssumption DEF StructInv, TypeOK, LakeInv
<1>3. ASSUME NEW e \in Accepted(b), e \notin events PROVE e.seq > cursor[e.stream]
  <2>1. e \in b /\ e.stream = s /\ e.seq \in Nat
    BY <1>1, <1>3, PipelineAssumption DEF Accepted, Batches, Seqs
  <2>2. e.seq > last[s]
    BY <1>1, <1>3, <2>1 DEF InOrder
  <2> QED
    BY <1>2, <2>1, <2>2
<1>4. UNCHANGED Covered
  BY <1>1 DEF Covered
<1> QED
  BY <1>1, <1>3, <1>4 DEF Contract!Arrive

\* A commit moves the cursor over covered events, or not at all.
LEMMA CommitAdvances ==
    ASSUME PipelineInv, PipelineInv', OrderedProducer, NEW w \in Workers, CommitSlice(w)
    PROVE  \/ \E s \in Streams : Contract!Advance(s)
           \/ UNCHANGED Contract!contractVars
<1> DEFINE s == HeldJob(w).stream
           to == ToSequence(slice[w])
<1>1. /\ cursor' = [cursor EXCEPT ![s] = IF to > cursor[s] THEN to ELSE cursor[s]]
      /\ UNCHANGED <<events, runs>>
  BY DEF CommitSlice
<1>2. /\ s \in Streams /\ cursor \in [Streams -> 0..MaxSeq]
      /\ cursor' \in [Streams -> 0..MaxSeq]
  BY DEF CommitSlice, PipelineInv, StructInv, HoldInv, TypeOK, HeldJob, Job
<1>3. UNCHANGED Covered
  BY <1>1 DEF Covered
<1> HIDE DEF s, to
<1>4. CASE ~ (to > cursor[s])
  BY <1>1, <1>2, <1>3, <1>4 DEF Contract!contractVars
<1>5. CASE to > cursor[s]
  <2>1. cursor' = [cursor EXCEPT ![s] = to] /\ cursor'[s] = to
    BY <1>1, <1>2, <1>5
  <2>2. \A e \in events : e.stream = s /\ e.seq <= cursor'[s] => e \in Covered
    BY <1>1, <1>3 DEF PipelineInv, CursorCovered
  <2>3. Contract!Advance(s)
    BY <1>1, <1>3, <1>5, <2>1, <2>2 DEF Contract!Advance
  <2> QED
    BY <1>2, <2>3
<1> QED
  BY <1>4, <1>5

\* Every step of the pipeline is a step of the contract or changes nothing the
\* contract speaks of.
LEMMA ContractStep ==
    ASSUME PipelineInv, PipelineInv', OrderedProducer, [Next]_vars
    PROVE  [Contract!ContractNext]_(Contract!contractVars)
<1>1. StructInv /\ StructInv'
  BY DEF PipelineInv
<1>2. CASE Ingest
  BY <1>1, <1>2, AppendArrives DEF Contract!ContractNext
<1>3. ASSUME NEW w \in Workers, CommitSlice(w)
      PROVE  [Contract!ContractNext]_(Contract!contractVars)
  BY <1>3, CommitAdvances DEF Contract!ContractNext
<1>4. ASSUME NEW w \in Workers,
             \/ ApplyNew(w, "completed") \/ ApplyNew(w, "quarantined")
             \/ ApplyThenFail(w)
      PROVE  [Contract!ContractNext]_(Contract!contractVars)
  <2>1. runs \subseteq runs' /\ UNCHANGED <<events, cursor>>
    BY <1>4 DEF ApplyNew, ApplyThenFail, lakeVars
  <2>2. Covered \subseteq Covered'
    BY <2>1 DEF Covered
  <2>3. Covered' \subseteq events
    BY <1>1, <2>1 DEF StructInv, LakeInv
  <2> QED
    BY <2>1, <2>2, <2>3 DEF Contract!ContractNext, Contract!Cover
<1>5. CASE UNCHANGED <<events, runs, cursor>>
  BY <1>5 DEF Contract!contractVars, Covered
<1>6. ASSUME NEW w \in Workers,
             \/ IsCurrent(w) \/ ReadCursor(w) \/ ReadEvents(w) \/ Replay(w)
             \/ Conflict(w) \/ Complete(w) \/ Snooze(w) \/ Fail(w)
      PROVE  UNCHANGED <<events, runs, cursor>>
  BY <1>6 DEF IsCurrent, ReadCursor, ReadEvents, Replay, Conflict, Complete, Snooze, Fail,
              lakeVars
<1>7. ASSUME \/ \E w \in Workers, j \in JobIds : Claim(w, j)
             \/ \E p \in Processes : Crash(p) \/ Restart(p)
             \/ \E j \in JobIds : Rescue(j)
             \/ UNCHANGED vars
      PROVE  UNCHANGED <<events, runs, cursor>>
  BY <1>7 DEF Claim, Crash, Restart, Rescue, vars, lakeVars
<1> QED
  BY <1>2, <1>3, <1>4, <1>5, <1>6, <1>7 DEF Next, Step

\* Fed in order, the extraction pipeline implements the processor contract of
\* docs/evidence-lake-processors.md: it consumes events in sequence after its
\* own cursor and never moves the cursor over an event without a durable
\* outcome.
THEOREM PipelineImplementsContract ==
    ASSUME OrderedProducer
    PROVE  Spec => ImplementsContract
<1>1. Init => Contract!ContractInit
  BY DEF Init, Contract!ContractInit, Covered
<1>2. PipelineInv /\ PipelineInv' /\ [Next]_vars
          => [Contract!ContractNext]_(Contract!contractVars)
  BY ContractStep
<1> QED
  BY <1>1, <1>2, PipelineCorrect, PTL DEF Spec, ImplementsContract, Contract!ContractSpec
=============================================================================
