-------------------------- MODULE WikiPagesProofs --------------------------
(***************************************************************************)
(* Proofs about the pages of a scope's wiki, for any number of sources,    *)
(* slugs, wordings, injections, curated candidates, rebuilds and faults.   *)
(***************************************************************************)
EXTENDS WikiPages, CommonLemmas, TLAPS

-----------------------------------------------------------------------------
(* What the two folds of hydrate compute, row by row                       *)

\* One row of the publications, or one of the retirements.
Step(kind, names, acc, row) ==
    IF kind = "publication" THEN ReplayStep(names, acc, row) ELSE RetireStep(acc, row)

\* f folds the rows of every set of ordinals up to n, the last one last.
FoldsRows(kind, names, base, rows, n, f) ==
    f = [s \in SUBSET (1..n) |->
            IF s = {} THEN base ELSE Step(kind, names, f[s \ {Max(s)}], rows[Max(s)])]

\* The greatest of some ordinals is the last of them.
LEMMA MaxOrdinal ==
    ASSUME NEW n \in Nat, NEW s \in SUBSET (1..n), s # {}
    PROVE  /\ Max(s) \in s /\ \A k \in s : k <= Max(s)
           /\ n # 0 /\ s \ {Max(s)} \in SUBSET (1..(n - 1))
<1>1. s \in SUBSET (0..n)
  OBVIOUS
<1>2. \E m \in s : \A k \in s : k <= m
  BY <1>1, GreatestNat
<1>3. \E m \in s : \A k \in s : m >= k
  BY <1>2
<1>4. Max(s) \in s /\ \A k \in s : Max(s) >= k
  BY <1>3 DEF Max
<1>5. Max(s) \in Nat /\ Max(s) <= n /\ n # 0
  <2> HIDE DEF Max
  <2>1. Max(s) \in 1..n
    BY <1>4
  <2> QED
    BY <2>1
<1>6. ASSUME NEW k \in s, k # Max(s) PROVE k \in 1..(n - 1)
  <2>1. k \in Nat /\ 1 <= k /\ Max(s) >= k
    BY <1>4
  <2> HIDE DEF Max
  <2> QED
    BY <1>5, <1>6, <2>1
<1> QED
  BY <1>4, <1>5, <1>6

\* Rows 1 to k are rows 1 to k - 1, and then row k.
LEMMA MaxInterval ==
    ASSUME NEW k \in Nat, k # 0
    PROVE  Max(1..k) = k /\ (1..k) \ {k} = 1..(k - 1) /\ 1..k # {}
<1>1. k \in 1..k /\ \A m \in 1..k : m <= k
  OBVIOUS
<1>2. Max(1..k) \in 1..k /\ \A m \in 1..k : m <= Max(1..k)
  BY <1>1, MaxOrdinal
<1> QED
  BY <1>1, <1>2

\* There is such a fold.
LEMMA FoldExists ==
    ASSUME NEW kind, NEW names, NEW base, NEW rows, NEW n \in Nat
    PROVE  \E f : FoldsRows(kind, names, base, rows, n, f)
<1> DEFINE Bad == {k \in Nat : ~ \E f : FoldsRows(kind, names, base, rows, k, f)}
           Value(s, g) == IF s = {} THEN base
                          ELSE Step(kind, names, g[s \ {Max(s)}], rows[Max(s)])
<1>1. \A m \in Nat : \A g : FoldsRows(kind, names, base, rows, m, g)
                          <=> g = [s \in SUBSET (1..m) |-> Value(s, g)]
  BY DEF FoldsRows
<1> SUFFICES ASSUME Bad # {} PROVE FALSE
  OBVIOUS
<1>2. PICK k \in Bad : \A m \in Bad : k <= m
  <2>1. Bad \in SUBSET Nat
    OBVIOUS
  <2> QED
    BY <2>1, LeastNat, Zenon
<1>3. PICK g : k # 0 => FoldsRows(kind, names, base, rows, k - 1, g)
  <2>1. CASE k = 0
    BY <2>1
  <2>2. CASE k # 0
    <3>1. k \in Nat
      OBVIOUS
    <3>2. k - 1 \in Nat /\ ~ (k <= k - 1)
      BY <2>2, <3>1
    <3> QED
      BY <1>2, <3>2, Zenon
  <2> QED
    BY <2>1, <2>2
<1> DEFINE f == [s \in SUBSET (1..k) |-> Value(s, g)]
<1>4. k \in Nat
  OBVIOUS
<1> HIDE DEF Bad
<1>5. ASSUME NEW s \in SUBSET (1..k), s # {}
      PROVE  f[s \ {Max(s)}] = g[s \ {Max(s)}]
  <2> DEFINE r == s \ {Max(s)}
  <2>1. k # 0 /\ r \in SUBSET (1..(k - 1)) /\ r \in SUBSET (1..k)
    BY <1>4, <1>5, MaxOrdinal
  <2>2. k - 1 \in Nat
    BY <1>4, <2>1
  <2>3. g = [t \in SUBSET (1..(k - 1)) |-> Value(t, g)]
    BY <1>1, <1>3, <2>1, <2>2, Zenon
  <2> HIDE DEF Value, r
  <2>4. g[r] = Value(r, g)
    BY <2>1, <2>3
  <2>5. f[r] = Value(r, g)
    BY <2>1
  <2>6. f[r] = g[r]
    BY <2>4, <2>5
  <2> QED
    BY <2>6 DEF r
<1>6. \A s \in SUBSET (1..k) : Value(s, f) = Value(s, g)
  <2> HIDE DEF f
  <2> QED
    BY <1>5
<1>7. f = [s \in SUBSET (1..k) |-> Value(s, f)]
  <2>1. [s \in SUBSET (1..k) |-> Value(s, f)] = [s \in SUBSET (1..k) |-> Value(s, g)]
    <3> HIDE DEF Value, f
    <3> QED
      BY <1>6
  <2> HIDE DEF Value
  <2> QED
    BY <2>1
<1>8. FoldsRows(kind, names, base, rows, k, f)
  <2> HIDE DEF f, Value
  <2> QED
    BY <1>1, <1>4, <1>7, Zenon
<1> QED
  BY <1>2, <1>8 DEF Bad

\* The first k ordinals.
UpTo(k) == 1..k

\* Such a fold takes one row after the other.
LEMMA FoldUnfolds ==
    ASSUME NEW kind, NEW names, NEW base, NEW rows, NEW n \in Nat, NEW f,
           FoldsRows(kind, names, base, rows, n, f), NEW k \in Nat, k <= n
    PROVE  /\ k = 0 => f[UpTo(k)] = base
           /\ k # 0 => f[UpTo(k)] = Step(kind, names, f[UpTo(k - 1)], rows[k])
<1> DEFINE Value(s) == IF s = {} THEN base
                       ELSE Step(kind, names, f[s \ {Max(s)}], rows[Max(s)])
<1>1. f = [s \in SUBSET (1..n) |-> Value(s)]
  BY DEF FoldsRows
<1>2. 1..k \in SUBSET (1..n) /\ k \in Nat
  OBVIOUS
<1>3. f[UpTo(k)] = Value(1..k)
  <2> HIDE DEF Value
  <2> QED
    BY <1>1, <1>2 DEF UpTo
<1>4. CASE k = 0
  <2>1. 1..k = {}
    BY <1>4
  <2> QED
    BY <1>3, <1>4, <2>1
<1>5. CASE k # 0
  <2>1. Max(1..k) = k /\ (1..k) \ {k} = 1..(k - 1) /\ 1..k # {}
    BY <1>2, <1>5, MaxInterval
  <2>2. Value(1..k) = Step(kind, names, f[(1..k) \ {Max(1..k)}], rows[Max(1..k)])
    BY <2>1
  <2> QED
    BY <1>3, <1>5, <2>1, <2>2 DEF UpTo
<1> QED
  BY <1>4, <1>5

\* In particular, the last row comes last.
LEMMA FoldLast ==
    ASSUME NEW kind, NEW names, NEW base, NEW rows, NEW n \in Nat, NEW f,
           FoldsRows(kind, names, base, rows, n, f)
    PROVE  /\ n = 0 => f[UpTo(n)] = base
           /\ n # 0 => f[UpTo(n)] = Step(kind, names, f[UpTo(n - 1)], rows[n])
<1>1. PICK k \in Nat : k = n /\ k <= n
  OBVIOUS
<1>2. /\ k = 0 => f[UpTo(k)] = base
      /\ k # 0 => f[UpTo(k)] = Step(kind, names, f[UpTo(k - 1)], rows[k])
  BY <1>1, FoldUnfolds
<1> QED
  BY <1>1, <1>2

\* Folds of the same first rows agree on them.
LEMMA FoldsAgree ==
    ASSUME NEW kind, NEW names, NEW base, NEW rows, NEW more,
           NEW n \in Nat, NEW m \in Nat, NEW k \in Nat, k <= n, k <= m,
           \A i \in 1..k : rows[i] = more[i],
           NEW f, FoldsRows(kind, names, base, rows, n, f),
           NEW g, FoldsRows(kind, names, base, more, m, g)
    PROVE  f[UpTo(k)] = g[UpTo(k)]
<1> DEFINE Bad == {i \in Nat : i <= k /\ f[UpTo(i)] # g[UpTo(i)]}
<1> SUFFICES ASSUME Bad # {} PROVE FALSE
  OBVIOUS
<1>3. PICK i \in Bad : \A j \in Bad : i <= j
  <2>1. Bad \in SUBSET Nat
    OBVIOUS
  <2> QED
    BY <2>1, LeastNat, Zenon
<1>4. i \in Nat /\ i <= k /\ f[UpTo(i)] # g[UpTo(i)]
  OBVIOUS
<1>5. i <= n /\ i <= m
  BY <1>4
<1>6. /\ i = 0 => f[UpTo(i)] = base
      /\ i # 0 => f[UpTo(i)] = Step(kind, names, f[UpTo(i - 1)], rows[i])
  BY <1>4, <1>5, FoldUnfolds
<1>7. /\ i = 0 => g[UpTo(i)] = base
      /\ i # 0 => g[UpTo(i)] = Step(kind, names, g[UpTo(i - 1)], more[i])
  BY <1>4, <1>5, FoldUnfolds
<1>8. i # 0 /\ f[UpTo(i - 1)] # g[UpTo(i - 1)]
  <2>1. i # 0 => rows[i] = more[i]
    BY <1>4
  <2> QED
    BY <1>4, <1>6, <1>7, <2>1
<1>9. i - 1 \in Bad /\ ~ (i <= i - 1)
  BY <1>4, <1>8
<1> QED
  BY <1>3, <1>9, Zenon

\* Replay takes the publications one after the other.
LEMMA ReplayRows ==
    ASSUME NEW names, NEW S, NEW rows \in Seq(S), NEW row \in S
    PROVE  /\ Replay(names, << >>) = [ok |-> TRUE, wiki |-> EmptyWiki]
           /\ Replay(names, Append(rows, row)) = ReplayStep(names, Replay(names, rows), row)
<1> DEFINE base == [ok |-> TRUE, wiki |-> EmptyWiki]
           Fold(rs) == CHOOSE f : f = [s \in SUBSET DOMAIN rs |->
               IF s = {} THEN base ELSE ReplayStep(names, f[s \ {Max(s)}], rs[Max(s)])]
<1>1. \A rs : Replay(names, rs) = Fold(rs)[DOMAIN rs]
  BY DEF Replay, FoldLeft, MapThenFoldSet
<1>2. ASSUME NEW n \in Nat, NEW rs, DOMAIN rs = 1..n
      PROVE  FoldsRows("publication", names, base, rs, n, Fold(rs))
  <2>1. PICK f : FoldsRows("publication", names, base, rs, n, f)
    BY FoldExists, Zenon
  <2> HIDE DEF base
  <2>2. f = [s \in SUBSET DOMAIN rs |->
               IF s = {} THEN base ELSE ReplayStep(names, f[s \ {Max(s)}], rs[Max(s)])]
    BY <1>2, <2>1 DEF FoldsRows, Step
  <2>3. Fold(rs) = [s \in SUBSET DOMAIN rs |->
               IF s = {} THEN base ELSE ReplayStep(names, Fold(rs)[s \ {Max(s)}], rs[Max(s)])]
    BY <2>2, Zenon
  <2> HIDE DEF Fold
  <2> QED
    BY <1>2, <2>3 DEF FoldsRows, Step
<1> HIDE DEF Fold, base
<1> DEFINE n == Len(rows)
           more == Append(rows, row)
<1>3. /\ n \in Nat /\ DOMAIN rows = 1..n /\ DOMAIN more = 1..(n + 1)
      /\ more[n + 1] = row /\ \A i \in 1..n : rows[i] = more[i]
      /\ DOMAIN << >> = 1..0
  OBVIOUS
<1> HIDE DEF n, more
<1>4. Replay(names, << >>) = base
  <2>1. PICK f : f = Fold(<< >>) /\ FoldsRows("publication", names, base, << >>, 0, f)
    BY <1>2, <1>3
  <2>2. 0 \in Nat /\ 0 <= 0
    OBVIOUS
  <2>3. f[UpTo(0)] = base
    BY <2>1, <2>2, FoldLast
  <2> QED
    BY <1>1, <1>3, <2>1, <2>3 DEF UpTo
<1>5. Replay(names, more) = ReplayStep(names, Replay(names, rows), row)
  <2>1. PICK f : f = Fold(rows) /\ FoldsRows("publication", names, base, rows, n, f)
    BY <1>2, <1>3
  <2>2. PICK m \in Nat : m = n + 1 /\ n <= m /\ n <= n /\ m <= m /\ m # 0 /\ m - 1 = n
    BY <1>3
  <2>3. PICK g : g = Fold(more) /\ FoldsRows("publication", names, base, more, m, g)
    BY <1>2, <1>3, <2>2
  <2>4. f[UpTo(n)] = g[UpTo(n)]
    BY <1>3, <2>1, <2>2, <2>3, FoldsAgree
  <2>5. g[UpTo(m)] = Step("publication", names, g[UpTo(m - 1)], more[m])
    BY <2>2, <2>3, FoldLast
  <2>6. g[UpTo(n + 1)] = ReplayStep(names, f[UpTo(n)], row)
    BY <1>3, <2>2, <2>4, <2>5 DEF Step
  <2> QED
    BY <1>1, <1>3, <2>1, <2>3, <2>6 DEF UpTo
<1> QED
  BY <1>4, <1>5 DEF base, more

-----------------------------------------------------------------------------
(* The pages that the rows stand for                                       *)

Revs == Seq(Drafts) \ {<< >>}
PubRow == [page : Pages, rev : Revs, revive : BOOLEAN]
RetRow == [page : Pages, rev : Revs, successor : Pages \cup {Nothing}]
Wikis == [Pages -> [rev : Seq(Drafts), retired : BOOLEAN, successor : Pages \cup {Nothing}]]

At(p, rev) == [page |-> p, rev |-> rev]

PageType == [rev : Seq(Drafts), retired : BOOLEAN, successor : Pages \cup {Nothing}]

\* What a publication makes of a wiki.
LEMMA PublishedPage ==
    ASSUME NEW w \in Wikis, NEW pub \in PubRow
    PROVE  /\ Published(w, pub) \in Wikis
           /\ Published(w, pub)[pub.page].rev = pub.rev
           /\ ~ Published(w, pub)[pub.page].retired
           /\ Published(w, pub)[pub.page].successor = Nothing
           /\ \A p \in Pages : p # pub.page => Published(w, pub)[p] = w[p]
<1> DEFINE x == [NoPage EXCEPT !.rev = pub.rev]
<1>1. x = [rev |-> pub.rev, retired |-> FALSE, successor |-> Nothing]
  <2>1. \A y : [NoPage EXCEPT !.rev = y] = [rev |-> y, retired |-> FALSE, successor |-> Nothing]
    <3> TAKE y
    <3>1. PICK no, none : no = FALSE /\ none = << >>
      BY Zenon
    <3>2. [[rev |-> none, retired |-> no, successor |-> Nothing] EXCEPT !.rev = y]
            = [rev |-> y, retired |-> no, successor |-> Nothing]
      OBVIOUS
    <3> QED
      BY <3>1, <3>2, Zenon DEF NoPage
  <2> QED
    BY <2>1, Zenon
<1>2. x \in PageType /\ pub.page \in Pages
  BY <1>1 DEF PageType, PubRow, Revs
<1>3. x.rev = pub.rev /\ ~ x.retired /\ x.successor = Nothing
  BY <1>1
<1>4. Published(w, pub) = [w EXCEPT ![pub.page] = x]
  BY DEF Published, ActiveAt
<1> HIDE DEF x
<1>5. w \in [Pages -> PageType]
  BY DEF Wikis, PageType
<1>6. Published(w, pub) \in [Pages -> PageType] /\ Published(w, pub)[pub.page] = x
  BY <1>2, <1>4, <1>5
<1>7. \A p \in Pages : p # pub.page => Published(w, pub)[p] = w[p]
  BY <1>4, <1>5
<1> QED
  BY <1>3, <1>6, <1>7 DEF Wikis, PageType

\* A publication that has landed is the page's current revision.
LEMMA AppliedPage ==
    ASSUME NEW w \in Wikis, NEW pub \in PubRow, Applied(w, pub)
    PROVE  w[pub.page].rev = pub.rev /\ ~ w[pub.page].retired
<1>1. /\ Published(w, pub)[pub.page].rev = pub.rev /\ ~ Published(w, pub)[pub.page].retired
  BY PublishedPage
<1>2. pub.page \in DOMAIN w /\ w[pub.page] = ActiveAt(pub.rev)
  BY DEF Wikis, PubRow, Applied
<1>3. Published(w, pub)[pub.page] = w[pub.page]
  BY <1>2 DEF Published
<1> QED
  BY <1>1, <1>3

\* What a retirement makes of a wiki.
LEMMA RetiredPage ==
    ASSUME NEW w \in Wikis, NEW req \in RetRow
    PROVE  /\ Retired(w, req) \in Wikis
           /\ Retired(w, req)[req.page].rev = w[req.page].rev
           /\ Retired(w, req)[req.page].retired
           /\ Retired(w, req)[req.page].successor = req.successor
           /\ \A p \in Pages : p # req.page => Retired(w, req)[p] = w[p]
<1> DEFINE x == [w[req.page] EXCEPT !.retired = TRUE, !.successor = req.successor]
<1>1. w \in [Pages -> PageType] /\ req.page \in Pages
  BY DEF Wikis, PageType, RetRow
<1>2. PICK a, b, c :
          w[req.page] = [rev |-> a, retired |-> b, successor |-> c]
  <2>1. w[req.page] \in PageType
    BY <1>1
  <2>2. w[req.page] = [rev |-> w[req.page].rev, retired |-> w[req.page].retired,
                       successor |-> w[req.page].successor]
    BY <2>1 DEF PageType
  <2> QED
    BY <2>2, Zenon
<1>3. x = [rev |-> a, retired |-> TRUE, successor |-> req.successor]
  <2>1. \A y : [[rev |-> a, retired |-> b, successor |-> c]
                   EXCEPT !.retired = TRUE, !.successor = y]
                = [rev |-> a, retired |-> TRUE, successor |-> y]
    <3> TAKE y
    <3>1. PICK yes : yes = TRUE
      BY Zenon
    <3>2. [[rev |-> a, retired |-> b, successor |-> c] EXCEPT !.retired = yes, !.successor = y]
            = [rev |-> a, retired |-> yes, successor |-> y]
      <4>1. [[rev |-> a, retired |-> b, successor |-> c] EXCEPT !.retired = yes]
              = [rev |-> a, retired |-> yes, successor |-> c]
        OBVIOUS
      <4>2. [[rev |-> a, retired |-> yes, successor |-> c] EXCEPT !.successor = y]
              = [rev |-> a, retired |-> yes, successor |-> y]
        OBVIOUS
      <4> QED
        BY <4>1, <4>2, Zenon
    <3> QED
      BY <3>1, <3>2, Zenon
  <2> QED
    BY <1>2, <2>1, Zenon
<1>4. x.rev = w[req.page].rev /\ x.retired /\ x.successor = req.successor
  <2> HIDE DEF x
  <2> QED
    BY <1>2, <1>3
<1>5. x \in PageType
  <2>1. w[req.page] \in PageType /\ w[req.page].rev = a
    BY <1>1, <1>2
  <2> HIDE DEF x
  <2> QED
    BY <1>3, <2>1 DEF PageType, RetRow
<1>6. Retired(w, req) = [w EXCEPT ![req.page] = x]
  BY <1>1 DEF Retired
<1> HIDE DEF x
<1>7. Retired(w, req) \in [Pages -> PageType] /\ Retired(w, req)[req.page] = x
  BY <1>1, <1>5, <1>6
<1>8. \A p \in Pages : p # req.page => Retired(w, req)[p] = w[p]
  BY <1>1, <1>6
<1> QED
  BY <1>4, <1>7, <1>8 DEF Wikis, PageType

\* Page p of a wiki is what the replayed publications and the retirements make
\* of it.
Follows(wiki, replayed, lf, p) ==
    /\ wiki[p].rev = replayed[p].rev
    /\ ~ wiki[p].retired => /\ wiki[p].successor = Nothing
                            /\ ~ Stored(lf, At(p, replayed[p].rev))
    /\ wiki[p].retired => \E i \in DOMAIN lf : /\ lf[i].page = p /\ lf[i].rev = replayed[p].rev
                                               /\ lf[i].successor = wiki[p].successor

\* hydrate's retirements: a page is retired if and only if one of them is of the
\* revision that its publications end with.
LEMMA RetirementsFollow ==
    ASSUME NEW w \in Wikis, \A p \in Pages : ~ w[p].retired /\ w[p].successor = Nothing,
           NEW lf \in Seq(RetRow)
    PROVE  /\ ReplayRetirements(w, lf) \in Wikis
           /\ \A p \in Pages : Follows(ReplayRetirements(w, lf), w, lf, p)
<1> DEFINE Fold == CHOOSE f : f = [s \in SUBSET DOMAIN lf |->
               IF s = {} THEN w ELSE RetireStep(f[s \ {Max(s)}], lf[Max(s)])]
           n == Len(lf)
<1>1. ReplayRetirements(w, lf) = Fold[DOMAIN lf]
  BY DEF ReplayRetirements, FoldLeft, MapThenFoldSet
<1>2. n \in Nat /\ DOMAIN lf = UpTo(n) /\ DOMAIN lf = 1..n
  BY DEF UpTo
<1> HIDE DEF n
<1>3. FoldsRows("retirement", {}, w, lf, n, Fold)
  <2>1. PICK f : FoldsRows("retirement", {}, w, lf, n, f)
    BY <1>2, FoldExists, Zenon
  <2>2. f = [s \in SUBSET DOMAIN lf |->
               IF s = {} THEN w ELSE RetireStep(f[s \ {Max(s)}], lf[Max(s)])]
    BY <1>2, <2>1 DEF FoldsRows, Step
  <2>3. Fold = [s \in SUBSET DOMAIN lf |->
               IF s = {} THEN w ELSE RetireStep(Fold[s \ {Max(s)}], lf[Max(s)])]
    BY <2>2, Zenon
  <2> HIDE DEF Fold
  <2> QED
    BY <1>2, <2>3 DEF FoldsRows, Step
<1> HIDE DEF Fold
<1> DEFINE Named(i, p) == lf[i].page = p /\ lf[i].rev = w[p].rev
           Upon(h, k, p) ==
             /\ h[p].rev = w[p].rev
             /\ ~ h[p].retired => h[p].successor = Nothing /\ \A i \in 1..k : ~ Named(i, p)
             /\ h[p].retired => \E i \in 1..k : Named(i, p) /\ lf[i].successor = h[p].successor
           Good(k) == Fold[UpTo(k)] \in Wikis /\ \A p \in Pages : Upon(Fold[UpTo(k)], k, p)
           Bad == {k \in Nat : k <= n /\ ~ Good(k)}
<1>0. \A k \in Nat : k <= n =>
          /\ k = 0 => Fold[UpTo(k)] = w
          /\ k # 0 => Fold[UpTo(k)] = Step("retirement", {}, Fold[UpTo(k - 1)], lf[k])
  <2> SUFFICES ASSUME NEW k \in Nat, k <= n
               PROVE  /\ k = 0 => Fold[UpTo(k)] = w
                      /\ k # 0 => Fold[UpTo(k)]
                                    = Step("retirement", {}, Fold[UpTo(k - 1)], lf[k])
    OBVIOUS
  <2>1. PICK kind, names, base, rows, f :
            /\ kind = "retirement" /\ names = {} /\ base = w /\ rows = lf /\ f = Fold
            /\ FoldsRows(kind, names, base, rows, n, f)
    BY <1>3, Zenon
  <2>2. /\ k = 0 => f[UpTo(k)] = base
        /\ k # 0 => f[UpTo(k)] = Step(kind, names, f[UpTo(k - 1)], rows[k])
    <3>1. FoldsRows(kind, names, base, rows, n, f)
      BY <2>1
    <3> QED
      BY <1>2, <3>1, FoldUnfolds
  <2> QED
    BY <2>1, <2>2
<1>4. Good(0)
  <2>1. Fold[UpTo(0)] = w
    BY <1>0, <1>2
  <2> QED
    BY <2>1
<1>5. ASSUME NEW k \in Nat, k + 1 <= n, Good(k) PROVE Good(k + 1)
  <2> DEFINE h == Fold[UpTo(k)]
             g == Fold[UpTo(k + 1)]
             r == lf[k + 1]
  <2>1. g = RetireStep(h, r)
    <3>1. PICK j \in Nat : j = k + 1 /\ j - 1 = k /\ j # 0 /\ j <= n
      BY <1>5
    <3>2. Fold[UpTo(j)] = Step("retirement", {}, Fold[UpTo(j - 1)], lf[j])
      BY <1>0, <3>1
    <3> QED
      BY <3>1, <3>2 DEF Step
  <2>2. r \in RetRow /\ k + 1 \in 1..n
    BY <1>2, <1>5
  <2>3. h \in Wikis /\ \A p \in Pages : Upon(h, k, p)
    BY <1>5
  <2> HIDE DEF h, g
  <2>4. g \in Wikis /\ \A p \in Pages : /\ p # r.page => g[p] = h[p]
                                       /\ g[p].rev = h[p].rev
    <3>1. CASE Retirable(h, r)
      <4>1. g = Retired(h, r)
        BY <2>1, <3>1 DEF RetireStep
      <4> HIDE DEF r
      <4> QED
        BY <2>2, <2>3, <4>1, RetiredPage
    <3>2. CASE ~ Retirable(h, r)
      BY <2>1, <2>3, <3>2 DEF RetireStep
    <3> QED
      BY <3>1, <3>2
  <2>5. ASSUME NEW p \in Pages PROVE Upon(g, k + 1, p)
    <3>1. \A i \in 1..(k + 1) : i \in 1..k \/ i = k + 1
      OBVIOUS
    <3>2. 1..k \subseteq 1..(k + 1) /\ k + 1 \in 1..(k + 1)
      OBVIOUS
    <3>3. CASE p # r.page
      <4>1. g[p] = h[p] /\ Upon(h, k, p) /\ ~ Named(k + 1, p)
        BY <2>3, <2>4, <3>3
      <4> HIDE DEF r, Named
      <4> QED
        BY <3>1, <3>2, <4>1
    <3>4. CASE p = r.page /\ Retirable(h, r)
      <4>1. g = Retired(h, r)
        BY <2>1, <3>4 DEF RetireStep
      <4>2. g[p].retired /\ g[p].successor = r.successor /\ g[p].rev = h[p].rev
        <5> HIDE DEF r
        <5> QED
          BY <2>2, <2>3, <3>4, <4>1, RetiredPage
      <4>3. Named(k + 1, p) /\ h[p].rev = w[p].rev
        BY <2>3, <3>4 DEF Retirable
      <4> QED
        BY <3>2, <4>2, <4>3
    <3>5. CASE p = r.page /\ ~ Retirable(h, r)
      <4>1. g[p] = h[p] /\ Upon(h, k, p)
        BY <2>1, <2>3, <3>5 DEF RetireStep
      <4>2. Named(k + 1, p) => h[p].retired
        <5>1. h[p].rev = w[p].rev /\ r.rev # << >>
          BY <2>2, <4>1 DEF RetRow, Revs
        <5> QED
          BY <3>5, <5>1 DEF Retirable, Active, Exists
      <4> HIDE DEF r, Named
      <4> QED
        BY <3>1, <3>2, <4>1, <4>2
    <3> QED
      BY <3>3, <3>4, <3>5
  <2> QED
    BY <2>4, <2>5 DEF g
<1>6. Bad = {}
  <2> SUFFICES ASSUME Bad # {} PROVE FALSE
    OBVIOUS
  <2>1. PICK k \in Bad : \A j \in Bad : k <= j
    <3>1. Bad \in SUBSET Nat
      OBVIOUS
    <3> QED
      BY <3>1, LeastNat, Zenon
  <2>2. k \in Nat /\ k <= n /\ ~ Good(k)
    BY <2>1
  <2> HIDE DEF Good
  <2>3. k # 0
    BY <1>4, <2>2
  <2>4. PICK j \in Nat : k = j + 1 /\ j <= n /\ ~ (k <= j)
    BY <1>2, <2>2, <2>3
  <2>5. Good(j)
    BY <2>1, <2>4
  <2> QED
    BY <1>5, <2>2, <2>4, <2>5
<1>7. Good(n)
  <2> HIDE DEF Good
  <2>1. n <= n
    BY <1>2
  <2> QED
    BY <1>2, <1>6, <2>1
<1> QED
  BY <1>1, <1>2, <1>7 DEF Follows, Stored, At

\* A revision follows another one, or is the same.
Grows(old, new) == new = old \/ (new # << >> /\ Front(new) = old)

\* A revision that follows another one is longer by one draft, and starts with it.
LEMMA FrontOf ==
    ASSUME NEW D, NEW new \in Seq(D), new # << >>
    PROVE  /\ Front(new) \in Seq(D) /\ Len(new) = Len(Front(new)) + 1 /\ Len(Front(new)) \in Nat
           /\ Len(new) \in DOMAIN new
           /\ \A i \in DOMAIN Front(new) : i \in DOMAIN new /\ new[i] = Front(new)[i]
<1>1. Len(new) \in Nat /\ Len(new) > 0 /\ DOMAIN new = 1..Len(new)
  OBVIOUS
<1>2. PICK n \in Nat : Len(new) = n + 1
  <2>1. Len(new) - 1 \in Nat /\ Len(new) = (Len(new) - 1) + 1
    BY <1>1
  <2> QED
    BY <2>1
<1>3. Front(new) = SubSeq(new, 1, n)
  BY <1>2 DEF Front
<1>4. SubSeq(new, 1, n) = [i \in 1..n |-> new[i]]
  BY <1>1, <1>2
<1>5. \A i \in 1..n : new[i] \in D
  BY <1>1, <1>2
<1>6. [i \in 1..n |-> new[i]] \in Seq(D) /\ Len([i \in 1..n |-> new[i]]) = n
  BY <1>5
<1>7. DOMAIN Front(new) = 1..n /\ \A i \in 1..n : Front(new)[i] = new[i]
  BY <1>3, <1>4
<1> QED
  BY <1>1, <1>2, <1>3, <1>4, <1>6, <1>7

\* The base of the revision that a draft makes is the revision it was made from.
LEMMA FrontAppend ==
    ASSUME NEW D, NEW old \in Seq(D), NEW d \in D
    PROVE  /\ Append(old, d) \in Seq(D) \ {<< >>}
           /\ Front(Append(old, d)) = old /\ Last(Append(old, d)) = d
<1>1. Append(old, d) \in Seq(D) /\ Len(Append(old, d)) = Len(old) + 1 /\ Len(old) \in Nat
  OBVIOUS
<1>2. Last(Append(old, d)) = d
  BY <1>1 DEF Last
<1>3. Append(old, d) # << >>
  BY <1>1
<1>4. Front(Append(old, d)) = old
  <2> DEFINE new == Append(old, d)
  <2>1. \A i \in 1..Len(old) : new[i] = old[i]
    OBVIOUS
  <2>2. new \in Seq(D) /\ new # << >> /\ Len(new) = Len(old) + 1
    BY <1>1, <1>3
  <2> HIDE DEF new
  <2>3. /\ Front(new) \in Seq(D) /\ Len(new) = Len(Front(new)) + 1 /\ Len(Front(new)) \in Nat
        /\ \A i \in DOMAIN Front(new) : i \in DOMAIN new /\ new[i] = Front(new)[i]
    BY <2>2, FrontOf
  <2>4. Len(Front(new)) = Len(old)
    BY <1>1, <2>2, <2>3
  <2>5. DOMAIN Front(new) = DOMAIN old /\ \A i \in DOMAIN old : Front(new)[i] = old[i]
    BY <2>1, <2>3, <2>4
  <2>6. Front(new) = [i \in DOMAIN Front(new) |-> Front(new)[i]] /\ old = [i \in DOMAIN old |-> old[i]]
    BY <2>3
  <2> QED
    BY <2>5, <2>6 DEF new
<1> QED
  BY <1>1, <1>2, <1>3, <1>4

Results == [ok : BOOLEAN, wiki : Wikis]

UniqueSlugs(names, wiki) ==
    \A p, q \in Pages : Exists(wiki, p) /\ Exists(wiki, q) /\ names[p] = names[q] => p = q

\* What replay makes of a log: the pages have their own slugs and are active, and
\* the last revision of each page is stored; a page has no longer one if all
\* rows could be replayed.
Tables(names, lg, W) ==
    /\ W \in Results
    /\ UniqueSlugs(names, W.wiki)
    /\ \A p \in Pages : ~ W.wiki[p].retired /\ W.wiki[p].successor = Nothing
    /\ \A p \in Pages : Exists(W.wiki, p) => Stored(lg, At(p, W.wiki[p].rev))
    /\ W.ok => \A i \in DOMAIN lg : Len(lg[i].rev) <= Len(W.wiki[lg[i].page].rev)

\* One row is replayed, or makes the replay fail.
LEMMA StepResult ==
    ASSUME NEW names, NEW W \in Results, NEW pub \in PubRow
    PROVE  /\ ReplayStep(names, W, pub) \in Results
           /\ ReplayStep(names, W, pub).ok <=> W.ok /\ Publishable(names, W.wiki, pub)
           /\ ReplayStep(names, W, pub).ok =>
                 ReplayStep(names, W, pub).wiki = Published(W.wiki, pub)
           /\ ~ ReplayStep(names, W, pub).ok => ReplayStep(names, W, pub).wiki = W.wiki
<1>1. W.wiki \in Wikis /\ W.ok \in BOOLEAN
  BY DEF Results
<1>2. Published(W.wiki, pub) \in Wikis
  BY <1>1, PublishedPage
<1>3. CASE W.ok /\ Publishable(names, W.wiki, pub)
  <2>1. ReplayStep(names, W, pub) = [W EXCEPT !.wiki = Published(W.wiki, pub)]
    BY <1>3 DEF ReplayStep
  <2>2. [W EXCEPT !.wiki = Published(W.wiki, pub)] \in Results
    BY <1>2 DEF Results
  <2>3. /\ [W EXCEPT !.wiki = Published(W.wiki, pub)].ok = W.ok
        /\ [W EXCEPT !.wiki = Published(W.wiki, pub)].wiki = Published(W.wiki, pub)
    BY DEF Results
  <2> QED
    BY <1>3, <2>1, <2>2, <2>3
<1>4. CASE ~ (W.ok /\ Publishable(names, W.wiki, pub))
  <2>1. ReplayStep(names, W, pub) = [W EXCEPT !.ok = FALSE]
    BY <1>4 DEF ReplayStep
  <2>2. [W EXCEPT !.ok = FALSE] \in Results
    BY DEF Results
  <2>3. /\ [W EXCEPT !.ok = FALSE].ok = FALSE
        /\ [W EXCEPT !.ok = FALSE].wiki = W.wiki
    BY DEF Results
  <2> QED
    BY <1>4, <2>1, <2>2, <2>3
<1> QED
  BY <1>3, <1>4

\* A publication is replayed on its page alone.
LEMMA StepOthers ==
    ASSUME NEW names, NEW W \in Results, NEW pub \in PubRow, NEW p \in Pages, p # pub.page
    PROVE  ReplayStep(names, W, pub).wiki[p] = W.wiki[p]
<1>1. W.wiki \in Wikis
  BY DEF Results
<1>2. Published(W.wiki, pub)[p] = W.wiki[p]
  BY <1>1, PublishedPage
<1> QED
  BY <1>2, StepResult

\* The page of a row that is replayed grows to the row's revision.
LEMMA StepPublished ==
    ASSUME NEW names, NEW W \in Results, NEW pub \in PubRow, ReplayStep(names, W, pub).ok
    PROVE  /\ ReplayStep(names, W, pub).wiki[pub.page].rev = pub.rev
           /\ Grows(W.wiki[pub.page].rev, pub.rev)
<1>1. W.wiki \in Wikis
  BY DEF Results
<1>2. /\ ReplayStep(names, W, pub).wiki = Published(W.wiki, pub)
      /\ Publishable(names, W.wiki, pub)
  BY StepResult
<1>3. Published(W.wiki, pub)[pub.page].rev = pub.rev
  BY <1>1, PublishedPage
<1>4. Grows(W.wiki[pub.page].rev, pub.rev)
  BY <1>1, <1>2, AppliedPage DEF Publishable, Admissible, Grows, PubRow, Revs
<1> QED
  BY <1>2, <1>3, <1>4

\* An empty log gives an empty wiki.
LEMMA TablesEmpty ==
    ASSUME NEW names
    PROVE  /\ Tables(names, << >>, Replay(names, << >>)) /\ Replay(names, << >>).ok
           /\ \A p \in Pages : Replay(names, << >>).wiki[p] = NoPage
<1>1. Replay(names, << >>) = [ok |-> TRUE, wiki |-> EmptyWiki]
  <2>1. << >> \in Seq({0}) /\ 0 \in {0}
    OBVIOUS
  <2> QED
    BY <2>1, ReplayRows, Zenon
<1>2. EmptyWiki \in Wikis /\ \A p \in Pages : EmptyWiki[p] = NoPage
  BY DEF EmptyWiki, Wikis, NoPage
<1>3. /\ Replay(names, << >>).ok /\ Replay(names, << >>).wiki = EmptyWiki
      /\ Replay(names, << >>) \in Results
  <2>1. PICK W : W = Replay(names, << >>)
    BY Zenon
  <2>2. W.ok = TRUE /\ W.wiki = EmptyWiki
    BY <1>1, <2>1
  <2>3. W \in Results
    <3>1. \A yes \in BOOLEAN, w \in Wikis : [ok |-> yes, wiki |-> w] \in Results
      BY DEF Results
    <3>2. TRUE \in BOOLEAN
      OBVIOUS
    <3> QED
      BY <1>1, <1>2, <2>1, <3>1, <3>2, Zenon
  <2> QED
    BY <2>1, <2>2, <2>3, Zenon
<1>4. \A p \in Pages : EmptyWiki[p].rev = << >> /\ ~ EmptyWiki[p].retired
                        /\ EmptyWiki[p].successor = Nothing
  BY <1>2 DEF NoPage
<1> QED
  BY <1>2, <1>3, <1>4 DEF Tables, UniqueSlugs, Exists

\* A page that is published keeps its slug to itself.
LEMMA PublishedSlugs ==
    ASSUME NEW names, NEW w \in Wikis, NEW pub \in PubRow, Publishable(names, w, pub),
           UniqueSlugs(names, w)
    PROVE  UniqueSlugs(names, Published(w, pub))
<1> DEFINE v == Published(w, pub)
<1>1. /\ v \in Wikis /\ v[pub.page].rev = pub.rev /\ pub.page \in Pages
      /\ \A p \in Pages : p # pub.page => v[p] = w[p]
  BY PublishedPage DEF PubRow
<1>2. pub.rev # << >>
  BY DEF PubRow, Revs
<1> HIDE DEF v
<1>3. CASE Applied(w, pub)
  <2>1. \A p \in Pages : v[p].rev = w[p].rev
    BY <1>1, <1>3, AppliedPage
  <2>2. UniqueSlugs(names, v)
    BY <2>1 DEF UniqueSlugs, Exists
  <2> QED
    BY <2>2 DEF v
<1>4. CASE Admissible(names, w, pub)
  <2>1. \A q \in Pages : w[q].rev # << >> /\ names[q] = names[pub.page] => q = pub.page
    BY <1>4 DEF Admissible, Exists
  <2>2. \A p, q \in Pages : w[p].rev # << >> /\ w[q].rev # << >> /\ names[p] = names[q] => p = q
    BY DEF UniqueSlugs, Exists
  <2>3. UniqueSlugs(names, v)
    BY <1>1, <2>1, <2>2 DEF UniqueSlugs, Exists
  <2> QED
    BY <2>3 DEF v
<1> QED
  BY <1>3, <1>4 DEF Publishable

\* One row more.
LEMMA TablesAppend ==
    ASSUME NEW names, NEW lg \in Seq(PubRow), NEW pub \in PubRow, NEW W, Tables(names, lg, W)
    PROVE  Tables(names, Append(lg, pub), ReplayStep(names, W, pub))
<1> DEFINE V == ReplayStep(names, W, pub)
<1>1. W \in Results /\ W.wiki \in Wikis /\ W.ok \in BOOLEAN
  BY DEF Tables, Results
<1>2. /\ V \in Results
      /\ V.ok <=> W.ok /\ Publishable(names, W.wiki, pub)
      /\ V.ok => V.wiki = Published(W.wiki, pub)
      /\ ~ V.ok => V.wiki = W.wiki
  BY <1>1, StepResult
<1> HIDE DEF V
<1>3. /\ Published(W.wiki, pub) \in Wikis
      /\ Published(W.wiki, pub)[pub.page].rev = pub.rev
      /\ ~ Published(W.wiki, pub)[pub.page].retired
      /\ Published(W.wiki, pub)[pub.page].successor = Nothing
      /\ \A p \in Pages : p # pub.page => Published(W.wiki, pub)[p] = W.wiki[p]
  BY <1>1, PublishedPage
<1>4. \A p \in Pages : p # pub.page => V.wiki[p] = W.wiki[p]
  BY <1>2, <1>3
<1>5. ASSUME V.ok PROVE V.wiki[pub.page].rev = pub.rev /\ Grows(W.wiki[pub.page].rev, pub.rev)
  BY <1>1, <1>5, StepPublished DEF V
<1>6. UniqueSlugs(names, V.wiki)
  BY <1>1, <1>2, PublishedSlugs DEF Tables
<1>7. \A p \in Pages : ~ V.wiki[p].retired /\ V.wiki[p].successor = Nothing
  BY <1>2, <1>3 DEF Tables
<1> DEFINE more == Append(lg, pub)
<1>8. /\ more \in Seq(PubRow) /\ Len(more) = Len(lg) + 1 /\ Len(lg) \in Nat
      /\ more[Len(lg) + 1] = pub /\ \A i \in DOMAIN lg : i \in DOMAIN more /\ more[i] = lg[i]
      /\ \A i \in DOMAIN more : i \in DOMAIN lg \/ i = Len(lg) + 1
      /\ Len(lg) + 1 \in DOMAIN more
  OBVIOUS
<1> HIDE DEF more
<1>9. ASSUME NEW p \in Pages, Exists(V.wiki, p) PROVE Stored(more, At(p, V.wiki[p].rev))
  <2>1. CASE V.ok /\ p = pub.page
    BY <1>5, <1>8, <2>1 DEF Stored, At
  <2>2. CASE ~ (V.ok /\ p = pub.page)
    <3>1. V.wiki[p] = W.wiki[p]
      BY <1>2, <1>4, <2>2
    <3>2. Stored(lg, At(p, W.wiki[p].rev))
      BY <1>9, <3>1 DEF Tables, Exists
    <3> QED
      BY <1>8, <3>1, <3>2 DEF Stored
  <2> QED
    BY <2>1, <2>2
<1>10. ASSUME V.ok, NEW i \in DOMAIN more
       PROVE  Len(more[i].rev) <= Len(V.wiki[more[i].page].rev)
  <2>1. /\ pub.rev \in Seq(Drafts) /\ pub.rev # << >> /\ pub.page \in Pages
        /\ W.wiki[pub.page].rev \in Seq(Drafts)
    BY <1>1 DEF PubRow, Revs, Wikis
  <2>2. Len(W.wiki[pub.page].rev) <= Len(pub.rev)
    BY <1>5, <1>10, <2>1, FrontOf DEF Grows
  <2>3. CASE i = Len(lg) + 1
    BY <1>5, <1>8, <1>10, <2>1, <2>3
  <2>4. CASE i \in DOMAIN lg
    <3>1. Len(lg[i].rev) <= Len(W.wiki[lg[i].page].rev) /\ lg[i] \in PubRow
      BY <1>2, <1>10, <2>4 DEF Tables
    <3>2. lg[i].page \in Pages /\ lg[i].rev \in Seq(Drafts)
      BY <3>1 DEF PubRow, Revs
    <3>3. CASE lg[i].page = pub.page
      <4>1. Len(lg[i].rev) \in Nat /\ Len(pub.rev) \in Nat /\ Len(W.wiki[pub.page].rev) \in Nat
        BY <2>1, <3>2
      <4>2. PICK a \in Nat, b \in Nat, c \in Nat :
                /\ a = Len(lg[i].rev) /\ b = Len(W.wiki[pub.page].rev) /\ c = Len(pub.rev)
        BY <4>1
      <4>3. a <= b /\ b <= c
        BY <2>2, <3>1, <3>3, <4>2
      <4>4. a <= c
        BY <4>3
      <4>5. more[i] = lg[i]
        BY <1>8, <2>4
      <4>6. V.wiki[pub.page].rev = pub.rev
        BY <1>5, <1>10
      <4> QED
        BY <3>3, <4>2, <4>4, <4>5, <4>6
    <3>4. CASE lg[i].page # pub.page
      BY <1>4, <1>8, <2>4, <3>1, <3>2, <3>4
    <3> QED
      BY <3>3, <3>4
  <2> QED
    BY <1>8, <2>3, <2>4
<1>11. Tables(names, more, V)
  BY <1>2, <1>6, <1>7, <1>9, <1>10 DEF Tables
<1> QED
  BY <1>11 DEF V, more

\* The rows are as far as the mirror, for every page that is not torn: they give
\* the page, or they will once the insert that is due is made.
RowsFollow(pg, W, lf, due, to) ==
    /\ to = {} => W.ok
    /\ W.ok => \A p \in Pages \ to :
          /\ p \notin due => Follows(pg, W.wiki, lf, p)
          /\ p \in due => /\ ~ Stored(lf, At(p, pg[p].rev))
                          /\ Grows(W.wiki[p].rev, pg[p].rev)
                          /\ pg[p].retired => pg[p].rev = W.wiki[p].rev
          /\ \A i \in DOMAIN lf : lf[i].page = p => Len(lf[i].rev) <= Len(W.wiki[p].rev)

\* Only torn pages have changed.
LEMMA TornRows ==
    ASSUME NEW pg, NEW W, NEW lf, NEW due, NEW to, RowsFollow(pg, W, lf, due, to),
           NEW pg2, NEW due2, NEW to2, to \subseteq to2,
           \A p \in Pages \ to2 : pg2[p] = pg[p] /\ (p \in due <=> p \in due2)
    PROVE  RowsFollow(pg2, W, lf, due2, to2)
  BY DEF RowsFollow, Follows

\* The mirror's leg of a publication, of a page for which no insert is due.
LEMMA PublishRows ==
    ASSUME NEW names, NEW pg \in Wikis, NEW W \in Results, NEW lf \in Seq(RetRow),
           NEW due, NEW to, RowsFollow(pg, W, lf, due, to),
           NEW pub \in PubRow, Publishable(names, pg, pub), pub.page \notin due
    PROVE  RowsFollow(Published(pg, pub), W, lf, due \cup {pub.page}, to)
<1> DEFINE v == Published(pg, pub)
           p == pub.page
<1>1. /\ v[p].rev = pub.rev /\ ~ v[p].retired /\ p \in Pages
      /\ \A q \in Pages : q # p => v[q] = pg[q]
  BY PublishedPage DEF PubRow
<1> HIDE DEF v
<1>2. ASSUME W.ok, p \notin to
      PROVE  ~ Stored(lf, At(p, pub.rev)) /\ Grows(W.wiki[p].rev, pub.rev)
  <2>1. /\ Follows(pg, W.wiki, lf, p)
        /\ \A i \in DOMAIN lf : lf[i].page = p => Len(lf[i].rev) <= Len(W.wiki[p].rev)
    BY <1>1, <1>2 DEF RowsFollow
  <2>2. CASE Applied(pg, pub)
    <3>1. pg[p].rev = pub.rev /\ ~ pg[p].retired
      BY <2>2, AppliedPage
    <3> QED
      BY <2>1, <3>1 DEF Follows, Grows
  <2>3. CASE Admissible(names, pg, pub)
    <3>1. pub.rev \in Seq(Drafts) /\ pub.rev # << >>
      BY DEF PubRow, Revs
    <3>2. Front(pub.rev) = W.wiki[p].rev
      BY <2>1, <2>3 DEF Follows, Admissible
    <3>3. Len(pub.rev) = Len(W.wiki[p].rev) + 1 /\ Len(W.wiki[p].rev) \in Nat
      BY <3>1, <3>2, FrontOf
    <3>4. ASSUME Stored(lf, At(p, pub.rev)) PROVE FALSE
      <4>1. PICK i \in DOMAIN lf : lf[i].page = p /\ lf[i].rev = pub.rev
        BY <3>4 DEF Stored, At
      <4> HIDE DEF p
      <4>2. Len(pub.rev) <= Len(W.wiki[p].rev)
        BY <2>1, <4>1
      <4> QED
        BY <3>3, <4>2
    <3> QED
      BY <3>1, <3>2, <3>4 DEF Grows
  <2> QED
    BY <2>2, <2>3 DEF Publishable
<1>3. \A q \in Pages \ to : q # p => v[q] = pg[q] /\ (q \in due <=> q \in due \cup {p})
  BY <1>1
<1> HIDE DEF p
<1> QED
  BY <1>1, <1>2, <1>3 DEF RowsFollow, Follows, v, p

\* The mirror's leg of a retirement, of a page for which no insert is due.
LEMMA RetireRows ==
    ASSUME NEW pg \in Wikis, NEW W \in Results, NEW lf \in Seq(RetRow),
           NEW due, NEW to, RowsFollow(pg, W, lf, due, to),
           NEW req \in RetRow, Retirable(pg, req), req.page \notin due
    PROVE  RowsFollow(Retired(pg, req), W, lf, due \cup {req.page}, to)
<1> DEFINE v == Retired(pg, req)
           p == req.page
<1>1. /\ v[p].rev = pg[p].rev /\ v[p].retired /\ p \in Pages
      /\ \A q \in Pages : q # p => v[q] = pg[q]
  BY RetiredPage DEF RetRow
<1> HIDE DEF v
<1>2. ASSUME W.ok, p \notin to
      PROVE  ~ Stored(lf, At(p, v[p].rev)) /\ W.wiki[p].rev = v[p].rev
  <2>1. Follows(pg, W.wiki, lf, p) /\ ~ pg[p].retired
    BY <1>1, <1>2 DEF RowsFollow, Retirable, Active
  <2> QED
    BY <1>1, <2>1 DEF Follows
<1>3. \A q \in Pages \ to : q # p => v[q] = pg[q] /\ (q \in due <=> q \in due \cup {p})
  BY <1>1
<1> HIDE DEF p
<1> QED
  BY <1>1, <1>2, <1>3 DEF RowsFollow, Follows, Grows, v, p

\* Rows of other pages, and one row more of page r.page.
LEMMA StoredAppend ==
    ASSUME NEW S, NEW rows \in Seq(S), NEW r \in S
    PROVE  /\ Append(rows, r) \in Seq(S) /\ Stored(Append(rows, r), r)
           /\ \A x : Stored(rows, x) => Stored(Append(rows, r), x)
           /\ \A x : Stored(Append(rows, r), x) =>
                 Stored(rows, x) \/ (x.page = r.page /\ x.rev = r.rev)
           /\ \A i \in DOMAIN Append(rows, r) :
                 (i \in DOMAIN rows /\ Append(rows, r)[i] = rows[i])
                 \/ (i = Len(rows) + 1 /\ Append(rows, r)[i] = r)
           /\ \A i \in DOMAIN rows : i \in DOMAIN Append(rows, r) /\ Append(rows, r)[i] = rows[i]
           /\ Len(rows) + 1 \in DOMAIN Append(rows, r) /\ Append(rows, r)[Len(rows) + 1] = r
<1> DEFINE more == Append(rows, r)
<1>1. /\ more \in Seq(S) /\ Len(more) = Len(rows) + 1 /\ Len(rows) \in Nat
      /\ more[Len(rows) + 1] = r /\ \A i \in DOMAIN rows : i \in DOMAIN more /\ more[i] = rows[i]
      /\ \A i \in DOMAIN more : i \in DOMAIN rows \/ i = Len(rows) + 1
      /\ Len(rows) + 1 \in DOMAIN more
  OBVIOUS
<1> HIDE DEF more
<1>2. Stored(more, r)
  BY <1>1 DEF Stored
<1>3. ASSUME NEW x, Stored(rows, x) PROVE Stored(more, x)
  BY <1>1, <1>3 DEF Stored
<1>4. ASSUME NEW x, Stored(more, x), ~ Stored(rows, x) PROVE x.page = r.page /\ x.rev = r.rev
  <2>1. PICK i \in DOMAIN more : more[i].page = x.page /\ more[i].rev = x.rev
    BY <1>4 DEF Stored
  <2> QED
    BY <1>1, <1>4, <2>1 DEF Stored
<1> QED
  BY <1>1, <1>2, <1>3, <1>4 DEF more

\* The database's leg of a publication, with the revision that the mirror has
\* unless the page is torn.
LEMMA InsertRows ==
    ASSUME NEW names, NEW pg \in Wikis, UniqueSlugs(names, pg), NEW lg \in Seq(PubRow),
           NEW W, Tables(names, lg, W), NEW lf \in Seq(RetRow),
           NEW due, NEW to, RowsFollow(pg, W, lf, due, to), NEW pub \in PubRow,
           pub.page \notin to => /\ pub.page \in due /\ pg[pub.page].rev = pub.rev
                                 /\ ~ pg[pub.page].retired /\ pg[pub.page].successor = Nothing,
           NEW due2, pub.page \notin to => pub.page \notin due2,
           \A p \in Pages : p # pub.page => (p \in due <=> p \in due2),
           NEW V, Stored(lg, pub) => V = W,
           ~ Stored(lg, pub) => V = ReplayStep(names, W, pub)
    PROVE  RowsFollow(pg, V, lf, due2, to)
<1> DEFINE p == pub.page
<1>1. /\ p \in Pages /\ pub.rev \in Seq(Drafts) /\ pub.rev # << >>
      /\ W \in Results /\ W.wiki[p].rev \in Seq(Drafts)
  BY DEF PubRow, Revs, Tables, Results, Wikis
<1>2. ASSUME W.ok, p \notin to
      PROVE  /\ ~ Stored(lf, At(p, pub.rev)) /\ Grows(W.wiki[p].rev, pub.rev)
             /\ \A i \in DOMAIN lf : lf[i].page = p => Len(lf[i].rev) <= Len(W.wiki[p].rev)
  BY <1>1, <1>2 DEF RowsFollow
<1>3. Grows(W.wiki[p].rev, pub.rev) =>
          /\ Len(pub.rev) \in Nat /\ Len(W.wiki[p].rev) \in Nat
          /\ Len(W.wiki[p].rev) <= Len(pub.rev)
          /\ pub.rev # W.wiki[p].rev => Len(W.wiki[p].rev) < Len(pub.rev)
  BY <1>1, FrontOf DEF Grows
<1>4. CASE Stored(lg, pub)
  <2>1. V = W
    BY <1>4
  <2>2. ASSUME W.ok, p \notin to PROVE Follows(pg, W.wiki, lf, p)
    <3>1. PICK i \in DOMAIN lg : lg[i].page = p /\ lg[i].rev = pub.rev
      BY <1>4 DEF Stored
    <3>2. Len(pub.rev) <= Len(W.wiki[p].rev)
      BY <2>2, <3>1 DEF Tables
    <3>3. pub.rev = W.wiki[p].rev
      BY <1>2, <1>3, <2>2, <3>2
    <3> QED
      BY <1>2, <2>2, <3>3 DEF Follows
  <2> HIDE DEF p
  <2> QED
    BY <2>1, <2>2 DEF RowsFollow, p
<1>5. CASE ~ Stored(lg, pub)
  <2>1. V = ReplayStep(names, W, pub)
    BY <1>5
  <2>2. /\ V.ok <=> W.ok /\ Publishable(names, W.wiki, pub)
        /\ \A q \in Pages : q # p => V.wiki[q] = W.wiki[q]
        /\ V.ok => V.wiki[p].rev = pub.rev /\ Grows(W.wiki[p].rev, pub.rev)
    <3>1. ASSUME NEW q \in Pages, q # pub.page PROVE V.wiki[q] = W.wiki[q]
      BY <1>1, <2>1, <3>1, StepOthers
    <3>2. ReplayStep(names, W, pub).ok <=> W.ok /\ Publishable(names, W.wiki, pub)
      BY <1>1, StepResult
    <3>3. ReplayStep(names, W, pub).ok =>
              /\ ReplayStep(names, W, pub).wiki[pub.page].rev = pub.rev
              /\ Grows(W.wiki[pub.page].rev, pub.rev)
      BY <1>1, StepPublished
    <3> QED
      BY <2>1, <3>1, <3>2, <3>3
  <2>3. ASSUME to = {} PROVE V.ok
    <3>1. W.ok /\ p \notin to
      BY <2>3 DEF RowsFollow
    <3>2. pub.rev # W.wiki[p].rev
      <4> SUFFICES ASSUME pub.rev = W.wiki[p].rev PROVE FALSE
        OBVIOUS
      <4>1. Stored(lg, At(p, pub.rev))
        BY <1>1 DEF Tables, Exists
      <4> QED
        BY <1>5, <4>1 DEF Stored, At
    <3>3. W.wiki[p].rev = Front(pub.rev)
      BY <1>2, <3>1, <3>2 DEF Grows
    <3>4. \A q \in Pages : W.wiki[q].rev # << >> => pg[q].rev # << >>
      <4> SUFFICES ASSUME NEW q \in Pages, W.wiki[q].rev # << >> PROVE pg[q].rev # << >>
        OBVIOUS
      <4>1. Follows(pg, W.wiki, lf, q) \/ Grows(W.wiki[q].rev, pg[q].rev)
        BY <2>3, <3>1 DEF RowsFollow
      <4> QED
        BY <4>1 DEF Follows, Grows
    <3>5. pg[p].rev # << >>
      BY <1>1, <3>1
    <3>6. \A q \in Pages : Exists(W.wiki, q) /\ names[q] = names[p] => q = p
      BY <1>1, <3>4, <3>5 DEF UniqueSlugs, Exists
    <3>7. ~ W.wiki[p].retired
      BY <1>1 DEF Tables
    <3> QED
      BY <2>2, <3>1, <3>3, <3>6, <3>7 DEF Publishable, Admissible
  <2>4. ASSUME V.ok, p \notin to
        PROVE  /\ Follows(pg, V.wiki, lf, p)
               /\ \A i \in DOMAIN lf : lf[i].page = p => Len(lf[i].rev) <= Len(V.wiki[p].rev)
    <3>1. W.ok /\ V.wiki[p].rev = pub.rev /\ Grows(W.wiki[p].rev, pub.rev)
      BY <2>2, <2>4
    <3>2. Follows(pg, V.wiki, lf, p)
      BY <1>2, <2>4, <3>1 DEF Follows
    <3>3. ASSUME NEW i \in DOMAIN lf, lf[i].page = p PROVE Len(lf[i].rev) <= Len(V.wiki[p].rev)
      <4>1. lf[i] \in RetRow
        OBVIOUS
      <4>2. Len(lf[i].rev) \in Nat
        BY <4>1 DEF RetRow, Revs
      <4>3. Len(lf[i].rev) <= Len(W.wiki[p].rev)
        BY <1>2, <2>4, <3>1, <3>3
      <4>4. /\ Len(pub.rev) \in Nat /\ Len(W.wiki[p].rev) \in Nat
            /\ Len(W.wiki[p].rev) <= Len(pub.rev)
        BY <1>3, <3>1
      <4>5. PICK a \in Nat, b \in Nat, c \in Nat :
                /\ a = Len(lf[i].rev) /\ b = Len(W.wiki[p].rev) /\ c = Len(pub.rev)
        BY <4>2, <4>4
      <4>6. a <= b /\ b <= c
        BY <4>3, <4>4, <4>5
      <4>7. a <= c
        BY <4>6
      <4> QED
        BY <3>1, <4>5, <4>7
    <3> QED
      BY <3>2, <3>3
  <2>5. ASSUME V.ok, NEW q \in Pages \ to, q # p
        PROVE  /\ q \notin due2 => Follows(pg, V.wiki, lf, q)
               /\ q \in due2 => /\ ~ Stored(lf, At(q, pg[q].rev))
                                /\ Grows(V.wiki[q].rev, pg[q].rev)
                                /\ pg[q].retired => pg[q].rev = V.wiki[q].rev
               /\ \A i \in DOMAIN lf : lf[i].page = q => Len(lf[i].rev) <= Len(V.wiki[q].rev)
    <3>1. W.ok /\ V.wiki[q] = W.wiki[q] /\ (q \in due <=> q \in due2)
      BY <2>2, <2>5
    <3> QED
      BY <3>1 DEF RowsFollow, Follows
  <2> HIDE DEF p
  <2> QED
    BY <2>3, <2>4, <2>5 DEF RowsFollow, p
<1> QED
  BY <1>4, <1>5

Unique(lf) == \A i, j \in DOMAIN lf : lf[i].page = lf[j].page /\ lf[i].rev = lf[j].rev => i = j

\* The database's leg of a retirement.
LEMMA InsertRetiredRows ==
    ASSUME NEW pg, NEW W, NEW lf \in Seq(RetRow), Unique(lf),
           NEW due, NEW to, RowsFollow(pg, W, lf, due, to), NEW req \in RetRow,
           req.page \notin to => /\ req.page \in due /\ pg[req.page].rev = req.rev
                                 /\ pg[req.page].retired /\ pg[req.page].successor = req.successor,
           NEW due2, req.page \notin to => req.page \notin due2,
           \A p \in Pages : p # req.page => (p \in due <=> p \in due2)
    PROVE  /\ RowsFollow(pg, W, Recorded(lf, req), due2, to)
           /\ Recorded(lf, req) \in Seq(RetRow) /\ Unique(Recorded(lf, req))
<1> DEFINE p == req.page
           new == Append(lf, req)
<1>1. p \in Pages
  BY DEF RetRow
<1>2. ASSUME W.ok, p \notin to
      PROVE  ~ Stored(lf, req) /\ pg[p].rev = W.wiki[p].rev
  BY <1>1, <1>2 DEF RowsFollow, Stored, At
<1>3. CASE Stored(lf, req)
  <2>1. Recorded(lf, req) = lf
    BY <1>3 DEF Recorded
  <2>2. W.ok => p \in to
    BY <1>2, <1>3
  <2> HIDE DEF p
  <2> QED
    BY <2>1, <2>2 DEF RowsFollow, p
<1>4. CASE ~ Stored(lf, req)
  <2>1. Recorded(lf, req) = new
    BY <1>4 DEF Recorded
  <2>2. /\ new \in Seq(RetRow)
        /\ \A x : Stored(lf, x) => Stored(new, x)
        /\ \A x : Stored(new, x) => Stored(lf, x) \/ (x.page = p /\ x.rev = req.rev)
        /\ \A i \in DOMAIN new : (i \in DOMAIN lf /\ new[i] = lf[i])
                                \/ (i = Len(lf) + 1 /\ new[i] = req)
        /\ \A i \in DOMAIN lf : i \in DOMAIN new /\ new[i] = lf[i]
        /\ Len(lf) + 1 \in DOMAIN new /\ new[Len(lf) + 1] = req
    BY StoredAppend
  <2> HIDE DEF new
  <2>3. Unique(new)
    BY <1>4, <2>2 DEF Unique, Stored
  <2>4. ASSUME W.ok, NEW q \in Pages \ to, q # p
        PROVE  /\ q \notin due2 => Follows(pg, W.wiki, new, q)
               /\ q \in due2 => /\ ~ Stored(new, At(q, pg[q].rev))
                                /\ Grows(W.wiki[q].rev, pg[q].rev)
                                /\ pg[q].retired => pg[q].rev = W.wiki[q].rev
               /\ \A i \in DOMAIN new : new[i].page = q => Len(new[i].rev) <= Len(W.wiki[q].rev)
    <3>1. \A rev : Stored(new, At(q, rev)) => Stored(lf, At(q, rev))
      BY <2>2, <2>4 DEF At
    <3>2. q \in due <=> q \in due2
      BY <2>4
    <3>3. /\ q \notin due => Follows(pg, W.wiki, lf, q)
          /\ q \in due => /\ ~ Stored(lf, At(q, pg[q].rev))
                          /\ Grows(W.wiki[q].rev, pg[q].rev)
                          /\ pg[q].retired => pg[q].rev = W.wiki[q].rev
          /\ \A i \in DOMAIN lf : lf[i].page = q => Len(lf[i].rev) <= Len(W.wiki[q].rev)
      BY <2>4 DEF RowsFollow
    <3>4. Follows(pg, W.wiki, lf, q) => Follows(pg, W.wiki, new, q)
      BY <2>2, <3>1 DEF Follows
    <3>5. \A i \in DOMAIN new : new[i].page = q => Len(new[i].rev) <= Len(W.wiki[q].rev)
      BY <2>2, <2>4, <3>3
    <3> QED
      BY <3>1, <3>2, <3>3, <3>4, <3>5
  <2>5. ASSUME W.ok, p \notin to
        PROVE  /\ Follows(pg, W.wiki, new, p)
               /\ \A i \in DOMAIN new : new[i].page = p => Len(new[i].rev) <= Len(W.wiki[p].rev)
    <3>1. /\ pg[p].rev = W.wiki[p].rev /\ req.rev = W.wiki[p].rev
          /\ pg[p].retired /\ pg[p].successor = req.successor
      BY <1>2, <2>5
    <3>2. Follows(pg, W.wiki, new, p)
      BY <2>2, <3>1 DEF Follows
    <3>3. Len(req.rev) <= Len(W.wiki[p].rev)
      <4>1. Len(req.rev) \in Nat
        BY DEF RetRow, Revs
      <4> QED
        BY <3>1, <4>1
    <3>4. \A i \in DOMAIN lf : lf[i].page = p => Len(lf[i].rev) <= Len(W.wiki[p].rev)
      BY <1>1, <2>5 DEF RowsFollow
    <3> QED
      BY <2>2, <3>2, <3>3, <3>4
  <2> HIDE DEF p
  <2>6. RowsFollow(pg, W, new, due2, to)
    BY <2>4, <2>5 DEF RowsFollow, p
  <2> QED
    BY <2>1, <2>2, <2>3, <2>6
<1> QED
  BY <1>3, <1>4

\* What the next process finds follows the rows, too.
LEMMA HydratedRows ==
    ASSUME NEW names, NEW lg, NEW W, Tables(names, lg, W), NEW lf \in Seq(RetRow), NEW to,
           to = {} => W.ok,
           W.ok => \A p \in Pages \ to : \A i \in DOMAIN lf :
                      lf[i].page = p => Len(lf[i].rev) <= Len(W.wiki[p].rev)
    PROVE  RowsFollow(ReplayRetirements(W.wiki, lf), W, lf, {}, to)
<1>1. W.wiki \in Wikis /\ \A p \in Pages : ~ W.wiki[p].retired /\ W.wiki[p].successor = Nothing
  BY DEF Tables, Results
<1>2. \A p \in Pages : Follows(ReplayRetirements(W.wiki, lf), W.wiki, lf, p)
  BY <1>1, RetirementsFollow
<1> QED
  BY <1>2 DEF RowsFollow

\* The rows leave no choice.
LEMMA FollowsSame ==
    ASSUME NEW u \in Wikis, NEW v \in Wikis, NEW w, NEW lf, Unique(lf), NEW p \in Pages,
           Follows(u, w, lf, p), Follows(v, w, lf, p)
    PROVE  u[p] = v[p]
<1>1. u[p] \in PageType /\ v[p] \in PageType
  BY DEF Wikis, PageType
<1>2. u[p].rev = v[p].rev
  BY DEF Follows
<1>3. u[p].retired <=> v[p].retired
  BY DEF Follows, Stored, At
<1>4. u[p].successor = v[p].successor
  <2>1. CASE u[p].retired
    BY <1>3, <2>1 DEF Follows, Unique
  <2>2. CASE ~ u[p].retired
    BY <1>3, <2>2 DEF Follows
  <2> QED
    BY <2>1, <2>2
<1>5. u[p].retired = v[p].retired
  BY <1>1, <1>3 DEF PageType
<1> QED
  BY <1>1, <1>2, <1>4, <1>5 DEF PageType

-----------------------------------------------------------------------------
(* The inductive invariant                                                 *)

TargetType ==
    [create : BOOLEAN, page : Pages, base : Seq(Drafts), revive : BOOLEAN,
     draft : Drafts \cup {NoDraft}, status : {"planned", "ready", "failed", "succeeded"}]
InjectRecord ==
    [pc : {"prepare", "commit", "insert", "save"}, source : Sources,
     targets : Seq(TargetType), i : Nat, row : PubRow \cup {NoRow}]
Snapshots == UNION {[ps -> Revs] : ps \in SUBSET Pages}
RoundRecord ==
    [pc : {"judge", "insert", "retire", "insertRetire"}, snapshot : Snapshots,
     todo : SUBSET SUBSET Pages, retire : RetRow \cup {NoRow},
     row : PubRow \cup RetRow \cup {NoRow}]

\* A target has its draft when it is ready.
TargetOK(t) == t \in TargetType /\ (t.status = "ready" => t.draft \in Drafts)

InjectType ==
    inject # Idle =>
        /\ inject \in InjectRecord /\ inject.i \in DOMAIN inject.targets
        /\ \A k \in DOMAIN inject.targets : TargetOK(inject.targets[k])
        /\ inject.pc = "insert" => inject.row \in PubRow /\ inject.row.page = Target.page
RoundType ==
    round # Idle =>
        /\ round \in RoundRecord
        /\ \A c \in round.todo : c \subseteq DOMAIN round.snapshot
        /\ round.pc = "insert" => round.row \in PubRow
        /\ round.pc = "retire" => round.retire \in RetRow
        /\ round.pc = "insertRetire" => round.row \in RetRow

\* The rows of the database, and what they are replayed to.
Rows == Replay(slug, log)
TableInv ==
    /\ slug \in [Sources -> Slugs]
    /\ log \in Seq(PubRow) /\ Tables(slug, log, Rows)
    /\ life \in Seq(RetRow) /\ Unique(life)

\* The mirror has what writer w is still to insert.
Mirrored(pg, w, to) ==
    \A p \in Unwritten(w) \ to :
        /\ pg[p].rev = w.row.rev
        /\ w.pc = "insert" => ~ pg[p].retired /\ pg[p].successor = Nothing
        /\ w.pc = "insertRetire" => pg[p].retired /\ pg[p].successor = w.row.successor

\* Mirror and rows, with writers w and o under way.
MirrorOf(pg, W, lf, w, o, to, rb) ==
    /\ Mirrored(pg, w, to) /\ Mirrored(pg, o, to)
    /\ Unwritten(w) \cap Unwritten(o) \subseteq to
    /\ ~ rb => RowsFollow(pg, W, lf, Unwritten(w) \cup Unwritten(o), to)
MirrorInv == MirrorOf(page, Rows, life, inject, round, torn, rebuild)

\* Between the two steps of a rebuild only torn pages have rows.
RebuildInv ==
    rebuild => /\ inject = Idle /\ InsertsDue \subseteq torn
               /\ \A i \in DOMAIN log : log[i].page \in torn
               /\ \A i \in DOMAIN life : life[i].page \in torn
               /\ round.pc = "retire" /\ round.retire.successor # Nothing =>
                     round.retire.page \in torn \/ round.retire.successor \in torn

\* What a run will be stored with is stored, or is about to be.
TargetBacked(t, lg, r) ==
    /\ t.status = "succeeded" => Stored(lg, At(t.page, t.base))
    /\ t.status = "ready" /\ t.base # << >> =>
          \/ Stored(lg, At(t.page, t.base))
          \/ r.pc = "insert" /\ r.row.page = t.page /\ r.row.rev = t.base
RunsInv ==
    /\ \A r \in runs : r.source \in Sources
    /\ SucceededBacked
    /\ torn = {} /\ inject # Idle =>
          \A k \in DOMAIN inject.targets : TargetBacked(inject.targets[k], log, round)

\* The history of a revision holds the evidence.
Holds(rev, cites) == \A x \in cites : \E i \in DOMAIN rev : x \in rev[i].cites

\* The successor of a retirement holds what the retired page did, in a wiki.
Carried(wiki, req) == Holds(wiki[req.successor].rev, Last(req.rev).cites)
Intact(req, to) == req.page \notin to /\ req.successor \in Pages \ to

PagesEvidence(pg, to) ==
    \A p, q \in Pages \ to : pg[p].retired /\ pg[p].successor = q =>
        Holds(pg[q].rev, Last(pg[p].rev).cites)
LifeEvidence(W, lf, to) ==
    W.ok => \A i \in DOMAIN lf : Intact(lf[i], to) => Carried(W.wiki, lf[i])
RoundEvidence(pg, W, r, to) ==
    /\ r.pc = "insert" /\ r.retire # NoRow =>
          /\ r.retire.successor = r.row.page
          /\ Last(r.retire.rev).cites \subseteq Last(r.row.rev).cites
    /\ r.pc = "retire" /\ Intact(r.retire, to) =>
          Carried(pg, r.retire) /\ (W.ok => Carried(W.wiki, r.retire))
    /\ r.pc = "insertRetire" /\ Intact(r.row, to) /\ W.ok => Carried(W.wiki, r.row)
EvidenceInv ==
    /\ ~ rebuild => PagesEvidence(page, torn)
    /\ LifeEvidence(Rows, life, torn)
    /\ RoundEvidence(page, Rows, round, torn)

WikiInv == TypeOK /\ InjectType /\ RoundType /\ TableInv /\ MirrorInv /\ RebuildInv
          /\ RunsInv /\ EvidenceInv

-----------------------------------------------------------------------------
(* Mirror and rows, one leg of a write at a time                           *)

\* A writer that goes on, ends or fails: what it was to insert is torn.
LEMMA MirrorFrame ==
    ASSUME NEW pg, NEW W, NEW lf, NEW w, NEW o, NEW to, NEW rb, MirrorOf(pg, W, lf, w, o, to, rb),
           NEW w2, NEW to2, to \subseteq to2,
           \/ w2.pc = w.pc /\ w2.row = w.row
           \/ Unwritten(w2) = {} /\ Unwritten(w) \subseteq to2
    PROVE  MirrorOf(pg, W, lf, w2, o, to2, rb)
<1>1. \A p \in Pages \ to2 : p \in Unwritten(w) <=> p \in Unwritten(w2)
  BY DEF Unwritten
<1>2. Mirrored(pg, w2, to2) /\ Mirrored(pg, o, to2)
  BY DEF MirrorOf, Mirrored, Unwritten
<1>3. Unwritten(w2) \cap Unwritten(o) \subseteq to2
  BY DEF MirrorOf, Unwritten
<1>4. ASSUME ~ rb PROVE RowsFollow(pg, W, lf, Unwritten(w2) \cup Unwritten(o), to2)
  <2>1. RowsFollow(pg, W, lf, Unwritten(w) \cup Unwritten(o), to)
    BY <1>4 DEF MirrorOf
  <2> QED
    BY <1>1, <2>1, TornRows
<1> QED
  BY <1>2, <1>3, <1>4 DEF MirrorOf

\* The writers are equal.
LEMMA MirrorSwap ==
    ASSUME NEW pg, NEW W, NEW lf, NEW w, NEW o, NEW to, NEW rb, MirrorOf(pg, W, lf, w, o, to, rb)
    PROVE  MirrorOf(pg, W, lf, o, w, to, rb)
<1>1. Unwritten(w) \cup Unwritten(o) = Unwritten(o) \cup Unwritten(w)
  OBVIOUS
<1>2. Unwritten(w) \cap Unwritten(o) = Unwritten(o) \cap Unwritten(w)
  OBVIOUS
<1> QED
  BY <1>1, <1>2 DEF MirrorOf

\* The mirror's leg of a publication, by writer w.
LEMMA MirrorPublish ==
    ASSUME NEW names, NEW pg \in Wikis, NEW W \in Results, NEW lf \in Seq(RetRow),
           NEW w, NEW o, NEW to, NEW rb, MirrorOf(pg, W, lf, w, o, to, rb),
           Unwritten(w) = {}, Unwritten(o) \subseteq Pages, NEW pub \in PubRow, Publishable(names, pg, pub),
           NEW w2, w2.pc = "insert", w2.row = pub,
           NEW to2, to \subseteq to2, to2 \subseteq to \cup {pub.page},
           pub.page \in Unwritten(o) \/ rb => pub.page \in to2
    PROVE  MirrorOf(Published(pg, pub), W, lf, w2, o, to2, rb)
<1> DEFINE v == Published(pg, pub)
           p == pub.page
<1>1. /\ v[p].rev = pub.rev /\ ~ v[p].retired /\ v[p].successor = Nothing /\ p \in Pages
      /\ \A q \in Pages : q # p => v[q] = pg[q]
  BY PublishedPage DEF PubRow
<1>2. Unwritten(w2) = {p}
  BY DEF Unwritten
<1> HIDE DEF v
<1>3. Mirrored(v, w2, to2)
  BY <1>1, <1>2 DEF Mirrored
<1>4. ASSUME NEW q \in Unwritten(o) \ to2
      PROVE  q \in Unwritten(o) \ to /\ q # p /\ v[q] = pg[q]
  BY <1>1, <1>4
<1>5. Mirrored(v, o, to2)
  BY <1>4 DEF Mirrored, MirrorOf
<1>6. Unwritten(w2) \cap Unwritten(o) \subseteq to2
  BY <1>2
<1>7. ASSUME ~ rb PROVE RowsFollow(v, W, lf, Unwritten(w2) \cup Unwritten(o), to2)
  <2>1. RowsFollow(pg, W, lf, Unwritten(o), to)
    BY <1>7 DEF MirrorOf
  <2>2. CASE p \in Unwritten(o)
    <3>1. \A q \in Pages \ to2 : v[q] = pg[q]
                /\ (q \in Unwritten(o) <=> q \in Unwritten(w2) \cup Unwritten(o))
      BY <1>1, <1>2, <2>2
    <3> QED
      BY <2>1, <3>1, TornRows
  <2>3. CASE p \notin Unwritten(o)
    <3>1. RowsFollow(v, W, lf, Unwritten(o) \cup {p}, to)
      BY <2>1, <2>3, PublishRows DEF v
    <3>2. \A q \in Pages \ to2 : v[q] = v[q]
                /\ (q \in Unwritten(o) \cup {p} <=> q \in Unwritten(w2) \cup Unwritten(o))
      BY <1>2
    <3> QED
      BY <3>1, <3>2, TornRows
  <2> QED
    BY <2>2, <2>3
<1> QED
  BY <1>3, <1>5, <1>6, <1>7 DEF MirrorOf, v

\* The database's leg of a publication, by writer w.
LEMMA MirrorInsert ==
    ASSUME NEW names, NEW pg \in Wikis, UniqueSlugs(names, pg), NEW lg \in Seq(PubRow),
           NEW W, Tables(names, lg, W), NEW lf \in Seq(RetRow),
           NEW w, NEW o, NEW to, NEW rb, MirrorOf(pg, W, lf, w, o, to, rb),
           w.pc = "insert", w.row \in PubRow, NEW w2, Unwritten(w2) = {},
           NEW V, Stored(lg, w.row) => V = W, ~ Stored(lg, w.row) => V = ReplayStep(names, W, w.row)
    PROVE  MirrorOf(pg, V, lf, w2, o, to, rb)
<1> DEFINE pub == w.row
           p == pub.page
<1>1. Unwritten(w) = {p} /\ p \in Pages
  BY DEF Unwritten, PubRow
<1>2. p \notin to => /\ p \notin Unwritten(o) /\ pg[p].rev = pub.rev /\ ~ pg[p].retired
                     /\ pg[p].successor = Nothing
  BY <1>1 DEF MirrorOf, Mirrored
<1>3. Mirrored(pg, w2, to) /\ Mirrored(pg, o, to) /\ Unwritten(w2) \cap Unwritten(o) \subseteq to
  BY DEF MirrorOf, Mirrored
<1>4. ASSUME ~ rb PROVE RowsFollow(pg, V, lf, Unwritten(w2) \cup Unwritten(o), to)
  <2> DEFINE due == Unwritten(w) \cup Unwritten(o)
             due2 == Unwritten(w2) \cup Unwritten(o)
  <2>1. RowsFollow(pg, W, lf, due, to)
    BY <1>4 DEF MirrorOf
  <2>2. pub.page \notin to => /\ pub.page \in due /\ pg[pub.page].rev = pub.rev
                              /\ ~ pg[pub.page].retired /\ pg[pub.page].successor = Nothing
                              /\ pub.page \notin due2
    BY <1>1, <1>2
  <2>3. \A q \in Pages : q # pub.page => (q \in due <=> q \in due2)
    BY <1>1
  <2>4. pub \in PubRow
    OBVIOUS
  <2> HIDE DEF due, due2, pub
  <2>5. RowsFollow(pg, V, lf, due2, to)
    <3>1. Stored(lg, pub) => V = W
      BY DEF pub
    <3>2. ~ Stored(lg, pub) => V = ReplayStep(names, W, pub)
      BY DEF pub
    <3> QED
      BY <2>1, <2>2, <2>3, <2>4, <3>1, <3>2, InsertRows
  <2> QED
    BY <2>5 DEF due2
<1> QED
  BY <1>3, <1>4 DEF MirrorOf

\* The mirror's leg of a retirement, by writer w.
LEMMA MirrorRetire ==
    ASSUME NEW pg \in Wikis, NEW W \in Results, NEW lf \in Seq(RetRow),
           NEW w, NEW o, NEW to, NEW rb, MirrorOf(pg, W, lf, w, o, to, rb),
           Unwritten(w) = {}, Unwritten(o) \subseteq Pages,
           NEW req \in RetRow, Retirable(pg, req),
           NEW w2, w2.pc = "insertRetire", w2.row = req,
           NEW to2, to \subseteq to2, to2 \subseteq to \cup {req.page},
           req.page \in Unwritten(o) \/ rb => req.page \in to2
    PROVE  MirrorOf(Retired(pg, req), W, lf, w2, o, to2, rb)
<1> DEFINE v == Retired(pg, req)
           p == req.page
<1>1. /\ v[p].rev = req.rev /\ v[p].retired /\ v[p].successor = req.successor /\ p \in Pages
      /\ \A q \in Pages : q # p => v[q] = pg[q]
  BY RetiredPage DEF RetRow, Retirable
<1>2. Unwritten(w2) = {p}
  BY DEF Unwritten
<1> HIDE DEF v
<1>3. Mirrored(v, w2, to2)
  BY <1>1, <1>2 DEF Mirrored
<1>4. ASSUME NEW q \in Unwritten(o) \ to2
      PROVE  q \in Unwritten(o) \ to /\ q # p /\ v[q] = pg[q]
  BY <1>1, <1>4
<1>5. Mirrored(v, o, to2)
  BY <1>4 DEF Mirrored, MirrorOf
<1>6. Unwritten(w2) \cap Unwritten(o) \subseteq to2
  BY <1>2
<1>7. ASSUME ~ rb PROVE RowsFollow(v, W, lf, Unwritten(w2) \cup Unwritten(o), to2)
  <2>1. RowsFollow(pg, W, lf, Unwritten(o), to)
    BY <1>7 DEF MirrorOf
  <2>2. CASE p \in Unwritten(o)
    <3>1. \A q \in Pages \ to2 : v[q] = pg[q]
                /\ (q \in Unwritten(o) <=> q \in Unwritten(w2) \cup Unwritten(o))
      BY <1>1, <1>2, <2>2
    <3> QED
      BY <2>1, <3>1, TornRows
  <2>3. CASE p \notin Unwritten(o)
    <3>1. RowsFollow(v, W, lf, Unwritten(o) \cup {p}, to)
      BY <2>1, <2>3, RetireRows DEF v
    <3>2. \A q \in Pages \ to2 : v[q] = v[q]
                /\ (q \in Unwritten(o) \cup {p} <=> q \in Unwritten(w2) \cup Unwritten(o))
      BY <1>2
    <3> QED
      BY <3>1, <3>2, TornRows
  <2> QED
    BY <2>2, <2>3
<1> QED
  BY <1>3, <1>5, <1>6, <1>7 DEF MirrorOf, v

\* The database's leg of a retirement, by writer w.
LEMMA MirrorInsertRetired ==
    ASSUME NEW pg, NEW W, NEW lf \in Seq(RetRow), Unique(lf),
           NEW w, NEW o, NEW to, NEW rb, MirrorOf(pg, W, lf, w, o, to, rb),
           w.pc = "insertRetire", w.row \in RetRow, NEW w2, Unwritten(w2) = {}
    PROVE  MirrorOf(pg, W, Recorded(lf, w.row), w2, o, to, rb)
<1> DEFINE req == w.row
           p == req.page
<1>1. Unwritten(w) = {p} /\ p \in Pages
  BY DEF Unwritten, RetRow
<1>2. p \notin to => /\ p \notin Unwritten(o) /\ pg[p].rev = req.rev /\ pg[p].retired
                     /\ pg[p].successor = req.successor
  BY <1>1 DEF MirrorOf, Mirrored
<1>3. Mirrored(pg, w2, to) /\ Mirrored(pg, o, to) /\ Unwritten(w2) \cap Unwritten(o) \subseteq to
  BY DEF MirrorOf, Mirrored
<1>4. ASSUME ~ rb
      PROVE  RowsFollow(pg, W, Recorded(lf, req), Unwritten(w2) \cup Unwritten(o), to)
  <2> DEFINE due == Unwritten(w) \cup Unwritten(o)
             due2 == Unwritten(w2) \cup Unwritten(o)
  <2>1. RowsFollow(pg, W, lf, due, to)
    BY <1>4 DEF MirrorOf
  <2>2. req.page \notin to => /\ req.page \in due /\ pg[req.page].rev = req.rev
                              /\ pg[req.page].retired /\ pg[req.page].successor = req.successor
                              /\ req.page \notin due2
    BY <1>1, <1>2
  <2>3. \A q \in Pages : q # req.page => (q \in due <=> q \in due2)
    BY <1>1
  <2>4. req \in RetRow
    OBVIOUS
  <2> HIDE DEF due, due2, req
  <2>5. RowsFollow(pg, W, Recorded(lf, req), due2, to)
    BY <2>1, <2>2, <2>3, <2>4, InsertRetiredRows
  <2> QED
    BY <2>5 DEF due2
<1> QED
  BY <1>3, <1>4 DEF MirrorOf

-----------------------------------------------------------------------------
(* Rows and evidence, one leg of a write at a time                         *)

\* What is in the history of a revision stays there.
LEMMA HoldsGrows ==
    ASSUME NEW old, NEW new \in Seq(Drafts), Grows(old, new), NEW cites, Holds(old, cites)
    PROVE  Holds(new, cites)
<1>1. CASE new = old
  BY <1>1
<1>2. CASE new # << >> /\ Front(new) = old
  <2>1. \A i \in DOMAIN old : i \in DOMAIN new /\ new[i] = old[i]
    BY <1>2, FrontOf
  <2> QED
    BY <2>1 DEF Holds
<1> QED
  BY <1>1, <1>2 DEF Grows

\* The last draft of a revision is part of its history.
LEMMA HoldsLast ==
    ASSUME NEW rev \in Revs, NEW cites, cites \subseteq Last(rev).cites
    PROVE  Holds(rev, cites)
<1>1. rev \in Seq(Drafts) /\ rev # << >>
  BY DEF Revs
<1>2. Len(rev) \in DOMAIN rev
  BY <1>1, FrontOf
<1> QED
  BY <1>2 DEF Holds, Last

\* A publication lets its page grow, and keeps the others.
LEMMA PublishGrows ==
    ASSUME NEW names, NEW pg \in Wikis, NEW pub \in PubRow, Publishable(names, pg, pub)
    PROVE  \A q \in Pages : Grows(pg[q].rev, Published(pg, pub)[q].rev)
<1>1. /\ Published(pg, pub)[pub.page].rev = pub.rev
      /\ \A p \in Pages : p # pub.page => Published(pg, pub)[p] = pg[p]
  BY PublishedPage
<1>2. Grows(pg[pub.page].rev, pub.rev)
  BY AppliedPage DEF Publishable, Admissible, Grows, PubRow, Revs
<1> QED
  BY <1>1, <1>2 DEF Grows

\* The rows after an insert.
LEMMA RecordedRows ==
    ASSUME NEW names, NEW lg \in Seq(PubRow), NEW W, W = Replay(names, lg), Tables(names, lg, W),
           NEW pub \in PubRow, NEW V, V = Replay(names, Recorded(lg, pub))
    PROVE  /\ Stored(lg, pub) => V = W
           /\ ~ Stored(lg, pub) => V = ReplayStep(names, W, pub)
           /\ Recorded(lg, pub) \in Seq(PubRow) /\ Tables(names, Recorded(lg, pub), V)
           /\ V.ok => W.ok /\ \A q \in Pages : Grows(W.wiki[q].rev, V.wiki[q].rev)
<1>1. CASE Stored(lg, pub)
  <2>1. Recorded(lg, pub) = lg /\ V = W
    BY <1>1 DEF Recorded
  <2> QED
    BY <1>1, <2>1 DEF Grows
<1>2. CASE ~ Stored(lg, pub)
  <2>1. Recorded(lg, pub) = Append(lg, pub)
    BY <1>2 DEF Recorded
  <2>2. V = ReplayStep(names, W, pub)
    BY <2>1, ReplayRows
  <2>3. W \in Results
    BY DEF Tables
  <2>4. Tables(names, Append(lg, pub), ReplayStep(names, W, pub))
    BY TablesAppend
  <2>5. ReplayStep(names, W, pub).ok <=> W.ok /\ Publishable(names, W.wiki, pub)
    BY <2>3, StepResult
  <2>6. ReplayStep(names, W, pub).ok =>
            /\ ReplayStep(names, W, pub).wiki[pub.page].rev = pub.rev
            /\ Grows(W.wiki[pub.page].rev, pub.rev)
    BY <2>3, StepPublished
  <2>7. ASSUME V.ok, NEW q \in Pages PROVE Grows(W.wiki[q].rev, V.wiki[q].rev)
    <3>1. CASE q = pub.page
      BY <2>2, <2>6, <2>7, <3>1
    <3>2. CASE q # pub.page
      <4>1. V.wiki[q] = W.wiki[q]
        BY <2>2, <2>3, <3>2, StepOthers
      <4> QED
        BY <4>1 DEF Grows
    <3> QED
      BY <3>1, <3>2
  <2>8. Append(lg, pub) \in Seq(PubRow)
    OBVIOUS
  <2> QED
    BY <1>2, <2>1, <2>2, <2>4, <2>5, <2>7, <2>8
<1> QED
  BY <1>1, <1>2

\* A publication keeps the evidence of the merges before it.
LEMMA PublishEvidence ==
    ASSUME NEW names, NEW pg \in Wikis, NEW to, PagesEvidence(pg, to),
           NEW pub \in PubRow, Publishable(names, pg, pub), NEW to2, to \subseteq to2
    PROVE  PagesEvidence(Published(pg, pub), to2)
<1> DEFINE v == Published(pg, pub)
<1>1. /\ v \in Wikis /\ ~ v[pub.page].retired
      /\ \A p \in Pages : p # pub.page => v[p] = pg[p]
  BY PublishedPage
<1>2. \A q \in Pages : Grows(pg[q].rev, v[q].rev)
  BY PublishGrows
<1> HIDE DEF v
<1> SUFFICES ASSUME NEW p \in Pages \ to2, NEW q \in Pages \ to2,
                    v[p].retired, v[p].successor = q
             PROVE  Holds(v[q].rev, Last(v[p].rev).cites)
  BY DEF PagesEvidence, v
<1>3. v[p] = pg[p] /\ p \notin to /\ q \notin to
  BY <1>1
<1>4. Holds(pg[q].rev, Last(v[p].rev).cites)
  BY <1>3 DEF PagesEvidence
<1>5. v[q].rev \in Seq(Drafts) /\ Grows(pg[q].rev, v[q].rev)
  BY <1>1, <1>2 DEF Wikis
<1> QED
  BY <1>4, <1>5, HoldsGrows

\* A retirement keeps the evidence, if the successor holds that of its page.
LEMMA RetireEvidence ==
    ASSUME NEW pg \in Wikis, NEW to, PagesEvidence(pg, to),
           NEW req \in RetRow, Retirable(pg, req), NEW to2, to \subseteq to2,
           Intact(req, to2) => Carried(pg, req)
    PROVE  PagesEvidence(Retired(pg, req), to2)
<1> DEFINE v == Retired(pg, req)
<1>1. /\ \A p \in Pages : p # req.page => v[p] = pg[p]
      /\ v[req.page].successor = req.successor /\ req.page \in Pages
      /\ v[req.page].rev = req.rev /\ pg[req.page].rev = req.rev
  BY RetiredPage DEF Retirable, RetRow
<1> HIDE DEF v
<1>2. \A q \in Pages : v[q].rev = pg[q].rev
  BY <1>1
<1> SUFFICES ASSUME NEW p \in Pages \ to2, NEW q \in Pages \ to2,
                    v[p].retired, v[p].successor = q
             PROVE  Holds(v[q].rev, Last(v[p].rev).cites)
  BY DEF PagesEvidence, v
<1>3. CASE p = req.page
  BY <1>1, <1>2, <1>3 DEF Intact, Carried
<1>4. CASE p # req.page
  <2>1. v[p] = pg[p] /\ v[q].rev = pg[q].rev /\ p \notin to /\ q \notin to
    BY <1>1, <1>2, <1>4
  <2> QED
    BY <2>1 DEF PagesEvidence
<1> QED
  BY <1>3, <1>4

\* The evidence of the stored retirements stays while the rows grow.
LEMMA LifeFrame ==
    ASSUME NEW W, NEW lf, NEW to, LifeEvidence(W, lf, to), NEW to2, to \subseteq to2,
           NEW V \in Results,
           V.ok => W.ok /\ \A q \in Pages : Grows(W.wiki[q].rev, V.wiki[q].rev)
    PROVE  LifeEvidence(V, lf, to2)
<1> SUFFICES ASSUME V.ok, NEW i \in DOMAIN lf, Intact(lf[i], to2)
             PROVE  Carried(V.wiki, lf[i])
  BY DEF LifeEvidence
<1> DEFINE q == lf[i].successor
<1>1. Intact(lf[i], to) /\ q \in Pages
  BY DEF Intact
<1>2. Holds(W.wiki[q].rev, Last(lf[i].rev).cites)
  BY <1>1 DEF LifeEvidence, Carried
<1>3. V.wiki[q].rev \in Seq(Drafts) /\ Grows(W.wiki[q].rev, V.wiki[q].rev)
  BY <1>1 DEF Results, Wikis
<1> HIDE DEF q
<1>4. Holds(V.wiki[q].rev, Last(lf[i].rev).cites)
  BY <1>2, <1>3, HoldsGrows
<1> QED
  BY <1>4 DEF Carried, q

\* The evidence that a round has still to store stays while pages and rows grow.
LEMMA RoundFrame ==
    ASSUME NEW pg, NEW W, NEW r, NEW to, RoundEvidence(pg, W, r, to),
           NEW to2, to \subseteq to2, NEW v \in Wikis, NEW V \in Results,
           \A q \in Pages : Grows(pg[q].rev, v[q].rev),
           V.ok => W.ok /\ \A q \in Pages : Grows(W.wiki[q].rev, V.wiki[q].rev),
           NEW r2,
           \/ r2.pc = r.pc /\ r2.row = r.row /\ r2.retire = r.retire
           \/ r2.pc \in {"idle", "judge"}
    PROVE  RoundEvidence(v, V, r2, to2)
<1>1. CASE r2.pc \in {"idle", "judge"}
  BY <1>1 DEF RoundEvidence
<1>2. CASE r2.pc = r.pc /\ r2.row = r.row /\ r2.retire = r.retire
  <2>1. ASSUME NEW req, Intact(req, to2), Carried(pg, req) PROVE Carried(v, req)
    <3> DEFINE q == req.successor
    <3>1. v[q].rev \in Seq(Drafts) /\ Grows(pg[q].rev, v[q].rev)
      BY <2>1 DEF Wikis, Intact
    <3>2. Holds(pg[q].rev, Last(req.rev).cites)
      BY <2>1 DEF Carried
    <3> HIDE DEF q
    <3>3. Holds(v[q].rev, Last(req.rev).cites)
      BY <3>1, <3>2, HoldsGrows
    <3> QED
      BY <3>3 DEF Carried, q
  <2>2. ASSUME NEW req, Intact(req, to2), V.ok, Carried(W.wiki, req) PROVE Carried(V.wiki, req)
    <3> DEFINE q == req.successor
    <3>1. V.wiki[q].rev \in Seq(Drafts) /\ Grows(W.wiki[q].rev, V.wiki[q].rev)
      BY <2>2 DEF Results, Wikis, Intact
    <3>2. Holds(W.wiki[q].rev, Last(req.rev).cites)
      BY <2>2 DEF Carried
    <3> HIDE DEF q
    <3>3. Holds(V.wiki[q].rev, Last(req.rev).cites)
      BY <3>1, <3>2, HoldsGrows
    <3> QED
      BY <3>3 DEF Carried, q
  <2>3. \A req : Intact(req, to2) => Intact(req, to)
    BY DEF Intact
  <2>4. ASSUME r2.pc = "retire", Intact(r2.retire, to2)
        PROVE  Carried(v, r2.retire) /\ (V.ok => Carried(V.wiki, r2.retire))
    <3>1. Carried(pg, r2.retire) /\ (W.ok => Carried(W.wiki, r2.retire))
      BY <1>2, <2>3, <2>4 DEF RoundEvidence
    <3> QED
      BY <2>1, <2>2, <2>4, <3>1
  <2>5. ASSUME r2.pc = "insertRetire", Intact(r2.row, to2), V.ok PROVE Carried(V.wiki, r2.row)
    <3>1. Carried(W.wiki, r2.row)
      BY <1>2, <2>3, <2>5 DEF RoundEvidence
    <3> QED
      BY <2>2, <2>5, <3>1
  <2> QED
    BY <1>2, <2>4, <2>5 DEF RoundEvidence
<1> QED
  BY <1>1, <1>2

-----------------------------------------------------------------------------
(* Every step keeps the invariant: injections                              *)

\* The parts of the invariant that are types.
LEMMA TypeFacts ==
    ASSUME WikiInv
    PROVE  /\ page \in Wikis /\ torn \subseteq Pages /\ done \subseteq Sources
           /\ UniqueSlugs(slug, page) /\ \A p \in Pages : page[p].retired => Exists(page, p)
           /\ Rows \in Results /\ Rows.wiki \in Wikis
           /\ Unwritten(inject) \subseteq Pages /\ Unwritten(round) \subseteq Pages
<1>1. /\ page \in Wikis /\ torn \subseteq Pages /\ done \subseteq Sources
      /\ UniqueSlugs(slug, page) /\ \A p \in Pages : page[p].retired => Exists(page, p)
  BY DEF WikiInv, TypeOK, Wikis, UniqueSlugs
<1>2. Rows \in Results /\ Rows.wiki \in Wikis
  BY DEF WikiInv, TableInv, Tables, Results
<1>3. Unwritten(inject) \subseteq Pages
  <2>1. ASSUME inject.pc \in {"insert", "insertRetire"} PROVE inject.row.page \in Pages
    BY <2>1 DEF WikiInv, InjectType, InjectRecord, Idle, PubRow
  <2> QED
    BY <2>1 DEF Unwritten
<1>4. Unwritten(round) \subseteq Pages
  <2>1. ASSUME round.pc \in {"insert", "insertRetire"} PROVE round.row.page \in Pages
    BY <2>1 DEF WikiInv, RoundType, Idle, PubRow, RetRow
  <2> QED
    BY <2>1 DEF Unwritten
<1> QED
  BY <1>1, <1>2, <1>3, <1>4

\* The target at hand.
LEMMA TargetFacts ==
    ASSUME WikiInv, inject # Idle
    PROVE  /\ inject \in InjectRecord /\ inject.i \in DOMAIN inject.targets
           /\ inject.targets \in Seq(TargetType) /\ TargetOK(Target) /\ Target \in TargetType
           /\ Target.page \in Pages /\ Target.base \in Seq(Drafts) /\ inject.source \in Sources
<1>1. /\ inject \in InjectRecord /\ inject.i \in DOMAIN inject.targets
      /\ TargetOK(Target)
  BY DEF WikiInv, InjectType, Target
<1>2. inject.targets \in Seq(TargetType) /\ inject.source \in Sources
  BY <1>1 DEF InjectRecord
<1> QED
  BY <1>1, <1>2 DEF TargetOK, TargetType

\* The loop over the targets goes on.
LEMMA SettleShape ==
    ASSUME WikiInv, inject # Idle, NEW t, TargetOK(t),
           Settle(t, "prepare", "commit") \/ Settle(t, "commit", "save")
    PROVE  /\ inject' # Idle /\ InjectType' /\ Unwritten(inject') = {}
           /\ DOMAIN inject'.targets = DOMAIN inject.targets
           /\ \A k \in DOMAIN inject.targets :
                 /\ k = inject.i => inject'.targets[k] = t
                 /\ k # inject.i => inject'.targets[k] = inject.targets[k]
<1>0. PICK go \in {"prepare", "commit"}, after \in {"commit", "save"} : Settle(t, go, after)
  OBVIOUS
<1>1. /\ inject \in InjectRecord /\ inject.i \in DOMAIN inject.targets
      /\ inject.targets \in Seq(TargetType)
      /\ \A k \in DOMAIN inject.targets : TargetOK(inject.targets[k])
  BY TargetFacts DEF WikiInv, InjectType
<1> DEFINE ts == [inject.targets EXCEPT ![inject.i] = t]
<1>2. /\ ts \in Seq(TargetType) /\ DOMAIN ts = DOMAIN inject.targets
      /\ \A k \in DOMAIN inject.targets : ts[k] = IF k = inject.i THEN t ELSE inject.targets[k]
  BY <1>1 DEF TargetOK
<1>3. PICK i \in DOMAIN ts, pc \in {"prepare", "commit", "save"} :
          inject' = [inject EXCEPT !.targets = ts, !.i = i, !.pc = pc]
  <2>1. CASE inject.i < Len(inject.targets)
    <3>1. inject' = [inject EXCEPT !.targets = ts, !.i = inject.i + 1, !.pc = go]
      BY <1>0, <1>1, <2>1 DEF Settle, InjectRecord
    <3>2. inject.i + 1 \in DOMAIN ts
      BY <1>1, <1>2, <2>1
    <3> QED
      BY <3>1, <3>2
  <2>2. CASE ~ (inject.i < Len(inject.targets))
    <3>1. inject' = [inject EXCEPT !.targets = ts, !.i = 1, !.pc = after]
      BY <1>0, <1>1, <2>2 DEF Settle, InjectRecord
    <3>2. 1 \in DOMAIN ts
      BY <1>1, <1>2
    <3> QED
      BY <3>1, <3>2
  <2> QED
    BY <2>1, <2>2
<1> HIDE DEF ts
<1>4. i \in Nat
  BY <1>2
<1>5. inject' \in InjectRecord
  BY <1>1, <1>2, <1>3, <1>4 DEF InjectRecord
<1>6. inject'.targets = ts /\ inject'.i = i /\ inject'.pc = pc
  BY <1>1, <1>3 DEF InjectRecord
<1>7. inject' # Idle
  BY <1>6 DEF Idle
<1>8. \A k \in DOMAIN ts : TargetOK(ts[k])
  BY <1>1, <1>2
<1>9. InjectType'
  <2>1. inject'.pc # "insert"
    BY <1>6
  <2> QED
    BY <1>3, <1>5, <1>6, <1>8, <2>1 DEF InjectType
<1>10. Unwritten(inject') = {}
  BY <1>6 DEF Unwritten
<1> QED
  BY <1>2, <1>6, <1>7, <1>9, <1>10

\* The rows are what they were.
LEMMA TableFrame ==
    ASSUME TableInv, slug' = slug, log' = log, life' = life
    PROVE  TableInv' /\ Rows' = Rows
<1>1. Rows' = Rows
  BY DEF Rows
<1> QED
  BY <1>1 DEF TableInv

\* The mirror's pages are what they were.
LEMMA TypeFrame ==
    ASSUME TypeOK, page' = page, broken' = broken, rebuild' = rebuild, slug' = slug,
           torn' \subseteq Pages, done' \subseteq Sources
    PROVE  TypeOK'
  BY DEF TypeOK, Exists

\* Rows and pages are what they were: the evidence is still there.
LEMMA EvidenceFrame ==
    ASSUME WikiInv, page' = page, rebuild' = rebuild, life' = life, Rows' = Rows,
           torn \subseteq torn',
           \/ round'.pc = round.pc /\ round'.row = round.row /\ round'.retire = round.retire
           \/ round'.pc \in {"idle", "judge"}
    PROVE  EvidenceInv'
<1>1. page \in Wikis /\ Rows \in Results
  BY TypeFacts
<1>2. \A q \in Pages : Grows(page[q].rev, page[q].rev) /\ Grows(Rows.wiki[q].rev, Rows.wiki[q].rev)
  BY DEF Grows
<1>3. LifeEvidence(Rows, life, torn')
  BY <1>1, <1>2, LifeFrame DEF WikiInv, EvidenceInv
<1>4. RoundEvidence(page, Rows, round', torn')
  <2>1. RoundEvidence(page, Rows, round, torn)
    BY DEF WikiInv, EvidenceInv
  <2> QED
    BY <1>1, <1>2, <2>1, RoundFrame
<1>5. ~ rebuild => PagesEvidence(page, torn')
  BY DEF WikiInv, EvidenceInv, PagesEvidence
<1> QED
  BY <1>3, <1>4, <1>5 DEF EvidenceInv

\* A step of an injection that writes neither to the mirror nor to the pages' rows.
LEMMA InjectQuiet ==
    ASSUME WikiInv, InjectType', RunsInv', page' = page, broken' = broken, log' = log, life' = life,
           round' = round, rebuild' = rebuild, slug' = slug,
           torn \subseteq torn', torn' \subseteq Pages, done' \subseteq Sources,
           Unwritten(inject') = {}, Unwritten(inject) \subseteq torn', rebuild => inject' = Idle
    PROVE  WikiInv'
<1>1. TableInv' /\ Rows' = Rows
  BY TableFrame DEF WikiInv
<1>2. TypeOK'
  BY TypeFrame DEF WikiInv
<1>3. RoundType'
  BY DEF WikiInv, RoundType
<1>4. MirrorInv'
  <2>1. MirrorOf(page, Rows, life, inject, round, torn, rebuild)
    BY DEF WikiInv, MirrorInv
  <2>2. MirrorOf(page, Rows, life, inject', round, torn', rebuild)
    BY <2>1, MirrorFrame
  <2> QED
    BY <1>1, <2>2 DEF MirrorInv
<1>5. RebuildInv'
  BY DEF WikiInv, RebuildInv, InsertsDue
<1>6. EvidenceInv'
  BY <1>1, EvidenceFrame
<1> QED
  BY <1>1, <1>2, <1>3, <1>4, <1>5, <1>6 DEF WikiInv

\* While an injection is under way there is no rebuild.
LEMMA NoRebuild ==
    ASSUME WikiInv, inject # Idle
    PROVE  ~ rebuild
  BY DEF WikiInv, RebuildInv

\* A planned target has nothing stored yet.
LEMMA BeginInjectKeeps ==
    ASSUME WikiInv, slug' = slug, NEW s \in Sources, BeginInject(s)
    PROVE  WikiInv'
<1>1. /\ inject = Idle /\ ~ rebuild /\ page' = page /\ broken' = broken /\ log' = log
      /\ life' = life /\ runs' = runs /\ round' = round /\ rebuild' = rebuild /\ torn' = torn
      /\ done' = done
  BY DEF BeginInject, dbVars
<1>2. PICK plan \in Plans(s) :
          inject' = [pc |-> "prepare", source |-> s, targets |-> plan, i |-> 1, row |-> NoRow]
  BY DEF BeginInject
<1>3. ASSUME NEW create \in BOOLEAN, NEW p \in Pages
      PROVE  NewTarget(create, p) \in TargetType /\ NewTarget(create, p).status = "planned"
  <2>1. page[p].rev \in Seq(Drafts)
    BY TypeFacts DEF Wikis
  <2> QED
    BY <2>1 DEF NewTarget, TargetType
<1>4. /\ plan \in Seq(TargetType) /\ 1 \in DOMAIN plan
      /\ \A k \in DOMAIN plan : plan[k] \in TargetType /\ plan[k].status = "planned"
  <2>1. PICK u \in {NewTarget(FALSE, p) : p \in Catalog} \cup {NewTarget(TRUE, s)} :
            \/ plan = <<NewTarget(TRUE, s)>> \/ plan = <<u>> \/ plan = <<NewTarget(TRUE, s), u>>
    BY DEF Plans
  <2>2. NewTarget(TRUE, s) \in TargetType /\ NewTarget(TRUE, s).status = "planned"
    BY <1>3 DEF Pages
  <2>3. u \in TargetType /\ u.status = "planned"
    BY <1>3, <2>1, <2>2 DEF Catalog
  <2>4. PICK c : c = NewTarget(TRUE, s)
    OBVIOUS
  <2>5. plan = <<c>> \/ plan = <<u>> \/ plan = <<c, u>>
    BY <2>1, <2>4
  <2>6. c \in TargetType /\ c.status = "planned"
    BY <2>2, <2>4
  <2>7. CASE plan = <<c>>
    BY <2>6, <2>7
  <2>8. CASE plan = <<u>>
    BY <2>3, <2>8
  <2>9. CASE plan = <<c, u>>
    BY <2>3, <2>6, <2>9
  <2> QED
    BY <2>5, <2>7, <2>8, <2>9
<1>5. /\ inject'.pc = "prepare" /\ inject'.targets = plan /\ inject'.i = 1
      /\ inject' \in InjectRecord /\ inject' # Idle
  BY <1>2, <1>4 DEF InjectRecord, Idle
<1>6. InjectType'
  <2>1. \A k \in DOMAIN plan : TargetOK(plan[k])
    BY <1>4 DEF TargetOK
  <2> QED
    BY <1>4, <1>5, <2>1 DEF InjectType
<1>7. RunsInv'
  <2>1. \A k \in DOMAIN plan : TargetBacked(plan[k], log, round)
    BY <1>4 DEF TargetBacked
  <2> QED
    BY <1>1, <1>5, <2>1 DEF WikiInv, RunsInv, SucceededBacked
<1>8. Unwritten(inject') = {} /\ Unwritten(inject) = {}
  BY <1>1, <1>5 DEF Unwritten, Idle
<1> QED
  BY <1>1, <1>6, <1>7, <1>8, TypeFacts, InjectQuiet

\* A page of the mirror is stored, unless a curation round is about to store it.
LEMMA MirrorStored ==
    ASSUME WikiInv, ~ rebuild, torn = {}, NEW p \in Pages, page[p].rev # << >>,
           p \notin Unwritten(inject)
    PROVE  \/ Stored(log, At(p, page[p].rev))
           \/ round.pc = "insert" /\ round.row.page = p /\ round.row.rev = page[p].rev
<1> DEFINE due == Unwritten(inject) \cup Unwritten(round)
<1>1. /\ RowsFollow(page, Rows, life, due, torn) /\ Mirrored(page, round, torn)
      /\ Tables(slug, log, Rows)
  BY DEF WikiInv, MirrorInv, MirrorOf, TableInv
<1>2. /\ p \notin due => page[p].rev = Rows.wiki[p].rev
      /\ p \in due /\ page[p].retired => page[p].rev = Rows.wiki[p].rev
  BY <1>1 DEF RowsFollow, Follows
<1>3. page[p].rev = Rows.wiki[p].rev => Stored(log, At(p, page[p].rev))
  BY <1>1 DEF Tables, Exists
<1>4. ASSUME p \in due, ~ page[p].retired
      PROVE  round.pc = "insert" /\ round.row.page = p /\ round.row.rev = page[p].rev
  <2>1. p \in Unwritten(round) \ torn
    BY <1>4
  <2>2. round.pc \in {"insert", "insertRetire"} /\ round.row.page = p
    BY <2>1 DEF Unwritten
  <2> QED
    BY <1>1, <1>4, <2>1, <2>2 DEF Mirrored
<1> QED
  BY <1>2, <1>3, <1>4

\* The runs, when the target at hand is settled.
LEMMA RunsSettle ==
    ASSUME WikiInv, inject # Idle, NEW t, TargetOK(t),
           Settle(t, "prepare", "commit") \/ Settle(t, "commit", "save"),
           runs' = runs, round' = round, torn \subseteq torn',
           \A x : Stored(log, x) => Stored(log', x),
           torn' = {} => TargetBacked(t, log', round)
    PROVE  RunsInv'
<1>1. /\ inject' # Idle /\ DOMAIN inject'.targets = DOMAIN inject.targets
      /\ \A k \in DOMAIN inject.targets :
            /\ k = inject.i => inject'.targets[k] = t
            /\ k # inject.i => inject'.targets[k] = inject.targets[k]
  BY SettleShape
<1>2. torn' = {} => torn = {}
  OBVIOUS
<1>3. \A r \in runs : r.source \in Sources
  BY DEF WikiInv, RunsInv
<1>4. SucceededBacked'
  BY <1>2 DEF WikiInv, RunsInv, SucceededBacked
<1>5. ASSUME torn' = {}, NEW k \in DOMAIN inject.targets
      PROVE  TargetBacked(inject'.targets[k], log', round)
  <2>1. TargetBacked(inject.targets[k], log, round)
    BY <1>2, <1>5 DEF WikiInv, RunsInv
  <2>2. TargetBacked(inject.targets[k], log', round)
    BY <2>1 DEF TargetBacked
  <2> QED
    BY <1>1, <1>5, <2>2
<1> QED
  BY <1>1, <1>3, <1>4, <1>5 DEF RunsInv

\* The page that a create lands on.
LEMMA ResolvedTarget ==
    ASSUME WikiInv, NEW t \in TargetType
    PROVE  Resolved(t) \in TargetType
<1> DEFINE some == {q \in Pages : page[q].retired /\ slug[q] = slug[t.page]}
<1>1. \A q \in Pages : page[q].rev \in Seq(Drafts)
  BY TypeFacts DEF Wikis
<1>2. t.page \in Pages
  BY DEF TargetType
<1>3. CASE some = {}
  <2>1. Resolved(t) = [t EXCEPT !.base = page[t.page].rev]
    BY <1>3 DEF Resolved
  <2> QED
    BY <1>1, <1>2, <2>1 DEF TargetType
<1>4. CASE some # {}
  <2> DEFINE q == CHOOSE q \in some : TRUE
  <2>1. q \in Pages
    BY <1>4
  <2>2. Resolved(t) = [t EXCEPT !.page = q, !.base = page[q].rev, !.revive = TRUE]
    BY <1>4 DEF Resolved
  <2> HIDE DEF q
  <2>3. \A yes \in BOOLEAN : [t EXCEPT !.page = q, !.base = page[q].rev, !.revive = yes] \in TargetType
    BY <1>1, <2>1 DEF TargetType
  <2> QED
    BY <2>2, <2>3, Zenon
<1> QED
  BY <1>3, <1>4

\* A ready target builds on a revision that is stored or about to be.
LEMMA PrepareTargetKeeps ==
    ASSUME WikiInv, slug' = slug, PrepareTarget
    PROVE  WikiInv'
<1>1. /\ inject.pc = "prepare" /\ page' = page /\ broken' = broken /\ log' = log
      /\ life' = life /\ runs' = runs /\ round' = round /\ rebuild' = rebuild /\ torn' = torn
      /\ done' = done
  BY DEF PrepareTarget, dbVars
<1>2. inject # Idle /\ Unwritten(inject) = {}
  BY <1>1 DEF Idle, Unwritten
<1>3. /\ Target \in TargetType /\ inject.source \in Sources
  BY <1>2, TargetFacts
<1>4. PICK t : /\ TargetOK(t) /\ Settle(t, "prepare", "commit")
               /\ \/ t.status = "failed"
                  \/ t.status = "ready" /\ t.page \in Pages /\ page[t.page].rev = t.base
  <2>1. CASE Settle([Target EXCEPT !.status = "failed"], "prepare", "commit")
    <3>1. PICK t : t = [Target EXCEPT !.status = "failed"]
      OBVIOUS
    <3>2. t \in TargetType /\ t.status = "failed"
      BY <1>3, <3>1 DEF TargetType
    <3>3. TargetOK(t) /\ Settle(t, "prepare", "commit")
      BY <2>1, <3>1, <3>2 DEF TargetOK
    <3> QED
      BY <3>2, <3>3
  <2>2. CASE ~ Settle([Target EXCEPT !.status = "failed"], "prepare", "commit")
    <3> DEFINE u == IF Target.create THEN Resolved(Target) ELSE Target
    <3>1. PICK v \in Variants :
              /\ page[u.page].rev = u.base
              /\ Settle([u EXCEPT !.draft = [cites |-> {inject.source}, variant |-> v],
                                  !.status = "ready"], "prepare", "commit")
      BY <2>2 DEF PrepareTarget
    <3>2. u \in TargetType
      BY <1>3, ResolvedTarget
    <3> HIDE DEF u
    <3>3. PICK d : d = [cites |-> {inject.source}, variant |-> v]
      OBVIOUS
    <3>4. d \in Drafts
      BY <1>3, <3>3 DEF Drafts
    <3>5. PICK t : t = [u EXCEPT !.draft = d, !.status = "ready"]
      OBVIOUS
    <3>6. /\ t \in TargetType /\ t.status = "ready" /\ t.draft = d /\ t.page = u.page
          /\ t.base = u.base /\ t.page \in Pages
      BY <3>2, <3>4, <3>5 DEF TargetType
    <3>7. Settle(t, "prepare", "commit")
      BY <3>1, <3>3, <3>5
    <3> QED
      BY <3>1, <3>4, <3>6, <3>7 DEF TargetOK
  <2> QED
    BY <2>1, <2>2
<1>5. InjectType' /\ Unwritten(inject') = {}
  BY <1>2, <1>4, SettleShape
<1>6. torn' = {} => TargetBacked(t, log', round)
  <2> SUFFICES ASSUME torn = {}, t.status = "ready", t.base # << >>
               PROVE  TargetBacked(t, log, round)
    BY <1>1, <1>4 DEF TargetBacked
  <2>1. t.page \in Pages /\ page[t.page].rev = t.base
    BY <1>4
  <2>2. \/ Stored(log, At(t.page, t.base))
        \/ round.pc = "insert" /\ round.row.page = t.page /\ round.row.rev = t.base
    BY <1>2, <2>1, NoRebuild, MirrorStored
  <2> QED
    BY <2>2 DEF TargetBacked
<1>7. RunsInv'
  BY <1>1, <1>2, <1>4, <1>6, RunsSettle
<1> QED
  BY <1>1, <1>2, <1>5, <1>7, NoRebuild, TypeFacts, InjectQuiet

\* A target that changes nothing succeeds on a page that is stored, or torn.
LEMMA PassTargetKeeps ==
    ASSUME WikiInv, slug' = slug, PassTarget
    PROVE  WikiInv'
<1> DEFINE same == Target.status = "ready" /\ Equivalent(Target)
<1>1. /\ inject.pc = "commit" /\ page' = page /\ broken' = broken /\ log' = log
      /\ life' = life /\ runs' = runs /\ round' = round /\ rebuild' = rebuild /\ done' = done
      /\ Settle([Target EXCEPT !.status = IF same THEN "succeeded" ELSE "failed"], "commit", "save")
      /\ IF same THEN Tear(Target.page) ELSE torn' = torn
  BY DEF PassTarget, dbVars
<1>2. inject # Idle /\ Unwritten(inject) = {}
  BY <1>1 DEF Idle, Unwritten
<1>3. Target \in TargetType /\ Target.page \in Pages
  BY <1>2, TargetFacts
<1>4. torn \subseteq torn' /\ torn' \subseteq Pages
  BY <1>1, <1>3, TypeFacts DEF Tear
<1>5. same => /\ Target.base # << >>
              /\ torn' = {} => Target.page \notin Unwritten(round)
  BY <1>1 DEF Equivalent, Tear, InsertsDue
<1>6. PICK t : t = [Target EXCEPT !.status = IF same THEN "succeeded" ELSE "failed"]
  OBVIOUS
<1> HIDE DEF same
<1>7. /\ t \in TargetType /\ t.page = Target.page /\ t.base = Target.base
      /\ t.status # "ready" /\ (t.status = "succeeded" => same)
  BY <1>3, <1>6 DEF TargetType
<1>8. TargetOK(t) /\ Settle(t, "commit", "save")
  BY <1>1, <1>6, <1>7 DEF TargetOK
<1>9. InjectType' /\ Unwritten(inject') = {}
  BY <1>2, <1>8, SettleShape
<1>10. torn' = {} => TargetBacked(t, log', round)
  <2> SUFFICES ASSUME torn' = {}, same PROVE Stored(log, At(Target.page, Target.base))
    BY <1>1, <1>7 DEF TargetBacked
  <2>1. torn = {} /\ inject.i \in DOMAIN inject.targets
    BY <1>2, <1>4, TargetFacts
  <2>2. TargetBacked(Target, log, round)
    BY <1>2, <2>1 DEF WikiInv, RunsInv, Target
  <2>3. ~ (round.pc = "insert" /\ round.row.page = Target.page)
    BY <1>5 DEF Unwritten
  <2> QED
    BY <1>5, <2>2, <2>3 DEF TargetBacked, same
<1>11. RunsInv'
  BY <1>1, <1>2, <1>4, <1>8, <1>10, RunsSettle
<1> QED
  BY <1>1, <1>2, <1>4, <1>9, <1>11, NoRebuild, TypeFacts, InjectQuiet

\* A run is saved with the revisions of its targets, which are stored.
LEMMA SaveRunKeeps ==
    ASSUME WikiInv, slug' = slug, SaveRun
    PROVE  WikiInv'
<1>1. /\ inject.pc = "save" /\ page' = page /\ broken' = broken /\ log' = log
      /\ life' = life /\ round' = round /\ rebuild' = rebuild /\ torn' = torn /\ inject' = Idle
  BY DEF SaveRun
<1>2. inject # Idle /\ Unwritten(inject) = {} /\ Unwritten(inject') = {}
  BY <1>1 DEF Idle, Unwritten
<1>3. inject.source \in Sources
  BY <1>2, TargetFacts
<1> DEFINE run == [source |-> inject.source,
                   revs |-> {[page |-> t.page, rev |-> t.base] : t \in Targets}]
<1>4. /\ done' \in {done, done \cup {inject.source}}
      /\ \A r \in runs' : r \in runs \/ (r = run /\ Succeeded)
  BY DEF SaveRun, RunRecorded
<1>5. done' \subseteq Sources
  BY <1>3, <1>4, TypeFacts
<1>6. ASSUME torn = {}, Succeeded, NEW x \in run.revs PROVE Stored(log, x)
  <2>1. PICK k \in DOMAIN inject.targets :
            x = [page |-> inject.targets[k].page, rev |-> inject.targets[k].base]
    BY <1>6 DEF Targets
  <2>2. inject.targets[k].status = "succeeded"
    BY <1>6 DEF Succeeded, Targets
  <2>3. TargetBacked(inject.targets[k], log, round)
    BY <1>2, <1>6 DEF WikiInv, RunsInv
  <2> QED
    BY <2>1, <2>2, <2>3 DEF TargetBacked, At
<1>7. run.source = inject.source
  OBVIOUS
<1> HIDE DEF run
<1>8. RunsInv'
  <2>1. \A r \in runs' : r.source \in Sources
    BY <1>3, <1>4, <1>7 DEF WikiInv, RunsInv
  <2>2. SucceededBacked'
    BY <1>1, <1>4, <1>6 DEF WikiInv, RunsInv, SucceededBacked
  <2> QED
    BY <1>1, <2>1, <2>2 DEF RunsInv
<1>9. InjectType'
  BY <1>1 DEF InjectType
<1> QED
  BY <1>1, <1>2, <1>5, <1>8, <1>9, TypeFacts, InjectQuiet

\* A publication keeps the type of the mirror's pages.
LEMMA PublishType ==
    ASSUME WikiInv, NEW pub \in PubRow, Publishable(slug, page, pub), page' = Published(page, pub),
           broken' = broken, rebuild' = rebuild, slug' = slug, done' = done, torn' \subseteq Pages
    PROVE  TypeOK'
<1>1. /\ page \in Wikis /\ UniqueSlugs(slug, page) /\ done \subseteq Sources
      /\ \A p \in Pages : page[p].retired => Exists(page, p)
  BY TypeFacts
<1>2. /\ page' \in Wikis /\ ~ page'[pub.page].retired
      /\ \A p \in Pages : p # pub.page => page'[p] = page[p]
  BY <1>1, PublishedPage
<1>3. UniqueSlugs(slug, page')
  BY <1>1, PublishedSlugs
<1>4. \A p \in Pages : page'[p].retired => Exists(page', p)
  BY <1>1, <1>2 DEF Exists
<1>5. {broken, rebuild} \subseteq BOOLEAN
  BY DEF WikiInv, TypeOK
<1> QED
  BY <1>1, <1>2, <1>3, <1>4, <1>5 DEF TypeOK, Wikis, UniqueSlugs

\* A publication keeps the evidence of pages and rows.
LEMMA PublishedEvidence ==
    ASSUME WikiInv, NEW pub \in PubRow, Publishable(slug, page, pub), page' = Published(page, pub),
           torn \subseteq torn'
    PROVE  /\ ~ rebuild => PagesEvidence(page', torn')
           /\ LifeEvidence(Rows, life, torn')
           /\ \A r : RoundEvidence(page, Rows, r, torn) => RoundEvidence(page', Rows, r, torn')
<1>1. page \in Wikis /\ Rows \in Results
  BY TypeFacts
<1>2. page' \in Wikis /\ \A q \in Pages : Grows(page[q].rev, page'[q].rev)
  BY <1>1, PublishedPage, PublishGrows
<1>3. \A q \in Pages : Grows(Rows.wiki[q].rev, Rows.wiki[q].rev)
  BY DEF Grows
<1>4. LifeEvidence(Rows, life, torn')
  BY <1>1, <1>3, LifeFrame DEF WikiInv, EvidenceInv
<1>5. ASSUME NEW r, RoundEvidence(page, Rows, r, torn) PROVE RoundEvidence(page', Rows, r, torn')
  BY <1>1, <1>2, <1>3, <1>5, RoundFrame
<1>6. ~ rebuild => PagesEvidence(page', torn')
  BY <1>1, PublishEvidence DEF WikiInv, EvidenceInv
<1> QED
  BY <1>4, <1>5, <1>6

\* The mirror has what the injection is to insert.
LEMMA CommitTargetKeeps ==
    ASSUME WikiInv, slug' = slug, CommitTarget
    PROVE  WikiInv'
<1> DEFINE pub == Row(Target)
<1>1. /\ inject.pc = "commit" /\ Target.status = "ready" /\ Publishable(slug, page, pub)
      /\ page' = Published(page, pub) /\ broken' = broken /\ log' = log
      /\ life' = life /\ runs' = runs /\ round' = round /\ rebuild' = rebuild /\ done' = done
      /\ Tear(Target.page) /\ inject' = [inject EXCEPT !.pc = "insert", !.row = pub]
  BY DEF CommitTarget, dbVars
<1>2. inject # Idle /\ Unwritten(inject) = {}
  BY <1>1 DEF Idle, Unwritten
<1>3. /\ Target \in TargetType /\ Target.page \in Pages /\ TargetOK(Target)
      /\ inject \in InjectRecord
  BY <1>2, TargetFacts
<1>4. pub \in PubRow /\ pub.page = Target.page
  <2>1. Append(Target.base, Target.draft) \in Revs
    <3>1. Target.base \in Seq(Drafts) /\ Target.draft \in Drafts
      BY <1>1, <1>3 DEF TargetOK, TargetType
    <3> QED
      BY <3>1, FrontAppend DEF Revs
  <2> QED
    BY <1>3, <2>1 DEF Row, PubRow, TargetType
<1> HIDE DEF pub
<1>5. ~ rebuild
  BY <1>2, NoRebuild
<1>6. /\ torn \subseteq torn' /\ torn' \subseteq torn \cup {pub.page} /\ torn' \subseteq Pages
      /\ pub.page \in Unwritten(round) => pub.page \in torn'
  BY <1>1, <1>3, <1>4, TypeFacts DEF Tear, InsertsDue
<1>7. /\ inject' \in InjectRecord /\ inject'.pc = "insert" /\ inject'.row = pub
      /\ inject'.targets = inject.targets /\ inject'.i = inject.i
  BY <1>1, <1>3, <1>4 DEF InjectRecord
<1>8. InjectType' /\ inject' # Idle
  <2>1. inject' # Idle
    BY <1>7 DEF Idle
  <2> QED
    BY <1>2, <1>4, <1>7, <2>1 DEF WikiInv, InjectType, Target
<1>9. TableInv' /\ Rows' = Rows
  BY <1>1, TableFrame DEF WikiInv
<1>10. TypeOK'
  BY <1>1, <1>4, <1>6, PublishType
<1>11. RoundType'
  BY <1>1 DEF WikiInv, RoundType
<1>12. MirrorInv'
  <2>1. MirrorOf(page, Rows, life, inject, round, torn, rebuild) /\ life \in Seq(RetRow)
    BY DEF WikiInv, MirrorInv, TableInv
  <2>2. page \in Wikis /\ Rows \in Results /\ Unwritten(round) \subseteq Pages
    BY TypeFacts
  <2>3. MirrorOf(Published(page, pub), Rows, life, inject', round, torn', rebuild)
    BY <1>1, <1>2, <1>4, <1>5, <1>6, <1>7, <2>1, <2>2, MirrorPublish
  <2> QED
    BY <1>1, <1>9, <2>3 DEF MirrorInv
<1>13. RebuildInv'
  BY <1>1, <1>5 DEF RebuildInv
<1>14. RunsInv'
  <2>1. torn' = {} => torn = {}
    BY <1>6
  <2> QED
    BY <1>1, <1>2, <1>7, <2>1 DEF WikiInv, RunsInv, SucceededBacked
<1>15. EvidenceInv'
  <2>1. RoundEvidence(page, Rows, round, torn)
    BY DEF WikiInv, EvidenceInv
  <2>2. /\ ~ rebuild => PagesEvidence(page', torn')
        /\ LifeEvidence(Rows, life, torn') /\ RoundEvidence(page', Rows, round, torn')
    BY <1>1, <1>4, <1>6, <2>1, PublishedEvidence
  <2> QED
    BY <1>1, <1>9, <2>2 DEF EvidenceInv
<1> QED
  BY <1>8, <1>9, <1>10, <1>11, <1>12, <1>13, <1>14, <1>15 DEF WikiInv

\* The rows after the insert of a publication.
LEMMA LogGrows ==
    ASSUME WikiInv, slug' = slug, life' = life, NEW pub \in PubRow, log' = Recorded(log, pub)
    PROVE  /\ TableInv' /\ Rows' \in Results
           /\ Stored(log, pub) => Rows' = Rows
           /\ ~ Stored(log, pub) => Rows' = ReplayStep(slug, Rows, pub)
           /\ Rows'.ok => Rows.ok /\ \A q \in Pages : Grows(Rows.wiki[q].rev, Rows'.wiki[q].rev)
           /\ Stored(log', At(pub.page, pub.rev))
           /\ \A x : Stored(log, x) => Stored(log', x)
<1>1. /\ log \in Seq(PubRow) /\ Tables(slug, log, Rows)
      /\ slug \in [Sources -> Slugs] /\ life \in Seq(RetRow) /\ Unique(life)
  BY DEF WikiInv, TableInv
<1>2. Rows = Replay(slug, log) /\ Rows' = Replay(slug, Recorded(log, pub))
  BY DEF Rows
<1>3. /\ Stored(log, pub) => Rows' = Rows
      /\ ~ Stored(log, pub) => Rows' = ReplayStep(slug, Rows, pub)
      /\ log' \in Seq(PubRow) /\ Tables(slug, log', Rows')
      /\ Rows'.ok => Rows.ok /\ \A q \in Pages : Grows(Rows.wiki[q].rev, Rows'.wiki[q].rev)
  BY <1>1, <1>2, RecordedRows
<1>4. TableInv' /\ Rows' \in Results
  BY <1>1, <1>3 DEF TableInv, Tables
<1>5. Stored(log', pub) /\ \A x : Stored(log, x) => Stored(log', x)
  BY <1>1, StoredAppend DEF Recorded
<1>6. Stored(log', At(pub.page, pub.rev))
  BY <1>5 DEF Stored, At
<1> QED
  BY <1>3, <1>4, <1>5, <1>6

\* The rows catch up with the injection, whether it learns of it or not.
LEMMA InjectInserted ==
    ASSUME WikiInv, slug' = slug, inject.pc = "insert", log' = Recorded(log, inject.row),
           page' = page, broken' = broken, life' = life, runs' = runs, round' = round,
           rebuild' = rebuild, done' = done, torn \subseteq torn', torn' \subseteq Pages,
           NEW t, TargetOK(t), Settle(t, "commit", "save"),
           \/ t.status = "failed"
           \/ t.status = "succeeded" /\ t.page = inject.row.page /\ t.base = inject.row.rev
    PROVE  WikiInv'
<1>1. inject # Idle
  BY DEF Idle
<1>2. /\ Target \in TargetType /\ inject.row \in PubRow /\ inject.row.page = Target.page
  BY <1>1, TargetFacts DEF WikiInv, InjectType
<1>3. InjectType' /\ Unwritten(inject') = {}
  BY <1>1, SettleShape
<1>4. /\ TableInv' /\ Rows' \in Results
      /\ Stored(log, inject.row) => Rows' = Rows
      /\ ~ Stored(log, inject.row) => Rows' = ReplayStep(slug, Rows, inject.row)
      /\ Rows'.ok => Rows.ok /\ \A q \in Pages : Grows(Rows.wiki[q].rev, Rows'.wiki[q].rev)
      /\ Stored(log', At(inject.row.page, inject.row.rev))
      /\ \A x : Stored(log, x) => Stored(log', x)
  BY <1>2, LogGrows
<1>5. RunsInv'
  <2>1. TargetBacked(t, log', round)
    BY <1>4 DEF TargetBacked
  <2> QED
    BY <1>1, <1>4, <2>1, RunsSettle
<1>6. TypeOK'
  BY TypeFacts, TypeFrame DEF WikiInv
<1>7. RoundType'
  BY DEF WikiInv, RoundType
<1>8. MirrorInv'
  <2>1. MirrorOf(page, Rows, life, inject, round, torn, rebuild) /\ life \in Seq(RetRow)
        /\ log \in Seq(PubRow) /\ Tables(slug, log, Rows)
    BY DEF WikiInv, MirrorInv, TableInv
  <2>2. page \in Wikis /\ UniqueSlugs(slug, page)
    BY TypeFacts
  <2>3. MirrorOf(page, Rows', life, inject', round, torn, rebuild)
    BY <1>2, <1>3, <1>4, <2>1, <2>2, MirrorInsert
  <2>4. MirrorOf(page, Rows', life, inject', round, torn', rebuild)
    BY <2>3, MirrorFrame
  <2> QED
    BY <2>4 DEF MirrorInv
<1>9. RebuildInv'
  BY <1>1, NoRebuild DEF RebuildInv
<1>10. EvidenceInv'
  <2>1. page \in Wikis /\ \A q \in Pages : Grows(page[q].rev, page[q].rev)
    BY TypeFacts DEF Grows
  <2>2. RoundEvidence(page, Rows, round, torn) /\ LifeEvidence(Rows, life, torn)
    BY DEF WikiInv, EvidenceInv
  <2>3. LifeEvidence(Rows', life, torn')
    BY <1>4, <2>2, LifeFrame
  <2>4. RoundEvidence(page, Rows', round, torn')
    BY <1>4, <2>1, <2>2, RoundFrame
  <2>5. ~ rebuild => PagesEvidence(page, torn')
    BY DEF WikiInv, EvidenceInv, PagesEvidence
  <2> QED
    BY <2>3, <2>4, <2>5 DEF EvidenceInv
<1> QED
  BY <1>3, <1>4, <1>5, <1>6, <1>7, <1>8, <1>9, <1>10 DEF WikiInv

LEMMA InsertPublicationKeeps ==
    ASSUME WikiInv, slug' = slug, InsertPublication
    PROVE  WikiInv'
<1>1. /\ inject.pc = "insert" /\ log' = Recorded(log, inject.row)
      /\ page' = page /\ broken' = broken /\ life' = life /\ runs' = runs /\ round' = round
      /\ rebuild' = rebuild /\ done' = done /\ torn' = torn
      /\ Settle([Target EXCEPT !.status = "succeeded", !.base = inject.row.rev], "commit", "save")
  BY DEF InsertPublication
<1>2. inject # Idle
  BY <1>1 DEF Idle
<1>3. /\ Target \in TargetType /\ inject.row \in PubRow /\ inject.row.page = Target.page
  BY <1>1, <1>2, TargetFacts DEF WikiInv, InjectType
<1>4. PICK t : t = [Target EXCEPT !.status = "succeeded", !.base = inject.row.rev]
  OBVIOUS
<1>5. /\ t \in TargetType /\ t.status = "succeeded" /\ t.base = inject.row.rev
      /\ t.page = inject.row.page
  BY <1>3, <1>4 DEF TargetType, PubRow, Revs
<1>6. TargetOK(t) /\ Settle(t, "commit", "save")
  BY <1>1, <1>4, <1>5 DEF TargetOK
<1>7. torn \subseteq torn' /\ torn' \subseteq Pages
  BY <1>1, TypeFacts
<1> QED
  BY <1>1, <1>5, <1>6, <1>7, InjectInserted

\* The page of a failed insert is torn, also if only the reply was lost.
LEMMA InsertFailsKeeps ==
    ASSUME WikiInv, slug' = slug, InsertFails
    PROVE  WikiInv'
<1>1. /\ inject.pc = "insert" /\ page' = page /\ broken' = broken
      /\ life' = life /\ runs' = runs /\ round' = round /\ rebuild' = rebuild /\ done' = done
      /\ torn' = torn \cup {inject.row.page}
      /\ Settle([Target EXCEPT !.status = "failed"], "commit", "save")
  BY DEF InsertFails
<1>2. inject # Idle /\ Unwritten(inject) = {inject.row.page}
  BY <1>1 DEF Idle, Unwritten
<1>3. Target \in TargetType
  BY <1>2, TargetFacts
<1>4. torn \subseteq torn' /\ torn' \subseteq Pages /\ torn' # {}
  BY <1>1, <1>2, TypeFacts
<1>5. PICK t : t = [Target EXCEPT !.status = "failed"]
  OBVIOUS
<1>6. t \in TargetType /\ t.status = "failed"
  BY <1>3, <1>5 DEF TargetType
<1>7. TargetOK(t) /\ Settle(t, "commit", "save")
  BY <1>1, <1>5, <1>6 DEF TargetOK
<1>8. CASE log' = log
  <2>1. InjectType' /\ Unwritten(inject') = {}
    BY <1>2, <1>7, SettleShape
  <2>2. RunsInv'
    BY <1>1, <1>2, <1>4, <1>7, <1>8, RunsSettle
  <2> QED
    BY <1>1, <1>2, <1>4, <1>8, <2>1, <2>2, NoRebuild, TypeFacts, InjectQuiet
<1>9. CASE log' = Recorded(log, inject.row)
  BY <1>1, <1>4, <1>6, <1>7, <1>9, InjectInserted
<1> QED
  BY <1>8, <1>9 DEF InsertFails, Attempted

-----------------------------------------------------------------------------
(* Every step keeps the invariant: curation rounds                         *)

\* A step of a round that writes neither to the mirror nor to the pages' rows.
LEMMA RoundQuiet ==
    ASSUME WikiInv, RoundType', page' = page, broken' = broken, log' = log, life' = life,
           runs' = runs, inject' = inject, rebuild' = rebuild, slug' = slug, done' = done,
           torn \subseteq torn', torn' \subseteq Pages,
           Unwritten(round') = {}, Unwritten(round) \subseteq torn',
           \/ round'.pc \in {"idle", "judge"}
           \/ round'.pc = "retire" /\ round'.retire.successor = Nothing
    PROVE  WikiInv'
<1>1. TableInv' /\ Rows' = Rows
  BY TableFrame DEF WikiInv
<1>2. TypeOK'
  BY TypeFacts, TypeFrame DEF WikiInv
<1>3. InjectType'
  BY DEF WikiInv, InjectType, Target
<1>4. MirrorInv'
  <2>1. MirrorOf(page, Rows, life, round, inject, torn, rebuild)
    BY MirrorSwap DEF WikiInv, MirrorInv
  <2>2. MirrorOf(page, Rows, life, round', inject, torn', rebuild)
    BY <2>1, MirrorFrame
  <2>3. MirrorOf(page, Rows, life, inject, round', torn', rebuild)
    BY <2>2, MirrorSwap
  <2> QED
    BY <1>1, <2>3 DEF MirrorInv
<1>5. RebuildInv'
  BY DEF WikiInv, RebuildInv, InsertsDue
<1>6. RunsInv'
  <2>1. torn' = {} => torn = {} /\ round.pc # "insert"
    BY DEF Unwritten
  <2>2. ASSUME torn' = {}, inject # Idle, NEW k \in DOMAIN inject.targets
        PROVE  TargetBacked(inject.targets[k], log, round')
    <3>1. TargetBacked(inject.targets[k], log, round)
      BY <2>1, <2>2 DEF WikiInv, RunsInv
    <3> QED
      BY <2>1, <2>2, <3>1 DEF TargetBacked
  <2>3. SucceededBacked' /\ \A r \in runs : r.source \in Sources
    BY <2>1 DEF WikiInv, RunsInv, SucceededBacked
  <2> QED
    BY <2>2, <2>3 DEF RunsInv
<1>7. EvidenceInv'
  <2>1. CASE round'.pc \in {"idle", "judge"}
    BY <1>1, <2>1, EvidenceFrame
  <2>2. CASE round'.pc = "retire" /\ round'.retire.successor = Nothing
    <3>1. page \in Wikis /\ Rows \in Results
      BY TypeFacts
    <3>2. \A q \in Pages : Grows(Rows.wiki[q].rev, Rows.wiki[q].rev)
      BY DEF Grows
    <3>3. LifeEvidence(Rows, life, torn')
      BY <3>1, <3>2, LifeFrame DEF WikiInv, EvidenceInv
    <3>4. ~ Intact(round'.retire, torn')
      BY <2>2, WikiPagesAssumption DEF Intact, Pages
    <3>5. RoundEvidence(page, Rows, round', torn')
      BY <2>2, <3>4 DEF RoundEvidence
    <3>6. ~ rebuild => PagesEvidence(page, torn')
      BY DEF WikiInv, EvidenceInv, PagesEvidence
    <3> QED
      BY <1>1, <3>3, <3>5, <3>6 DEF EvidenceInv
  <2> QED
    BY <2>1, <2>2
<1> QED
  BY <1>1, <1>2, <1>3, <1>4, <1>5, <1>6, <1>7 DEF WikiInv

\* The last draft of a revision.
LEMMA LastDraft ==
    ASSUME NEW rev \in Revs
    PROVE  Last(rev) \in Drafts /\ Last(rev).cites \subseteq Sources
<1>1. rev \in Seq(Drafts) /\ rev # << >>
  BY DEF Revs
<1>2. Len(rev) \in DOMAIN rev
  BY <1>1, FrontOf
<1>3. Last(rev) \in Drafts
  BY <1>1, <1>2 DEF Last
<1> QED
  BY <1>3 DEF Drafts

\* What a round knows of the pages of a candidate.
LEMMA CandidateFacts ==
    ASSUME WikiInv, round # Idle, NEW c \in round.todo, NEW p \in c
    PROVE  p \in Pages /\ round.snapshot[p] \in Revs /\ round.snapshot[p] \in Seq(Drafts)
<1>1. round.snapshot \in Snapshots /\ p \in DOMAIN round.snapshot
  BY DEF WikiInv, RoundType, RoundRecord
<1> QED
  BY <1>1 DEF Snapshots, Revs

\* A round that is at one of its candidates.
LEMMA JudgeFacts ==
    ASSUME WikiInv, round # Idle, NEW c, Candidate(c)
    PROVE  /\ round \in RoundRecord /\ round.pc = "judge" /\ c \in round.todo
           /\ Unwritten(round) = {}
           /\ \A d \in round.todo : d \subseteq DOMAIN round.snapshot
  BY DEF WikiInv, RoundType, Candidate, Unwritten

\* A round starts from the pages of the catalog.
LEMMA BeginRoundKeeps ==
    ASSUME WikiInv, slug' = slug, BeginRound
    PROVE  WikiInv'
<1>1. /\ round = Idle /\ page' = page /\ broken' = broken /\ log' = log
      /\ life' = life /\ runs' = runs /\ inject' = inject /\ rebuild' = rebuild /\ torn' = torn
      /\ done' = done
  BY DEF BeginRound, dbVars
<1> DEFINE shot == [p \in Catalog |-> page[p].rev]
           all(pairs) == pairs \cup {{p} : p \in Catalog \ UNION pairs}
<1>2. PICK pairs \in SUBSET kSubset(2, Catalog) :
          round' = [pc |-> "judge", snapshot |-> shot, todo |-> all(pairs),
                    retire |-> NoRow, row |-> NoRow]
  BY DEF BeginRound
<1>3. Catalog \in SUBSET Pages
  BY DEF Catalog
<1>4. shot \in Snapshots /\ DOMAIN shot = Catalog
  <2>1. \A p \in Catalog : page[p].rev \in Revs
    BY TypeFacts DEF Catalog, Wikis, Revs, Active, Exists
  <2>2. shot \in [Catalog -> Revs]
    BY <2>1
  <2> QED
    BY <1>3, <2>2 DEF Snapshots
<1>5. PICK todo : todo = all(pairs)
  OBVIOUS
<1>6. todo \in SUBSET SUBSET Pages /\ \A c \in todo : c \subseteq Catalog
  <2>1. \A c \in pairs : c \subseteq Catalog
    BY DEF kSubset
  <2> QED
    BY <1>3, <1>5, <2>1
<1> HIDE DEF shot, all
<1>7. round' = [pc |-> "judge", snapshot |-> shot, todo |-> todo, retire |-> NoRow, row |-> NoRow]
  BY <1>2, <1>5
<1>8. /\ round' \in RoundRecord /\ round'.pc = "judge" /\ round'.todo = todo
      /\ round'.snapshot = shot
  BY <1>4, <1>6, <1>7 DEF RoundRecord
<1>9. RoundType'
  BY <1>4, <1>6, <1>8 DEF RoundType
<1>10. Unwritten(round) = {} /\ Unwritten(round') = {}
  BY <1>1, <1>8 DEF Unwritten, Idle
<1> QED
  BY <1>1, <1>8, <1>9, <1>10, TypeFacts, RoundQuiet

\* A round ends with nothing to insert.
LEMMA EndRoundKeeps ==
    ASSUME WikiInv, slug' = slug, EndRound
    PROVE  WikiInv'
<1>1. /\ round.pc = "judge" /\ round' = Idle /\ page' = page /\ broken' = broken /\ log' = log
      /\ life' = life /\ runs' = runs /\ inject' = inject /\ rebuild' = rebuild /\ torn' = torn
      /\ done' = done
  BY DEF EndRound, dbVars
<1>2. Unwritten(round) = {} /\ Unwritten(round') = {} /\ round'.pc = "idle"
  BY <1>1 DEF Unwritten, Idle
<1>3. RoundType'
  BY <1>1 DEF RoundType
<1> QED
  BY <1>1, <1>2, <1>3, TypeFacts, RoundQuiet

\* A candidate that is kept changes no page.
LEMMA KeepCandidateKeeps ==
    ASSUME WikiInv, slug' = slug, NEW c, KeepCandidate(c)
    PROVE  WikiInv'
<1>1. /\ round # Idle /\ Candidate(c) /\ round' = [round EXCEPT !.todo = @ \ {c}]
      /\ page' = page /\ broken' = broken /\ log' = log
      /\ life' = life /\ runs' = runs /\ inject' = inject /\ rebuild' = rebuild /\ torn' = torn
      /\ done' = done
  BY DEF KeepCandidate, dbVars
<1>2. /\ round \in RoundRecord /\ round.pc = "judge" /\ Unwritten(round) = {}
      /\ \A d \in round.todo : d \subseteq DOMAIN round.snapshot
  BY <1>1, JudgeFacts
<1>3. /\ round' \in RoundRecord /\ round'.pc = "judge" /\ round'.snapshot = round.snapshot
      /\ round'.todo \subseteq round.todo
  BY <1>1, <1>2 DEF RoundRecord
<1>4. RoundType' /\ Unwritten(round') = {}
  BY <1>2, <1>3 DEF RoundType, Unwritten
<1> QED
  BY <1>1, <1>2, <1>3, <1>4, TypeFacts, RoundQuiet

\* A retirement without a successor has no evidence to carry.
LEMMA RetireOnlyKeeps ==
    ASSUME WikiInv, slug' = slug, NEW p \in Pages, RetireOnly(p)
    PROVE  WikiInv'
<1> DEFINE req == Retirement(p, Nothing)
<1>1. /\ round # Idle /\ Candidate({p})
      /\ round' = [round EXCEPT !.todo = @ \ {{p}}, !.pc = "retire", !.retire = req]
      /\ page' = page /\ broken' = broken /\ log' = log
      /\ life' = life /\ runs' = runs /\ inject' = inject /\ rebuild' = rebuild /\ torn' = torn
      /\ done' = done
  BY DEF RetireOnly, dbVars
<1>2. /\ round \in RoundRecord /\ {p} \in round.todo /\ Unwritten(round) = {}
      /\ \A d \in round.todo : d \subseteq DOMAIN round.snapshot
  BY <1>1, JudgeFacts
<1>3. req \in RetRow /\ req.successor = Nothing
  <2>1. p \in {p} /\ {p} \in round.todo
    BY <1>2
  <2>2. round.snapshot[p] \in Revs
    BY <1>1, <2>1, CandidateFacts
  <2> QED
    BY <2>2 DEF Retirement, RetRow
<1> HIDE DEF req
<1>4. /\ round' \in RoundRecord /\ round'.pc = "retire" /\ round'.snapshot = round.snapshot
      /\ round'.todo \subseteq round.todo /\ round'.retire = req
  BY <1>1, <1>2, <1>3 DEF RoundRecord
<1>5. RoundType' /\ Unwritten(round') = {}
  BY <1>2, <1>3, <1>4 DEF RoundType, Unwritten
<1> QED
  BY <1>1, <1>2, <1>3, <1>4, <1>5, TypeFacts, RoundQuiet

\* The revision that a verdict asks for.
LEMMA RewrittenRow ==
    ASSUME WikiInv, round # Idle, NEW c \in round.todo, NEW p \in c, NEW v \in Variants
    PROVE  /\ Rewritten(c, p, v) \in PubRow /\ Rewritten(c, p, v).page = p
           /\ Last(Rewritten(c, p, v).rev).cites = SnapshotCites(c)
<1>1. \A q \in c : round.snapshot[q] \in Revs
  BY CandidateFacts
<1>2. \A q \in c : Last(round.snapshot[q]).cites \subseteq Sources
  BY <1>1, LastDraft
<1>3. SnapshotCites(c) \subseteq Sources
  BY <1>2 DEF SnapshotCites
<1>4. PICK cites : cites = SnapshotCites(c)
  OBVIOUS
<1>5. PICK d : d = [cites |-> cites, variant |-> v]
  OBVIOUS
<1>6. d \in Drafts /\ d.cites = SnapshotCites(c)
  BY <1>3, <1>4, <1>5 DEF Drafts
<1>7. p \in Pages /\ round.snapshot[p] \in Seq(Drafts)
  BY CandidateFacts
<1>8. PICK rev : rev = Append(round.snapshot[p], d)
  OBVIOUS
<1>9. rev \in Revs /\ Last(rev) = d
  BY <1>6, <1>7, <1>8, FrontAppend DEF Revs
<1>10. PICK no : no = FALSE
  OBVIOUS
<1>11. Rewritten(c, p, v) = [page |-> p, rev |-> rev, revive |-> no]
  BY <1>4, <1>5, <1>8, <1>10 DEF Rewritten
<1>12. no \in BOOLEAN
  BY <1>10
<1> QED
  BY <1>6, <1>7, <1>9, <1>11, <1>12 DEF PubRow

\* A verdict whose publication is refused.
LEMMA RewriteRefused ==
    ASSUME WikiInv, slug' = slug, NEW c, NEW p, NEW v \in Variants, Rewrite(c, p, v),
           ~ Publishable(slug, page, Rewritten(c, p, v))
    PROVE  WikiInv'
<1>1. /\ round # Idle /\ Candidate(c)
      /\ round' = [round EXCEPT !.todo = @ \ {c}, !.pc = @, !.row = @, !.retire = NoRow]
      /\ page' = page /\ broken' = broken /\ log' = log
      /\ life' = life /\ runs' = runs /\ inject' = inject /\ rebuild' = rebuild /\ torn' = torn
      /\ done' = done
  BY DEF Rewrite, dbVars
<1>2. /\ round \in RoundRecord /\ round.pc = "judge" /\ Unwritten(round) = {}
      /\ \A d \in round.todo : d \subseteq DOMAIN round.snapshot
  BY <1>1, JudgeFacts
<1>3. /\ round' \in RoundRecord /\ round'.pc = "judge" /\ round'.snapshot = round.snapshot
      /\ round'.todo \subseteq round.todo
  BY <1>1, <1>2 DEF RoundRecord
<1>4. RoundType' /\ Unwritten(round') = {}
  BY <1>2, <1>3 DEF RoundType, Unwritten
<1> QED
  BY <1>1, <1>2, <1>3, <1>4, TypeFacts, RoundQuiet

\* A verdict's publication in the mirror: the pages' evidence goes into it.
LEMMA RewriteKeeps ==
    ASSUME WikiInv, slug' = slug, NEW c, NEW p, NEW v \in Variants, Rewrite(c, p, v)
    PROVE  WikiInv'
<1> DEFINE pub == Rewritten(c, p, v)
           q == CHOOSE q \in c \ {p} : TRUE
           req == IF c # {p} THEN Retirement(q, p) ELSE NoRow
<1> SUFFICES ASSUME Publishable(slug, page, pub) PROVE WikiInv'
  BY RewriteRefused
<1>1. /\ round # Idle /\ Candidate(c) /\ p \in c
      /\ page' = Published(page, pub) /\ Tear(p)
      /\ broken' = broken /\ log' = log /\ life' = life /\ runs' = runs /\ inject' = inject
      /\ rebuild' = rebuild /\ done' = done
      /\ round' = [round EXCEPT !.todo = @ \ {c}, !.pc = "insert", !.row = pub, !.retire = req]
  BY DEF Rewrite, dbVars
<1>2. /\ round \in RoundRecord /\ round.pc = "judge" /\ Unwritten(round) = {}
      /\ c \in round.todo /\ \A d \in round.todo : d \subseteq DOMAIN round.snapshot
  BY <1>1, JudgeFacts
<1>3. pub \in PubRow /\ pub.page = p /\ Last(pub.rev).cites = SnapshotCites(c) /\ p \in Pages
  BY <1>1, <1>2, RewrittenRow, CandidateFacts
<1>4. /\ req \in RetRow \cup {NoRow}
      /\ req # NoRow => /\ req.successor = pub.page
                        /\ Last(req.rev).cites \subseteq Last(pub.rev).cites
  <2>1. CASE c = {p}
    BY <2>1
  <2>2. CASE c # {p}
    <3>1. q \in c
      BY <1>1, <2>2
    <3> HIDE DEF q
    <3>2. q \in Pages /\ round.snapshot[q] \in Revs
      BY <1>1, <1>2, <3>1, CandidateFacts
    <3>3. req = [page |-> q, rev |-> round.snapshot[q], successor |-> p]
      BY <2>2 DEF Retirement
    <3>4. req \in RetRow /\ req.successor = p /\ req.rev = round.snapshot[q]
      BY <1>3, <3>2, <3>3 DEF RetRow
    <3>5. Last(round.snapshot[q]).cites \subseteq SnapshotCites(c)
      BY <3>1 DEF SnapshotCites
    <3> QED
      BY <1>3, <3>4, <3>5
  <2> QED
    BY <2>1, <2>2
<1> HIDE DEF pub, req
<1>5. /\ round' \in RoundRecord /\ round'.pc = "insert" /\ round'.snapshot = round.snapshot
      /\ round'.todo \subseteq round.todo /\ round'.row = pub /\ round'.retire = req
  BY <1>1, <1>2, <1>3, <1>4 DEF RoundRecord
<1>6. RoundType' /\ Unwritten(round') = {p}
  BY <1>2, <1>3, <1>5 DEF RoundType, Unwritten
<1>7. /\ torn \subseteq torn' /\ torn' \subseteq torn \cup {pub.page} /\ torn' \subseteq Pages
      /\ pub.page \in Unwritten(inject) \/ rebuild => pub.page \in torn'
  BY <1>1, <1>3, TypeFacts DEF Tear, InsertsDue
<1>8. TableInv' /\ Rows' = Rows
  BY <1>1, TableFrame DEF WikiInv
<1>9. TypeOK'
  BY <1>1, <1>3, <1>7, PublishType
<1>10. InjectType'
  BY <1>1 DEF WikiInv, InjectType, Target
<1>11. MirrorInv'
  <2>1. MirrorOf(page, Rows, life, round, inject, torn, rebuild) /\ life \in Seq(RetRow)
    BY MirrorSwap DEF WikiInv, MirrorInv, TableInv
  <2>2. page \in Wikis /\ Rows \in Results /\ Unwritten(inject) \subseteq Pages
    BY TypeFacts
  <2>3. MirrorOf(Published(page, pub), Rows, life, round', inject, torn', rebuild)
    BY <1>2, <1>3, <1>5, <1>7, <2>1, <2>2, MirrorPublish
  <2>4. MirrorOf(Published(page, pub), Rows, life, inject, round', torn', rebuild)
    BY <2>3, MirrorSwap
  <2> QED
    BY <1>1, <1>8, <2>4 DEF MirrorInv
<1>12. RebuildInv'
  BY <1>1, <1>3, <1>5, <1>6, <1>7 DEF WikiInv, RebuildInv, InsertsDue
<1>13. RunsInv'
  <2>1. torn' = {} => torn = {}
    BY <1>7
  <2>2. ASSUME torn' = {}, inject # Idle, NEW k \in DOMAIN inject.targets
        PROVE  TargetBacked(inject.targets[k], log, round')
    <3>1. TargetBacked(inject.targets[k], log, round)
      BY <2>1, <2>2 DEF WikiInv, RunsInv
    <3> QED
      BY <1>2, <3>1 DEF TargetBacked
  <2> QED
    BY <1>1, <2>1, <2>2 DEF WikiInv, RunsInv, SucceededBacked
<1>14. EvidenceInv'
  <2>1. (~ rebuild => PagesEvidence(page', torn')) /\ LifeEvidence(Rows, life, torn')
    BY <1>1, <1>3, <1>7, PublishedEvidence
  <2>2. RoundEvidence(page', Rows, round', torn')
    BY <1>4, <1>5 DEF RoundEvidence
  <2> QED
    BY <1>1, <1>8, <2>1, <2>2 DEF EvidenceInv
<1> QED
  BY <1>6, <1>8, <1>9, <1>10, <1>11, <1>12, <1>13, <1>14 DEF WikiInv

\* The insert of a curated page fails.
LEMMA InsertCuratedFails ==
    ASSUME WikiInv, slug' = slug, round.pc = "insert", torn' = torn \cup {round.row.page},
           round' = [round EXCEPT !.pc = "judge"], log' = log,
           page' = page, done' = done, broken' = broken, life' = life, runs' = runs,
           inject' = inject, rebuild' = rebuild
    PROVE  WikiInv'
<1>1. round # Idle /\ Unwritten(round) = {round.row.page}
  BY DEF Idle, Unwritten
<1>2. round \in RoundRecord /\ \A d \in round.todo : d \subseteq DOMAIN round.snapshot
  BY <1>1 DEF WikiInv, RoundType
<1>3. /\ round' \in RoundRecord /\ round'.pc = "judge" /\ round'.snapshot = round.snapshot
      /\ round'.todo = round.todo
  BY <1>2 DEF RoundRecord
<1>4. RoundType' /\ Unwritten(round') = {}
  BY <1>2, <1>3 DEF RoundType, Unwritten
<1>5. torn' \subseteq Pages
  BY <1>1, TypeFacts
<1> QED
  BY <1>1, <1>3, <1>4, <1>5, RoundQuiet

\* The rows catch up with the round: the successor holds the evidence of the page
\* that is retired next, in the mirror and in the rows.
LEMMA InsertCuratedKeeps ==
    ASSUME WikiInv, slug' = slug, InsertCurated
    PROVE  WikiInv'
<1>1. /\ round.pc = "insert" /\ page' = page /\ done' = done /\ broken' = broken /\ life' = life
      /\ runs' = runs /\ inject' = inject /\ rebuild' = rebuild
  BY DEF InsertCurated
<1> SUFFICES ASSUME log' = Recorded(log, round.row),
                    torn \subseteq torn', torn' \subseteq torn \cup {round.row.page},
                    \/ round' = [round EXCEPT !.pc = "judge"]
                    \/ round' = [round EXCEPT !.pc = "retire"] /\ round.retire # NoRow
             PROVE  WikiInv'
  BY <1>1, InsertCuratedFails DEF InsertCurated, Attempted
<1> DEFINE pub == round.row
           s == round.row.page
<1>2. round # Idle /\ Unwritten(round) = {s}
  BY <1>1 DEF Idle, Unwritten
<1>3. /\ round \in RoundRecord /\ \A d \in round.todo : d \subseteq DOMAIN round.snapshot
      /\ pub \in PubRow /\ s \in Pages /\ pub.rev \in Revs
  BY <1>1, <1>2 DEF WikiInv, RoundType, PubRow
<1>4. /\ round' \in RoundRecord /\ round'.pc \in {"judge", "retire"}
      /\ round'.snapshot = round.snapshot /\ round'.todo = round.todo
      /\ round'.retire = round.retire
      /\ round'.pc = "retire" => round.retire # NoRow
  BY <1>3 DEF RoundRecord
<1>5. RoundType' /\ Unwritten(round') = {}
  <2>1. round.retire # NoRow => round.retire \in RetRow
    BY <1>3 DEF RoundRecord
  <2> QED
    BY <1>3, <1>4, <2>1 DEF RoundType, Unwritten
<1>6. round.retire # NoRow => /\ round.retire.successor = s
                              /\ Last(round.retire.rev).cites \subseteq Last(pub.rev).cites
  BY <1>1 DEF WikiInv, EvidenceInv, RoundEvidence
<1>7. /\ TableInv' /\ Rows' \in Results
      /\ Stored(log, pub) => Rows' = Rows
      /\ ~ Stored(log, pub) => Rows' = ReplayStep(slug, Rows, pub)
      /\ Rows'.ok => Rows.ok /\ \A q \in Pages : Grows(Rows.wiki[q].rev, Rows'.wiki[q].rev)
      /\ Stored(log', At(pub.page, pub.rev))
      /\ \A x : Stored(log, x) => Stored(log', x)
  BY <1>1, <1>3, LogGrows
<1>8. MirrorOf(page, Rows', life, round', inject, torn, rebuild)
  <2>1. MirrorOf(page, Rows, life, round, inject, torn, rebuild) /\ life \in Seq(RetRow)
        /\ log \in Seq(PubRow) /\ Tables(slug, log, Rows)
    BY MirrorSwap DEF WikiInv, MirrorInv, TableInv
  <2>2. page \in Wikis /\ UniqueSlugs(slug, page)
    BY TypeFacts
  <2> QED
    BY <1>1, <1>3, <1>5, <1>7, <2>1, <2>2, MirrorInsert
<1>9. MirrorInv'
  <2>1. MirrorOf(page, Rows', life, round', inject, torn', rebuild)
    BY <1>8, MirrorFrame
  <2>2. MirrorOf(page, Rows', life, inject, round', torn', rebuild)
    BY <2>1, MirrorSwap
  <2> QED
    BY <1>1, <2>2 DEF MirrorInv
<1>10. TypeOK'
  BY <1>1, <1>3, TypeFacts, TypeFrame DEF WikiInv
<1>11. InjectType'
  BY <1>1 DEF WikiInv, InjectType, Target
<1>12. RebuildInv'
  <2> SUFFICES ASSUME rebuild
               PROVE  /\ inject = Idle /\ Unwritten(inject) \cup Unwritten(round') \subseteq torn'
                      /\ \A i \in DOMAIN log' : log'[i].page \in torn'
                      /\ \A i \in DOMAIN life : life[i].page \in torn'
                      /\ round'.pc = "retire" => round'.retire.successor \in torn'
    BY <1>1 DEF RebuildInv, InsertsDue
  <2>1. /\ inject = Idle /\ Unwritten(inject) \cup Unwritten(round) \subseteq torn
        /\ \A i \in DOMAIN log : log[i].page \in torn
        /\ \A i \in DOMAIN life : life[i].page \in torn
    BY DEF WikiInv, RebuildInv, InsertsDue
  <2>2. s \in torn
    BY <1>2, <2>1
  <2>3. \A i \in DOMAIN log' : log'[i].page \in torn
    <3>1. log \in Seq(PubRow)
      BY DEF WikiInv, TableInv
    <3> QED
      BY <1>3, <2>1, <2>2, <3>1, StoredAppend DEF Recorded
  <2> QED
    BY <1>4, <1>5, <1>6, <2>1, <2>2, <2>3
<1>13. RunsInv'
  <2>1. ASSUME torn' = {}, inject # Idle, NEW k \in DOMAIN inject.targets
        PROVE  TargetBacked(inject.targets[k], log', round')
    <3>1. TargetBacked(inject.targets[k], log, round)
      BY <2>1 DEF WikiInv, RunsInv
    <3> QED
      BY <1>7, <3>1 DEF TargetBacked
  <2>2. SucceededBacked' /\ \A r \in runs : r.source \in Sources
    BY <1>1, <1>7 DEF WikiInv, RunsInv, SucceededBacked
  <2> QED
    BY <1>1, <2>1, <2>2 DEF RunsInv
<1>14. EvidenceInv'
  <2>1. LifeEvidence(Rows', life, torn')
    BY <1>7, LifeFrame DEF WikiInv, EvidenceInv
  <2>2. ASSUME round'.pc = "retire", Intact(round.retire, torn')
        PROVE  /\ Carried(page, round.retire)
               /\ Rows'.ok => Carried(Rows'.wiki, round.retire)
    <3>1. /\ round.retire.successor = s /\ s \notin torn
          /\ Last(round.retire.rev).cites \subseteq Last(pub.rev).cites
      BY <1>4, <1>6, <2>2 DEF Intact
    <3>2. page[s].rev = pub.rev /\ s \notin Unwritten(inject)
      BY <1>2, <3>1 DEF WikiInv, MirrorInv, MirrorOf, Mirrored
    <3>3. ~ rebuild
      BY <1>2, <3>1 DEF WikiInv, RebuildInv, InsertsDue
    <3>4. RowsFollow(page, Rows', life, Unwritten(round') \cup Unwritten(inject), torn)
      BY <1>8, <3>3 DEF MirrorOf
    <3>5. Rows'.ok => page[s].rev = Rows'.wiki[s].rev
      BY <1>3, <1>5, <3>1, <3>2, <3>4 DEF RowsFollow, Follows
    <3>6. Holds(pub.rev, Last(round.retire.rev).cites)
      BY <1>3, <3>1, HoldsLast
    <3> QED
      BY <3>1, <3>2, <3>5, <3>6 DEF Carried
  <2>3. RoundEvidence(page, Rows', round', torn')
    BY <1>4, <2>2 DEF RoundEvidence
  <2>4. ~ rebuild => PagesEvidence(page, torn')
    BY DEF WikiInv, EvidenceInv, PagesEvidence
  <2> QED
    BY <1>1, <2>1, <2>3, <2>4 DEF EvidenceInv
<1> QED
  BY <1>5, <1>7, <1>9, <1>10, <1>11, <1>12, <1>13, <1>14 DEF WikiInv

\* The retirement is refused, or its insert fails.
LEMMA RetireRefused ==
    ASSUME WikiInv, slug' = slug, round.pc \in {"retire", "insertRetire"},
           round' = [round EXCEPT !.pc = "judge"], log' = log,
           torn \subseteq torn', torn' \subseteq torn \cup Unwritten(round),
           Unwritten(round) \subseteq torn',
           page' = page, done' = done, broken' = broken, life' = life, runs' = runs,
           inject' = inject, rebuild' = rebuild
    PROVE  WikiInv'
<1>1. round # Idle
  BY DEF Idle
<1>2. round \in RoundRecord /\ \A d \in round.todo : d \subseteq DOMAIN round.snapshot
  BY <1>1 DEF WikiInv, RoundType
<1>3. /\ round' \in RoundRecord /\ round'.pc = "judge" /\ round'.snapshot = round.snapshot
      /\ round'.todo = round.todo
  BY <1>2 DEF RoundRecord
<1>4. RoundType' /\ Unwritten(round') = {}
  BY <1>2, <1>3 DEF RoundType, Unwritten
<1>5. torn' \subseteq Pages
  BY TypeFacts
<1> QED
  BY <1>3, <1>4, <1>5, RoundQuiet

\* The mirror has the retirement that the round is to insert.
LEMMA RetirePageKeeps ==
    ASSUME WikiInv, slug' = slug, RetirePage
    PROVE  WikiInv'
<1> DEFINE req == round.retire
<1>1. /\ round.pc = "retire" /\ done' = done /\ broken' = broken /\ life' = life
      /\ log' = log /\ runs' = runs /\ inject' = inject /\ rebuild' = rebuild
  BY DEF RetirePage, dbVars
<1>2. round # Idle /\ Unwritten(round) = {}
  BY <1>1 DEF Idle, Unwritten
<1> SUFFICES ASSUME Retirable(page, req) PROVE WikiInv'
  <2> SUFFICES ASSUME ~ Retirable(page, req) PROVE WikiInv'
    OBVIOUS
  <2>1. round' = [round EXCEPT !.pc = "judge"] /\ page' = page /\ torn' = torn
    BY DEF RetirePage
  <2> QED
    BY <1>1, <1>2, <2>1, RetireRefused
<1>3. /\ page' = Retired(page, req) /\ Tear(req.page)
      /\ round' = [round EXCEPT !.pc = "insertRetire", !.row = req]
  BY DEF RetirePage
<1>4. /\ round \in RoundRecord /\ \A d \in round.todo : d \subseteq DOMAIN round.snapshot
      /\ req \in RetRow /\ req.page \in Pages
  BY <1>1, <1>2 DEF WikiInv, RoundType, RetRow
<1> HIDE DEF req
<1>5. /\ round' \in RoundRecord /\ round'.pc = "insertRetire" /\ round'.snapshot = round.snapshot
      /\ round'.todo = round.todo /\ round'.row = req
  BY <1>3, <1>4 DEF RoundRecord
<1>6. RoundType' /\ Unwritten(round') = {req.page}
  BY <1>4, <1>5 DEF RoundType, Unwritten
<1>7. /\ torn \subseteq torn' /\ torn' \subseteq torn \cup {req.page} /\ torn' \subseteq Pages
      /\ req.page \in Unwritten(inject) \/ rebuild => req.page \in torn'
  BY <1>3, <1>4, TypeFacts DEF Tear, InsertsDue
<1>8. TableInv' /\ Rows' = Rows
  BY <1>1, TableFrame DEF WikiInv
<1>9. page \in Wikis /\ Rows \in Results /\ Unwritten(inject) \subseteq Pages
  BY TypeFacts
<1>10. /\ page' \in Wikis /\ page'[req.page].rev = page[req.page].rev
       /\ \A p \in Pages : p # req.page => page'[p] = page[p]
  BY <1>3, <1>4, <1>9, RetiredPage
<1>11. TypeOK'
  <2>1. \A p \in Pages : page'[p].rev = page[p].rev
    BY <1>10
  <2>2. Exists(page, req.page)
    BY DEF Retirable, Active
  <2>3. \A p \in Pages : page'[p].retired => Exists(page', p)
    BY <1>10, <2>1, <2>2, TypeFacts DEF Exists
  <2>4. UniqueSlugs(slug, page')
    BY <2>1, TypeFacts DEF UniqueSlugs, Exists
  <2>5. {broken, rebuild} \subseteq BOOLEAN /\ done \subseteq Sources
    BY DEF WikiInv, TypeOK
  <2> QED
    BY <1>1, <1>7, <1>10, <2>3, <2>4, <2>5 DEF TypeOK, Wikis, UniqueSlugs
<1>12. InjectType'
  BY <1>1 DEF WikiInv, InjectType, Target
<1>13. MirrorInv'
  <2>1. MirrorOf(page, Rows, life, round, inject, torn, rebuild) /\ life \in Seq(RetRow)
    BY MirrorSwap DEF WikiInv, MirrorInv, TableInv
  <2>2. MirrorOf(Retired(page, req), Rows, life, round', inject, torn', rebuild)
    BY <1>2, <1>4, <1>5, <1>7, <1>9, <2>1, MirrorRetire
  <2>3. MirrorOf(Retired(page, req), Rows, life, inject, round', torn', rebuild)
    BY <2>2, MirrorSwap
  <2> QED
    BY <1>1, <1>3, <1>8, <2>3 DEF MirrorInv
<1>14. RebuildInv'
  BY <1>1, <1>5, <1>6, <1>7 DEF WikiInv, RebuildInv, InsertsDue
<1>15. RunsInv'
  <2>1. torn' = {} => torn = {}
    BY <1>7
  <2>2. ASSUME torn' = {}, inject # Idle, NEW k \in DOMAIN inject.targets
        PROVE  TargetBacked(inject.targets[k], log, round')
    <3>1. TargetBacked(inject.targets[k], log, round)
      BY <2>1, <2>2 DEF WikiInv, RunsInv
    <3> QED
      BY <1>1, <3>1 DEF TargetBacked
  <2> QED
    BY <1>1, <2>1, <2>2 DEF WikiInv, RunsInv, SucceededBacked
<1>16. EvidenceInv'
  <2>1. Intact(req, torn') => Intact(req, torn)
    BY <1>7 DEF Intact
  <2>2. Intact(req, torn) => Carried(page, req) /\ (Rows.ok => Carried(Rows.wiki, req))
    BY <1>1 DEF WikiInv, EvidenceInv, RoundEvidence, req
  <2>3. ~ rebuild => PagesEvidence(page', torn')
    BY <1>3, <1>4, <1>7, <1>9, <2>1, <2>2, RetireEvidence DEF WikiInv, EvidenceInv
  <2>4. \A q \in Pages : Grows(Rows.wiki[q].rev, Rows.wiki[q].rev)
    BY DEF Grows
  <2>5. LifeEvidence(Rows, life, torn')
    BY <1>7, <1>9, <2>4, LifeFrame DEF WikiInv, EvidenceInv
  <2>6. RoundEvidence(page', Rows, round', torn')
    BY <1>5, <2>1, <2>2 DEF RoundEvidence
  <2> QED
    BY <1>1, <1>8, <2>3, <2>5, <2>6 DEF EvidenceInv
<1> QED
  BY <1>6, <1>8, <1>11, <1>12, <1>13, <1>14, <1>15, <1>16 DEF WikiInv

\* The retirements after an insert: no revision is retired twice.
LEMMA LifeGrows ==
    ASSUME NEW lf \in Seq(RetRow), Unique(lf), NEW req \in RetRow
    PROVE  /\ Recorded(lf, req) \in Seq(RetRow) /\ Unique(Recorded(lf, req))
           /\ \A i \in DOMAIN Recorded(lf, req) :
                 \/ i \in DOMAIN lf /\ Recorded(lf, req)[i] = lf[i]
                 \/ Recorded(lf, req)[i] = req
<1>1. CASE Stored(lf, req)
  BY <1>1 DEF Recorded
<1>2. CASE ~ Stored(lf, req)
  <2> DEFINE new == Append(lf, req)
  <2>1. /\ new \in Seq(RetRow)
        /\ \A i \in DOMAIN new : \/ i \in DOMAIN lf /\ new[i] = lf[i]
                                 \/ i = Len(lf) + 1 /\ new[i] = req
    BY StoredAppend
  <2> HIDE DEF new
  <2>2. Unique(new)
    BY <1>2, <2>1 DEF Unique, Stored
  <2>3. Recorded(lf, req) = new
    BY <1>2 DEF Recorded, new
  <2> QED
    BY <2>1, <2>2, <2>3
<1> QED
  BY <1>1, <1>2

\* The rows catch up with the retirement.
LEMMA InsertRetirementKeeps ==
    ASSUME WikiInv, slug' = slug, InsertRetirement
    PROVE  WikiInv'
<1> DEFINE req == round.row
<1>1. /\ round.pc = "insertRetire" /\ page' = page /\ done' = done /\ broken' = broken
      /\ log' = log /\ runs' = runs /\ inject' = inject /\ rebuild' = rebuild
      /\ round' = [round EXCEPT !.pc = "judge"]
  BY DEF InsertRetirement
<1>2. round # Idle /\ Unwritten(round) = {req.page}
  BY <1>1 DEF Idle, Unwritten
<1> SUFFICES ASSUME life' = Recorded(life, req),
                    torn \subseteq torn', torn' \subseteq torn \cup {req.page}
             PROVE  WikiInv'
  <2> SUFFICES ASSUME life' = life, torn' = torn \cup {req.page} PROVE WikiInv'
    BY DEF InsertRetirement, Attempted
  <2>1. /\ torn \subseteq torn' /\ torn' \subseteq torn \cup Unwritten(round)
        /\ Unwritten(round) \subseteq torn'
    BY <1>2
  <2> QED
    BY <1>1, <2>1, RetireRefused
<1>3. /\ round \in RoundRecord /\ \A d \in round.todo : d \subseteq DOMAIN round.snapshot
      /\ req \in RetRow
  BY <1>1, <1>2 DEF WikiInv, RoundType
<1>4. /\ round' \in RoundRecord /\ round'.pc = "judge" /\ round'.snapshot = round.snapshot
      /\ round'.todo = round.todo
  BY <1>1, <1>3 DEF RoundRecord
<1>5. RoundType' /\ Unwritten(round') = {}
  BY <1>3, <1>4 DEF RoundType, Unwritten
<1>6. life \in Seq(RetRow) /\ Unique(life)
  BY DEF WikiInv, TableInv
<1>7. /\ life' \in Seq(RetRow) /\ Unique(life')
      /\ \A i \in DOMAIN life' : (i \in DOMAIN life /\ life'[i] = life[i]) \/ life'[i] = req
  BY <1>3, <1>6, LifeGrows
<1>8. TableInv' /\ Rows' = Rows
  <2>1. Rows' = Rows
    BY <1>1 DEF Rows
  <2> QED
    BY <1>1, <1>7, <2>1 DEF WikiInv, TableInv
<1>9. TypeOK'
  <2>1. torn' \subseteq Pages
    BY <1>3, TypeFacts DEF RetRow
  <2> QED
    BY <1>1, <2>1, TypeFacts, TypeFrame DEF WikiInv
<1>10. InjectType'
  BY <1>1 DEF WikiInv, InjectType, Target
<1>11. MirrorInv'
  <2>1. MirrorOf(page, Rows, life, round, inject, torn, rebuild)
    BY MirrorSwap DEF WikiInv, MirrorInv
  <2>2. MirrorOf(page, Rows, life', round', inject, torn, rebuild)
    BY <1>1, <1>3, <1>5, <1>6, <2>1, MirrorInsertRetired
  <2>3. MirrorOf(page, Rows, life', inject, round', torn', rebuild)
    BY <2>2, MirrorFrame, MirrorSwap
  <2> QED
    BY <1>1, <1>8, <2>3 DEF MirrorInv
<1>12. RebuildInv'
  BY <1>1, <1>2, <1>4, <1>5, <1>7 DEF WikiInv, RebuildInv, InsertsDue
<1>13. RunsInv'
  <2>1. ASSUME torn' = {}, inject # Idle, NEW k \in DOMAIN inject.targets
        PROVE  TargetBacked(inject.targets[k], log, round')
    <3>1. TargetBacked(inject.targets[k], log, round)
      BY <2>1 DEF WikiInv, RunsInv
    <3> QED
      BY <1>1, <3>1 DEF TargetBacked
  <2> QED
    BY <1>1, <2>1 DEF WikiInv, RunsInv, SucceededBacked
<1>14. EvidenceInv'
  <2>1. Rows.ok /\ Intact(req, torn') => Carried(Rows.wiki, req)
    BY <1>1 DEF WikiInv, EvidenceInv, RoundEvidence, Intact
  <2>2. LifeEvidence(Rows, life', torn')
    <3>1. LifeEvidence(Rows, life, torn')
      BY DEF WikiInv, EvidenceInv, LifeEvidence, Intact
    <3> HIDE DEF req
    <3> QED
      BY <1>7, <2>1, <3>1 DEF LifeEvidence
  <2>3. RoundEvidence(page, Rows, round', torn')
    BY <1>4 DEF RoundEvidence
  <2>4. ~ rebuild => PagesEvidence(page, torn')
    BY DEF WikiInv, EvidenceInv, PagesEvidence
  <2> QED
    BY <1>1, <1>8, <2>2, <2>3, <2>4 DEF EvidenceInv
<1> QED
  BY <1>5, <1>8, <1>9, <1>10, <1>11, <1>12, <1>13, <1>14 DEF WikiInv

-----------------------------------------------------------------------------
(* Every step keeps the invariant: rebuilds and restarts                   *)

\* The tables are emptied: what a round has begun to write or to retire is torn.
LEMMA ClearTablesKeeps ==
    ASSUME WikiInv, slug' = slug, ClearTables
    PROVE  WikiInv'
<1>1. /\ inject = Idle /\ log' = << >> /\ life' = << >> /\ runs' = {} /\ rebuild' = TRUE
      /\ torn' = InsertsDue \cup RetirementDue /\ page' = page /\ done' = done
      /\ broken' = broken /\ inject' = inject /\ round' = round
  BY DEF ClearTables
<1>2. ASSUME round.pc \in {"insert", "retire"}, round.retire # NoRow
      PROVE  round.retire.page \in Pages
  <2>1. round # Idle
    BY <1>2 DEF Idle
  <2>2. round.retire \in RetRow
    BY <1>2, <2>1 DEF WikiInv, RoundType, RoundRecord
  <2> QED
    BY <2>2 DEF RetRow
<1>3. torn' \subseteq Pages /\ Unwritten(inject) \subseteq torn' /\ Unwritten(round) \subseteq torn'
  BY <1>1, <1>2, TypeFacts DEF InsertsDue, RetirementDue
<1>4. round.pc = "retire" => round.retire.page \in torn'
  <2> SUFFICES ASSUME round.pc = "retire" PROVE round.retire.page \in torn'
    OBVIOUS
  <2>1. round # Idle
    BY DEF Idle
  <2>2. round.retire \in RetRow
    BY <2>1 DEF WikiInv, RoundType
  <2>3. round.retire # NoRow
    BY <2>2, WikiPagesAssumption DEF RetRow, NoRow, Pages
  <2> QED
    BY <1>1, <2>3 DEF RetirementDue
<1>5. TypeOK'
  BY <1>1, <1>3 DEF WikiInv, TypeOK, Exists
<1>6. InjectType' /\ RoundType'
  BY <1>1 DEF WikiInv, InjectType, RoundType
<1>7. TableInv'
  <2>1. Rows' = Replay(slug, << >>)
    BY <1>1 DEF Rows
  <2>2. Tables(slug, << >>, Replay(slug, << >>))
    BY TablesEmpty
  <2>3. << >> \in Seq(PubRow) /\ << >> \in Seq(RetRow)
    OBVIOUS
  <2>4. DOMAIN << >> = {}
    OBVIOUS
  <2>5. Unique(<< >>)
    BY <2>4 DEF Unique
  <2> QED
    BY <1>1, <2>1, <2>2, <2>3, <2>5 DEF WikiInv, TableInv
<1>8. MirrorInv'
  BY <1>1, <1>3 DEF MirrorInv, MirrorOf, Mirrored
<1>9. RebuildInv'
  <2>1. DOMAIN << >> = {}
    OBVIOUS
  <2> QED
    BY <1>1, <1>3, <1>4, <2>1 DEF RebuildInv, InsertsDue
<1>10. RunsInv'
  BY <1>1 DEF RunsInv, SucceededBacked
<1>11. EvidenceInv'
  <2>1. DOMAIN << >> = {}
    OBVIOUS
  <2>2. LifeEvidence(Rows', << >>, torn')
    BY <2>1 DEF LifeEvidence
  <2>3. round.pc = "retire" => ~ Intact(round.retire, torn')
    BY <1>4 DEF Intact
  <2>4. round.pc = "insertRetire" => ~ Intact(round.row, torn')
    BY <1>3 DEF Intact, Unwritten
  <2>5. RoundEvidence(page, Rows', round, torn')
    BY <2>3, <2>4 DEF WikiInv, EvidenceInv, RoundEvidence
  <2> QED
    BY <1>1, <2>2, <2>5 DEF EvidenceInv
<1> QED
  BY <1>5, <1>6, <1>7, <1>8, <1>9, <1>10, <1>11 DEF WikiInv

\* A wiki without pages.
LEMMA NoPages ==
    /\ EmptyWiki \in Wikis
    /\ \A p \in Pages : /\ EmptyWiki[p].rev = << >> /\ ~ EmptyWiki[p].retired
                        /\ EmptyWiki[p].successor = Nothing
<1>1. PICK no, none : no = FALSE /\ none = << >>
  BY Zenon
<1>2. NoPage = [rev |-> none, retired |-> no, successor |-> Nothing]
  BY <1>1 DEF NoPage
<1>3. none \in Seq(Drafts) /\ no \in BOOLEAN
  <2>1. << >> \in Seq(Drafts)
    OBVIOUS
  <2>2. FALSE \in BOOLEAN
    OBVIOUS
  <2> QED
    BY <1>1, <2>1, <2>2, Zenon
<1>4. NoPage \in PageType /\ NoPage.rev = none /\ NoPage.retired = no /\ NoPage.successor = Nothing
  BY <1>2, <1>3 DEF PageType
<1>5. \A p \in Pages : EmptyWiki[p] = NoPage
  BY DEF EmptyWiki
<1>6. EmptyWiki \in [Pages -> PageType]
  BY <1>4 DEF EmptyWiki
<1>7. ~ no
  BY <1>1, Zenon
<1>8. \A p \in Pages : ~ EmptyWiki[p].retired
  BY <1>4, <1>5, <1>7, Zenon
<1> QED
  BY <1>1, <1>4, <1>5, <1>6, <1>8 DEF Wikis, PageType

\* Between the two steps of a rebuild the rows can be replayed if no page is torn,
\* and they give nothing for a page that is not torn.
LEMMA RebuiltRows ==
    ASSUME WikiInv, rebuild
    PROVE  /\ torn = {} => Rows.ok
           /\ \A p \in Pages \ torn : /\ Rows.wiki[p].rev = << >>
                                      /\ \A i \in DOMAIN life : life[i].page # p
<1>1. /\ \A i \in DOMAIN log : log[i].page \in torn
      /\ \A i \in DOMAIN life : life[i].page \in torn
      /\ log \in Seq(PubRow) /\ Tables(slug, log, Rows)
  BY DEF WikiInv, RebuildInv, TableInv
<1>2. ASSUME torn = {} PROVE Rows.ok
  <2>1. DOMAIN log = {}
    BY <1>1, <1>2
  <2>2. log = << >>
    BY <1>1, <2>1
  <2> QED
    BY <2>2, TablesEmpty DEF Rows
<1>3. ASSUME NEW p \in Pages \ torn PROVE Rows.wiki[p].rev = << >>
  BY <1>1 DEF Tables, Exists, Stored, At
<1> QED
  BY <1>1, <1>2, <1>3

\* The emptied mirror follows the emptied rows, but for the torn pages.
LEMMA ResetMirrorKeeps ==
    ASSUME WikiInv, slug' = slug, ResetMirror
    PROVE  WikiInv'
<1>1. /\ rebuild /\ rebuild' = FALSE /\ page' = EmptyWiki /\ done' = {} /\ broken' = broken
      /\ log' = log /\ life' = life /\ runs' = runs /\ inject' = inject /\ round' = round
      /\ torn' = torn
  BY DEF ResetMirror, dbVars
<1>2. /\ inject = Idle /\ Unwritten(inject) \cup Unwritten(round) \subseteq torn
      /\ round.pc = "retire" /\ round.retire.successor # Nothing =>
            round.retire.page \in torn \/ round.retire.successor \in torn
  BY <1>1 DEF WikiInv, RebuildInv, InsertsDue
<1>3. /\ EmptyWiki \in Wikis
      /\ \A p \in Pages : /\ EmptyWiki[p].rev = << >> /\ ~ EmptyWiki[p].retired
                          /\ EmptyWiki[p].successor = Nothing
  BY NoPages
<1>4. /\ torn = {} => Rows.ok
      /\ \A p \in Pages \ torn : /\ Rows.wiki[p].rev = << >>
                                 /\ \A i \in DOMAIN life : life[i].page # p
  BY <1>1, RebuiltRows
<1>5. TypeOK'
  <2>1. torn \subseteq Pages /\ broken \in BOOLEAN
    BY DEF WikiInv, TypeOK
  <2>2. EmptyWiki \in [Pages -> [rev : Seq(Drafts), retired : BOOLEAN,
                                 successor : Pages \cup {Nothing}]]
    BY <1>3 DEF Wikis
  <2> HIDE DEF EmptyWiki
  <2> QED
    BY <1>1, <1>3, <2>1, <2>2 DEF TypeOK, Exists
<1>6. InjectType' /\ RoundType'
  BY <1>1 DEF WikiInv, InjectType, RoundType, Target
<1>7. TableInv' /\ Rows' = Rows
  BY <1>1, TableFrame DEF WikiInv
<1>8. MirrorInv'
  <2>1. RowsFollow(EmptyWiki, Rows, life, Unwritten(inject) \cup Unwritten(round), torn)
    <3>1. ASSUME NEW p \in Pages \ torn
          PROVE  /\ p \notin Unwritten(inject) \cup Unwritten(round)
                 /\ Follows(EmptyWiki, Rows.wiki, life, p)
                 /\ \A i \in DOMAIN life : life[i].page # p
      <4> HIDE DEF EmptyWiki
      <4> QED
        BY <1>2, <1>3, <1>4, <3>1 DEF Follows, Stored, At
    <3> HIDE DEF EmptyWiki
    <3> QED
      BY <1>4, <3>1 DEF RowsFollow
  <2>2. Mirrored(EmptyWiki, inject, torn) /\ Mirrored(EmptyWiki, round, torn)
    BY <1>2 DEF Mirrored
  <2> QED
    BY <1>1, <1>2, <1>7, <2>1, <2>2 DEF MirrorInv, MirrorOf
<1>9. RebuildInv'
  BY <1>1 DEF RebuildInv
<1>10. RunsInv'
  BY <1>1, <1>2 DEF WikiInv, RunsInv, SucceededBacked
<1>11. EvidenceInv'
  <2> HIDE DEF EmptyWiki
  <2>1. PagesEvidence(EmptyWiki, torn)
    BY <1>3 DEF PagesEvidence
  <2>2. round.pc = "retire" => ~ Intact(round.retire, torn)
    BY <1>2, WikiPagesAssumption DEF Intact, Pages
  <2>3. RoundEvidence(EmptyWiki, Rows, round, torn)
    BY <2>2 DEF WikiInv, EvidenceInv, RoundEvidence
  <2> QED
    BY <1>1, <1>7, <2>1, <2>3 DEF WikiInv, EvidenceInv
<1> QED
  BY <1>5, <1>6, <1>7, <1>8, <1>9, <1>10, <1>11 DEF WikiInv

\* What a new process finds.
LEMMA HydratedWiki ==
    ASSUME WikiInv
    PROVE  /\ Hydrate.ok = Rows.ok /\ Hydrate.wiki \in Wikis
           /\ Hydrate.wiki = ReplayRetirements(Rows.wiki, life)
           /\ \A p \in Pages : Follows(Hydrate.wiki, Rows.wiki, life, p)
<1>1. /\ Tables(slug, log, Rows) /\ Rows \in Results /\ Rows.wiki \in Wikis
      /\ life \in Seq(RetRow)
      /\ \A p \in Pages : ~ Rows.wiki[p].retired /\ Rows.wiki[p].successor = Nothing
  BY DEF WikiInv, TableInv, Tables, Results
<1>2. Hydrate = [Rows EXCEPT !.wiki = ReplayRetirements(@, life)]
  BY DEF Hydrate, Rows
<1>3. Hydrate.ok = Rows.ok /\ Hydrate.wiki = ReplayRetirements(Rows.wiki, life)
  BY <1>1, <1>2 DEF Results
<1> QED
  BY <1>1, <1>3, RetirementsFollow

\* A new process finds pages that follow the rows, and has nothing to insert.
LEMMA RestartKeeps ==
    ASSUME WikiInv, slug' = slug, Restart
    PROVE  WikiInv'
<1>1. /\ inject' = Idle /\ round' = Idle /\ rebuild' = FALSE /\ broken' = ~ Hydrate.ok
      /\ done' = {r.source : r \in runs} /\ log' = log /\ life' = life /\ runs' = runs
      /\ torn' = torn
  BY DEF Restart, dbVars
<1>2. (Hydrate.ok => page' = Hydrate.wiki) /\ (~ Hydrate.ok => page' = EmptyWiki)
  BY DEF Restart
<1>3. /\ Hydrate.ok = Rows.ok /\ Hydrate.wiki \in Wikis
      /\ Hydrate.wiki = ReplayRetirements(Rows.wiki, life)
      /\ \A p \in Pages : Follows(Hydrate.wiki, Rows.wiki, life, p)
  BY HydratedWiki
<1>4. /\ EmptyWiki \in Wikis
      /\ \A p \in Pages : /\ EmptyWiki[p].rev = << >> /\ ~ EmptyWiki[p].retired
                          /\ EmptyWiki[p].successor = Nothing
  BY NoPages
<1>5. /\ Tables(slug, log, Rows) /\ life \in Seq(RetRow) /\ Rows \in Results
      /\ UniqueSlugs(slug, Rows.wiki)
  BY DEF WikiInv, TableInv, Tables
<1>6. page' \in Wikis
  BY <1>2, <1>3, <1>4
<1>7. \A p \in Pages : page'[p].retired => /\ Rows.ok /\ page'[p].rev = Rows.wiki[p].rev
         /\ \E i \in DOMAIN life : /\ life[i].page = p /\ life[i].rev = Rows.wiki[p].rev
                                   /\ life[i].successor = page'[p].successor
  <2> HIDE DEF EmptyWiki, Hydrate
  <2> QED
    BY <1>2, <1>3, <1>4 DEF Follows
<1>8. \A p \in Pages : page'[p].rev = Rows.wiki[p].rev \/ page'[p].rev = << >>
  <2> HIDE DEF EmptyWiki, Hydrate
  <2> QED
    BY <1>2, <1>3, <1>4 DEF Follows
<1>9. TypeOK'
  <2>1. UniqueSlugs(slug, page')
    BY <1>5, <1>8 DEF UniqueSlugs, Exists
  <2>2. \A p \in Pages : page'[p].retired => Exists(page', p)
    <3>1. ASSUME NEW i \in DOMAIN life PROVE life[i].rev # << >>
      <4>1. life[i] \in RetRow
        BY <1>5
      <4>2. life[i].rev \in Revs
        BY <4>1 DEF RetRow
      <4> QED
        BY <4>2 DEF Revs
    <3> QED
      BY <1>7, <3>1 DEF Exists
  <2>3. done' \subseteq Sources
    BY <1>1 DEF WikiInv, RunsInv
  <2>4. torn' \subseteq Pages
    BY <1>1, TypeFacts
  <2>5. broken' \in BOOLEAN /\ rebuild' \in BOOLEAN
    BY <1>1
  <2> QED
    BY <1>6, <2>1, <2>2, <2>3, <2>4, <2>5 DEF TypeOK, Wikis, UniqueSlugs
<1>10. InjectType' /\ RoundType'
  BY <1>1 DEF InjectType, RoundType
<1>11. TableInv' /\ Rows' = Rows
  BY <1>1, TableFrame DEF WikiInv
<1>12. Unwritten(Idle) = {}
  BY DEF Unwritten, Idle
<1>13. MirrorInv'
  <2>1. /\ torn = {} => Rows.ok
        /\ Rows.ok => \A p \in Pages \ torn : \A i \in DOMAIN life :
              life[i].page = p => Len(life[i].rev) <= Len(Rows.wiki[p].rev)
    <3>1. CASE rebuild
      BY <3>1, RebuiltRows
    <3>2. CASE ~ rebuild
      BY <3>2 DEF WikiInv, MirrorInv, MirrorOf, RowsFollow
    <3> QED
      BY <3>1, <3>2
  <2>2. RowsFollow(Hydrate.wiki, Rows, life, {}, torn)
    BY <1>3, <1>5, <2>1, HydratedRows
  <2>3. RowsFollow(page', Rows, life, {}, torn)
    BY <1>2, <1>3, <2>2 DEF RowsFollow
  <2>4. Mirrored(page', Idle, torn)
    BY <1>12 DEF Mirrored
  <2>5. {} \cup {} = {} /\ {} \cap {} \subseteq torn
    OBVIOUS
  <2>6. MirrorOf(page', Rows, life, Idle, Idle, torn, FALSE)
    BY <1>12, <2>3, <2>4, <2>5 DEF MirrorOf
  <2> QED
    BY <1>1, <1>11, <2>6 DEF MirrorInv
<1>14. RebuildInv'
  BY <1>1 DEF RebuildInv
<1>15. RunsInv'
  BY <1>1 DEF WikiInv, RunsInv, SucceededBacked
<1>16. EvidenceInv'
  <2>1. LifeEvidence(Rows, life, torn)
    BY DEF WikiInv, EvidenceInv
  <2>2. PagesEvidence(page', torn)
    <3> SUFFICES ASSUME NEW p \in Pages \ torn, NEW q \in Pages \ torn,
                        page'[p].retired, page'[p].successor = q
                 PROVE  Holds(page'[q].rev, Last(page'[p].rev).cites)
      BY DEF PagesEvidence
    <3>1. PICK i \in DOMAIN life : /\ life[i].page = p /\ life[i].rev = Rows.wiki[p].rev
                                   /\ life[i].successor = q
      BY <1>7
    <3>2. Rows.ok /\ page'[p].rev = Rows.wiki[p].rev
      BY <1>7
    <3>3. Holds(Rows.wiki[q].rev, Last(life[i].rev).cites)
      BY <2>1, <3>1, <3>2 DEF LifeEvidence, Intact, Carried
    <3>4. page'[q].rev = Rows.wiki[q].rev
      BY <1>2, <1>3, <3>2 DEF Follows
    <3> QED
      BY <3>1, <3>2, <3>3, <3>4
  <2>3. RoundEvidence(page', Rows, Idle, torn)
    BY DEF RoundEvidence, Idle
  <2> QED
    BY <1>1, <1>11, <2>1, <2>2, <2>3 DEF EvidenceInv
<1> QED
  BY <1>9, <1>10, <1>11, <1>13, <1>14, <1>15, <1>16 DEF WikiInv

-----------------------------------------------------------------------------
(* The theorems                                                            *)

\* A new scope has neither pages nor rows.
LEMMA InitInv ==
    ASSUME Init
    PROVE  WikiInv
<1>1. /\ page = EmptyWiki /\ done = {} /\ broken = FALSE /\ log = << >> /\ life = << >>
      /\ runs = {} /\ inject = Idle /\ round = Idle /\ rebuild = FALSE /\ torn = {}
      /\ slug \in [Sources -> Slugs]
  BY DEF Init
<1>2. /\ EmptyWiki \in Wikis
      /\ \A p \in Pages : /\ EmptyWiki[p].rev = << >> /\ ~ EmptyWiki[p].retired
                          /\ EmptyWiki[p].successor = Nothing
  BY NoPages
<1>3. DOMAIN << >> = {} /\ << >> \in Seq(PubRow) /\ << >> \in Seq(RetRow)
  OBVIOUS
<1>4. /\ Rows = Replay(slug, << >>) /\ Tables(slug, << >>, Replay(slug, << >>)) /\ Rows.ok
      /\ \A p \in Pages : Rows.wiki[p] = NoPage
  BY <1>1, TablesEmpty DEF Rows
<1>5. TypeOK
  <2>1. EmptyWiki \in [Pages -> [rev : Seq(Drafts), retired : BOOLEAN,
                                 successor : Pages \cup {Nothing}]]
    BY <1>2 DEF Wikis
  <2> HIDE DEF EmptyWiki
  <2> QED
    BY <1>1, <1>2, <2>1 DEF TypeOK, Exists
<1>6. InjectType /\ RoundType /\ RebuildInv
  BY <1>1 DEF InjectType, RoundType, RebuildInv
<1>7. TableInv
  <2>1. Unique(<< >>)
    BY <1>3 DEF Unique
  <2> QED
    BY <1>1, <1>3, <1>4, <2>1 DEF TableInv
<1>8. Unwritten(Idle) = {}
  BY DEF Unwritten, Idle
<1>9. MirrorInv
  <2>1. ASSUME NEW p \in Pages PROVE Follows(EmptyWiki, Rows.wiki, << >>, p)
    <3>1. EmptyWiki[p] = NoPage /\ Rows.wiki[p] = NoPage
      BY <1>4 DEF EmptyWiki
    <3>2. /\ EmptyWiki[p].rev = Rows.wiki[p].rev
          /\ ~ EmptyWiki[p].retired /\ EmptyWiki[p].successor = Nothing
      BY <1>2, <3>1
    <3> HIDE DEF EmptyWiki
    <3> QED
      BY <1>3, <3>2 DEF Follows, Stored
  <2>2. RowsFollow(EmptyWiki, Rows, << >>, {}, {})
    <3> HIDE DEF EmptyWiki
    <3> QED
      BY <1>3, <1>4, <2>1 DEF RowsFollow
  <2>3. Mirrored(EmptyWiki, Idle, {})
    BY <1>8 DEF Mirrored
  <2>4. {} \cup {} = {} /\ {} \cap {} \subseteq {}
    OBVIOUS
  <2>5. MirrorOf(EmptyWiki, Rows, << >>, Idle, Idle, {}, FALSE)
    BY <1>8, <2>2, <2>3, <2>4 DEF MirrorOf
  <2> QED
    BY <1>1, <2>5 DEF MirrorInv
<1>10. RunsInv
  BY <1>1 DEF RunsInv, SucceededBacked
<1>11. EvidenceInv
  <2> HIDE DEF EmptyWiki
  <2>1. PagesEvidence(EmptyWiki, {})
    BY <1>2 DEF PagesEvidence
  <2>2. LifeEvidence(Rows, << >>, {})
    BY <1>3 DEF LifeEvidence
  <2>3. RoundEvidence(EmptyWiki, Rows, Idle, {})
    BY DEF RoundEvidence, Idle
  <2> QED
    BY <1>1, <2>1, <2>2, <2>3 DEF EvidenceInv
<1> QED
  BY <1>5, <1>6, <1>7, <1>9, <1>10, <1>11 DEF WikiInv

\* Every step keeps the invariant.
LEMMA NextInv ==
    ASSUME WikiInv, [Next /\ UNCHANGED slug]_vars
    PROVE  WikiInv'
<1>1. CASE UNCHANGED vars
  <2>1. /\ page' = page /\ done' = done /\ broken' = broken /\ log' = log /\ life' = life
        /\ runs' = runs /\ inject' = inject /\ round' = round /\ rebuild' = rebuild
        /\ torn' = torn /\ slug' = slug
    BY <1>1 DEF vars
  <2>2. TableInv' /\ Rows' = Rows
    BY <2>1, TableFrame DEF WikiInv
  <2>3. TypeOK'
    BY <2>1, TypeFacts, TypeFrame DEF WikiInv
  <2>4. InjectType' /\ RoundType' /\ RebuildInv'
    BY <2>1 DEF WikiInv, InjectType, RoundType, RebuildInv, Target, InsertsDue
  <2>5. MirrorInv' /\ RunsInv' /\ EvidenceInv'
    BY <2>1, <2>2 DEF WikiInv, MirrorInv, RunsInv, SucceededBacked, EvidenceInv
  <2> QED
    BY <2>2, <2>3, <2>4, <2>5 DEF WikiInv
<1> SUFFICES ASSUME Next, slug' = slug PROVE WikiInv'
  BY <1>1
<1>2. ASSUME NEW s \in Sources, BeginInject(s) PROVE WikiInv'
  BY <1>2, BeginInjectKeeps
<1>3. CASE PrepareTarget
  BY <1>3, PrepareTargetKeeps
<1>4. CASE CommitTarget
  BY <1>4, CommitTargetKeeps
<1>5. CASE PassTarget
  BY <1>5, PassTargetKeeps
<1>6. CASE InsertPublication
  BY <1>6, InsertPublicationKeeps
<1>7. CASE InsertFails
  BY <1>7, InsertFailsKeeps
<1>8. CASE SaveRun
  BY <1>8, SaveRunKeeps
<1>9. CASE BeginRound
  BY <1>9, BeginRoundKeeps
<1>10. CASE EndRound
  BY <1>10, EndRoundKeeps
<1>11. ASSUME NEW c \in SUBSET Pages, KeepCandidate(c) PROVE WikiInv'
  BY <1>11, KeepCandidateKeeps
<1>12. ASSUME NEW c \in SUBSET Pages, NEW p \in Pages, NEW v \in Variants, Rewrite(c, p, v)
       PROVE  WikiInv'
  BY <1>12, RewriteKeeps
<1>13. ASSUME NEW p \in Pages, RetireOnly(p) PROVE WikiInv'
  BY <1>13, RetireOnlyKeeps
<1>14. CASE InsertCurated
  BY <1>14, InsertCuratedKeeps
<1>15. CASE RetirePage
  BY <1>15, RetirePageKeeps
<1>16. CASE InsertRetirement
  BY <1>16, InsertRetirementKeeps
<1>17. CASE ClearTables
  BY <1>17, ClearTablesKeeps
<1>18. CASE ResetMirror
  BY <1>18, ResetMirrorKeeps
<1>19. CASE Restart
  BY <1>19, RestartKeeps
<1> QED
  BY <1>2, <1>3, <1>4, <1>5, <1>6, <1>7, <1>8, <1>9, <1>10, <1>11, <1>12, <1>13, <1>14, <1>15,
     <1>16, <1>17, <1>18, <1>19 DEF Next

\* The inductive invariant of the wiki's two writers, its rebuilds and restarts:
\* mirror and rows agree but for what is on its way or torn, what a run will be
\* stored with is stored or about to be, and the evidence of a page that is
\* merged is in the page, in its rows and in what the round is still to write.
THEOREM WikiPagesCorrect == Spec => []WikiInv
<1>1. Init => WikiInv
  BY InitInv
<1>2. WikiInv /\ [Next /\ UNCHANGED slug]_vars => WikiInv'
  BY NextInv
<1> QED
  BY <1>1, <1>2, PTL DEF Spec

\* The invariant gives what hydrate finds.
LEMMA ReplayedMirror ==
    ASSUME WikiInv
    PROVE  MirrorReplays
<1> SUFFICES ASSUME torn = {}, ~ rebuild
             PROVE  Hydrate.ok /\ \A p \in Pages \ InsertsDue : Hydrate.wiki[p] = page[p]
  BY DEF MirrorReplays, WikiInv
<1>1. RowsFollow(page, Rows, life, Unwritten(inject) \cup Unwritten(round), torn)
  BY DEF WikiInv, MirrorInv, MirrorOf
<1>2. Rows.ok /\ \A p \in Pages \ InsertsDue : Follows(page, Rows.wiki, life, p)
  BY <1>1 DEF RowsFollow, InsertsDue
<1>3. /\ Hydrate.ok = Rows.ok /\ Hydrate.wiki \in Wikis
      /\ \A p \in Pages : Follows(Hydrate.wiki, Rows.wiki, life, p)
  BY HydratedWiki
<1>4. page \in Wikis /\ Unique(life)
  BY TypeFacts DEF WikiInv, TableInv
<1>5. ASSUME NEW p \in Pages \ InsertsDue PROVE Hydrate.wiki[p] = page[p]
  BY <1>2, <1>3, <1>4, FollowsSame
<1> QED
  BY <1>2, <1>3, <1>5

\* Whenever the process dies, the rows of PostgreSQL give its successor the
\* mirror's pages, but for the one whose insert is still to come: for any number
\* of sources, injections, curated candidates, rebuilds and faults.
THEOREM WikiSurvivesRestarts == Spec => []MirrorReplays
<1>1. WikiInv => MirrorReplays
  BY ReplayedMirror
<1> QED
  BY <1>1, WikiPagesCorrect, PTL

\* A maintenance run that is stored as succeeded has all its revisions stored,
\* unless a page is torn.
THEOREM SucceededRunsAreStored == Spec => []SucceededBacked
<1>1. WikiInv => SucceededBacked
  BY DEF WikiInv, RunsInv
<1> QED
  BY <1>1, WikiPagesCorrect, PTL

\* A merge loses no evidence, whatever was injected between the judgement and
\* the retirement.
THEOREM MergesKeepEvidence == Spec => []EvidenceKept
<1>1. WikiInv => EvidenceKept
  BY DEF WikiInv, EvidenceInv, PagesEvidence, EvidenceKept, Holds
<1> QED
  BY <1>1, WikiPagesCorrect, PTL

=============================================================================
