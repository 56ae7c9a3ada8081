------------------------------- MODULE ListLemmas -------------------------------
(***************************************************************************)
(* What the list operations of module Lists do to the elements, the length *)
(* and the absence of duplicates of a sequence; then what a list is that   *)
(* is made step by step: folded, broken at a separator, or put together    *)
(* from lists.  The induction that this needs is over the set of the       *)
(* numbers with a property, since every number is shown to be in that set. *)
(***************************************************************************)
EXTENDS Lists, SequenceTheorems, WellFoundedInduction, TLAPS

\* A sequence is a function on 1..Len whose values are in its set.
LEMMA SeqFacts ==
    ASSUME NEW S, NEW s \in Seq(S)
    PROVE  /\ Len(s) \in Nat
           /\ DOMAIN s = 1..Len(s)
           /\ \A k \in 1..Len(s) : s[k] \in S
           /\ Range(s) = {s[k] : k \in 1..Len(s)}
           /\ Range(s) \subseteq S
BY LenProperties, ElementOfSeq DEF Range

\* The empty list is the one without elements.
LEMMA EmptyList ==
    ASSUME NEW S, NEW s \in Seq(S)
    PROVE  /\ s = <<>> <=> Len(s) = 0
           /\ s = <<>> <=> Range(s) = {}
<1>1. s = <<>> <=> Len(s) = 0
  BY EmptySeq
<1>2. ASSUME Len(s) = 0 PROVE Range(s) = {}
  <2>1. DOMAIN s = {}
    BY <1>2, SeqFacts
  <2>. QED
    BY <2>1 DEF Range
<1>3. ASSUME Len(s) # 0 PROVE Range(s) # {}
  <2>1. 1 \in 1..Len(s)
    BY <1>3, SeqFacts
  <2>. QED
    BY <2>1, SeqFacts
<1>. QED
  BY <1>1, <1>2, <1>3

\* The front of a list is one of its elements.
LEMMA FrontOfList ==
    ASSUME NEW S, NEW s \in Seq(S), s # <<>>
    PROVE  Head(s) = s[1] /\ Head(s) \in S /\ Head(s) \in Range(s) /\ 1 \in DOMAIN s
<1>1. Len(s) \in Nat /\ Len(s) # 0
  BY EmptyList, SeqFacts
<1>2. Head(s) = s[1]
  OBVIOUS
<1>. QED
  BY <1>1, <1>2, SeqFacts

\* Find returns a place of the element.
LEMMA FindFinds ==
    ASSUME NEW S, NEW s \in Seq(S), NEW e \in Range(s)
    PROVE  Find(s, e) \in 1..Len(s) /\ s[Find(s, e)] = e
<1>1. \E i \in DOMAIN s : s[i] = e
  BY DEF Range
<1>2. Find(s, e) \in DOMAIN s /\ s[Find(s, e)] = e
  BY <1>1 DEF Find
<1>. QED
  BY <1>2, SeqFacts

\* RemoveAt moves the elements behind the place by one.
LEMMA RemoveAtMoves ==
    ASSUME NEW S, NEW s \in Seq(S), NEW i \in 1..Len(s)
    PROVE  /\ RemoveAt(s, i) \in Seq(S)
           /\ Len(RemoveAt(s, i)) = Len(s) - 1
           /\ \A k \in 1..(Len(s) - 1) :
                 RemoveAt(s, i)[k] = IF k < i THEN s[k] ELSE s[k + 1]
<1> DEFINE u == SubSeq(s, 1, i - 1)
           v == SubSeq(s, i + 1, Len(s))
<1>1. Len(s) \in Nat /\ \A k \in 1..Len(s) : s[k] \in S
  BY SeqFacts
<1>2. /\ u \in Seq(S) /\ Len(u) = i - 1
      /\ \A k \in 1..(i - 1) : u[k] = s[k]
  BY <1>1, SubSeqProperties, i - 1 \in Int
<1>3. /\ v \in Seq(S) /\ Len(v) = Len(s) - i
      /\ \A k \in 1..(Len(s) - i) : v[k] = s[i + k]
  BY <1>1, SubSeqProperties, i + 1 \in Int
<1>4. RemoveAt(s, i) = u \o v
  BY DEF RemoveAt
<1> HIDE DEF u, v
<1>5. /\ u \o v \in Seq(S) /\ Len(u \o v) = Len(u) + Len(v)
      /\ \A k \in 1..(Len(u) + Len(v)) :
            (u \o v)[k] = IF k <= Len(u) THEN u[k] ELSE v[k - Len(u)]
  BY <1>2, <1>3, ConcatProperties
<1>6. Len(u) + Len(v) = Len(s) - 1
  BY <1>1, <1>2, <1>3
<1>7. ASSUME NEW k \in 1..(Len(s) - 1)
      PROVE  (u \o v)[k] = IF k < i THEN s[k] ELSE s[k + 1]
  <2>1. CASE k < i
    <3>1. k \in 1..(i - 1) /\ k <= Len(u) /\ k \in 1..(Len(u) + Len(v))
      BY <1>1, <1>2, <1>6, <2>1
    <3>. QED
      BY <1>2, <1>5, <2>1, <3>1
  <2>2. CASE ~(k < i)
    <3>1. /\ k - (i - 1) \in 1..(Len(s) - i) /\ ~(k <= Len(u))
          /\ i + (k - (i - 1)) = k + 1 /\ k \in 1..(Len(u) + Len(v))
      BY <1>1, <1>2, <1>6, <2>2
    <3>2. v[k - (i - 1)] = s[k + 1]
      BY <1>3, <3>1
    <3>. QED
      BY <1>2, <1>5, <2>2, <3>1, <3>2
  <2>. QED
    BY <2>1, <2>2
<1>. QED
  BY <1>4, <1>5, <1>6, <1>7

\* Without returns a list over the same set.
LEMMA WithoutType ==
    ASSUME NEW S, NEW s \in Seq(S), NEW e
    PROVE  Without(s, e) \in Seq(S)
<1>1. CASE e \in Range(s)
  BY <1>1, FindFinds, RemoveAtMoves DEF Without
<1>. QED
  BY <1>1 DEF Without

\* Without takes the element out of a list that has no duplicates, and nothing
\* else.
LEMMA WithoutRemoves ==
    ASSUME NEW S, NEW s \in Seq(S), IsInjective(s), NEW e
    PROVE  /\ Without(s, e) \in Seq(S)
           /\ IsInjective(Without(s, e))
           /\ Range(Without(s, e)) = Range(s) \ {e}
           /\ e \in Range(s) => Len(Without(s, e)) = Len(s) - 1
<1>1. CASE e \notin Range(s)
  BY <1>1 DEF Without
<1>2. CASE e \in Range(s)
  <2> DEFINE i == Find(s, e)
             w == RemoveAt(s, i)
  <2>1. i \in 1..Len(s) /\ s[i] = e
    BY <1>2, FindFinds
  <2>2. Without(s, e) = w
    BY <1>2 DEF Without
  <2> HIDE DEF i
  <2>3. /\ w \in Seq(S) /\ Len(w) = Len(s) - 1
        /\ \A k \in 1..(Len(s) - 1) : w[k] = IF k < i THEN s[k] ELSE s[k + 1]
    BY <2>1, RemoveAtMoves
  <2> HIDE DEF w
  <2>4. Len(s) \in Nat /\ DOMAIN s = 1..Len(s) /\ DOMAIN w = 1..(Len(s) - 1)
    BY <2>3, SeqFacts
  <2>5. \A j, k \in 1..Len(s) : s[j] = s[k] => j = k
    BY <2>4 DEF IsInjective
  <2>6. \A j, k \in 1..(Len(s) - 1) : w[j] = w[k] => j = k
    <3> TAKE j, k \in 1..(Len(s) - 1)
    <3>1. j \in 1..Len(s) /\ j + 1 \in 1..Len(s) /\ k \in 1..Len(s) /\ k + 1 \in 1..Len(s)
      BY <2>4
    <3>. QED
      BY <2>1, <2>3, <2>5, <3>1
  <2>7. Range(w) \subseteq Range(s) \ {e}
    <3> SUFFICES ASSUME NEW k \in 1..(Len(s) - 1)
                 PROVE  w[k] \in Range(s) \ {e}
      BY <2>4 DEF Range
    <3>1. k \in 1..Len(s) /\ k + 1 \in 1..Len(s)
      BY <2>4
    <3>2. CASE k < i
      <4>1. w[k] = s[k] /\ k # i
        BY <2>1, <2>3, <3>1, <3>2
      <4>2. s[k] # s[i]
        BY <2>1, <2>5, <3>1, <4>1
      <4>. QED
        BY <2>1, <2>4, <3>1, <4>1, <4>2 DEF Range
    <3>3. CASE ~(k < i)
      <4>1. w[k] = s[k + 1] /\ k + 1 # i
        BY <2>1, <2>3, <3>1, <3>3
      <4>2. s[k + 1] # s[i]
        BY <2>1, <2>5, <3>1, <4>1
      <4>. QED
        BY <2>1, <2>4, <3>1, <4>1, <4>2 DEF Range
    <3>. QED
      BY <3>2, <3>3
  <2>8. Range(s) \ {e} \subseteq Range(w)
    <3> SUFFICES ASSUME NEW k \in 1..Len(s), s[k] # e
                 PROVE  s[k] \in Range(w)
      BY <2>4 DEF Range
    <3>1. CASE k < i
      <4>1. k \in 1..(Len(s) - 1) /\ w[k] = s[k]
        BY <2>1, <2>3, <2>4, <3>1
      <4>. QED
        BY <2>4, <4>1 DEF Range
    <3>2. CASE ~(k < i)
      <4>1. k # i
        BY <2>1
      <4>2. k - 1 \in 1..(Len(s) - 1) /\ ~(k - 1 < i) /\ (k - 1) + 1 = k
        BY <2>1, <2>4, <3>2, <4>1
      <4>3. w[k - 1] = s[k]
        BY <2>3, <4>2
      <4>. QED
        BY <2>4, <4>2, <4>3 DEF Range
    <3>. QED
      BY <3>1, <3>2
  <2>9. IsInjective(w)
    BY <2>4, <2>6 DEF IsInjective
  <2>. QED
    BY <2>2, <2>3, <2>7, <2>8, <2>9
<1>. QED
  BY <1>1, <1>2

\* push_back of an element adds it, and keeps a list without duplicates so if
\* the element is new.
LEMMA AppendAdds ==
    ASSUME NEW S, NEW s \in Seq(S), NEW e \in S
    PROVE  /\ Append(s, e) \in Seq(S)
           /\ Len(Append(s, e)) = Len(s) + 1
           /\ Range(Append(s, e)) = Range(s) \cup {e}
           /\ IsInjective(s) /\ e \notin Range(s) => IsInjective(Append(s, e))
<1> DEFINE w == Append(s, e)
<1>1. /\ w \in Seq(S) /\ Len(w) = Len(s) + 1
      /\ \A k \in 1..Len(s) : w[k] = s[k]
      /\ w[Len(s) + 1] = e
  BY AppendProperties
<1> HIDE DEF w
<1>2. Len(s) \in Nat /\ DOMAIN s = 1..Len(s) /\ DOMAIN w = 1..(Len(s) + 1)
  BY <1>1, SeqFacts
<1>3. 1..(Len(s) + 1) = 1..Len(s) \cup {Len(s) + 1}
  BY <1>2
<1>4. Range(w) = Range(s) \cup {e}
  BY <1>1, <1>2, <1>3 DEF Range
<1>5. ASSUME IsInjective(s), e \notin Range(s)
      PROVE  IsInjective(w)
  <2>1. \A k \in 1..Len(s) : s[k] # e
    BY <1>2, <1>5 DEF Range
  <2>2. \A j, k \in 1..(Len(s) + 1) : w[j] = w[k] => j = k
    BY <1>1, <1>2, <1>3, <1>5, <2>1 DEF IsInjective
  <2>. QED
    BY <1>2, <2>2 DEF IsInjective
<1>. QED
  BY <1>1, <1>4, <1>5 DEF w

\* A set of natural numbers that is not empty has a least one.
LEMMA LeastNumber ==
    ASSUME NEW I, I \subseteq Nat, I # {}
    PROVE  \E m \in I : \A k \in I : m <= k
<1> DEFINE R == {ss \in Nat \X Nat : ss[1] < ss[2]}
<1>1. IsWellFoundedOn(R, Nat)
  BY NatLessThanWellFounded DEF OpToRel
<1>2. \A x, y \in Nat : x < y => <<x, y>> \in R
  OBVIOUS
<1> HIDE DEF R
<1>3. PICK m \in I : \A k \in I : ~ (<<k, m>> \in R)
  BY <1>1, WFMin
<1>4. ASSUME NEW k \in I PROVE m <= k
  <2>1. m \in Nat /\ k \in Nat /\ ~(k < m)
    BY <1>2, <1>3
  <2>. QED
    BY <2>1
<1>. QED
  BY <1>4

-----------------------------------------------------------------------------
(* Induction, and folds over a list step by step *)

\* Induction on the natural numbers, for the set of those that have the property.
LEMMA Induction ==
    ASSUME NEW I, 0 \in I, \A n \in Nat : n \in I => n + 1 \in I
    PROVE  Nat \subseteq I
<1> SUFFICES ASSUME Nat \ I # {} PROVE FALSE
  OBVIOUS
<1>1. PICK m \in Nat \ I : \A k \in Nat \ I : m <= k
  BY LeastNumber
<1>2. m # 0 /\ m - 1 \in Nat
  BY <1>1
<1>3. m - 1 \in I
  BY <1>1, <1>2
<1>. QED
  BY <1>1, <1>2, <1>3

\* The greatest number of a set, as folds over a sequence take it.
Greatest(d) == CHOOSE x \in d : \A y \in d : x >= y

\* It is known if it is the end of an interval.
LEMMA GreatestOf ==
    ASSUME NEW n \in Nat, NEW d \in SUBSET (1..n), n \in d
    PROVE  Greatest(d) = n
<1>1. \A y \in d : y \in Int /\ n >= y
  OBVIOUS
<1>2. \A x \in d : (\A y \in d : x >= y) => x = n
  BY <1>1
<1>. QED
  BY <1>1, <1>2 DEF Greatest

\* A set of places that is not empty has one.
LEMMA GreatestIn ==
    ASSUME NEW n \in Nat, NEW d \in SUBSET (1..n), d # {}
    PROVE  Greatest(d) \in d
<1> DEFINE I == {n - x : x \in d}
<1>1. I \subseteq Nat /\ I # {}
  <2>1. \A x \in d : x \in 1..n
    OBVIOUS
  <2>2. \A x \in d : n - x \in Nat
    BY <2>1
  <2>. QED
    BY <2>2
<1>2. PICK m \in I : \A k \in I : m <= k
  BY <1>1, LeastNumber
<1>3. PICK x \in d : m = n - x
  OBVIOUS
<1>4. \A y \in d : x >= y
  <2> SUFFICES ASSUME NEW y \in d PROVE x >= y
    OBVIOUS
  <2>1. n - x <= n - y
    BY <1>2, <1>3
  <2>. QED
    BY <2>1
<1>. QED
  BY <1>3, <1>4 DEF Greatest

\* The first i places of a sequence, and the last of them.
LEMMA FirstPlaces ==
    ASSUME NEW n \in Nat, NEW i \in 1..n
    PROVE  /\ i - 1 \in 0..n
           /\ 1..i \in SUBSET (1..n) /\ 1..i # {} /\ Greatest(1..i) = i
           /\ (1..i) \ {i} = 1..(i - 1)
<1>1. i \in Nat /\ i \in 1..i /\ i - 1 \in 0..n /\ 1..i \in SUBSET (1..n)
  OBVIOUS
<1>2. (1..i) \ {i} = 1..(i - 1)
  OBVIOUS
<1>. QED
  BY <1>1, <1>2, GreatestOf

\* f folds s from the left with the function step, for each set of places.
FoldsUp(f, s, base, step) ==
    \A d \in SUBSET (1..Len(s)) :
       f[d] = IF d = {} THEN base ELSE step[<<f[d \ {Greatest(d)}], s[Greatest(d)]>>]

\* There is such a function.
LEMMA FoldExists ==
    ASSUME NEW S, NEW T, NEW base \in T, NEW step \in [T \X S -> T], NEW s \in Seq(S)
    PROVE  \E f \in [SUBSET (1..Len(s)) -> T] : FoldsUp(f, s, base, step)
<1> DEFINE Folds(f, n) ==
             \A d \in SUBSET (1..n) :
                f[d] = IF d = {} THEN base ELSE step[<<f[d \ {Greatest(d)}], s[Greatest(d)]>>]
           Exists(n) == \E f \in [SUBSET (1..n) -> T] : Folds(f, n)
           I == {n \in Nat : n <= Len(s) => Exists(n)}
<1>1. Len(s) \in Nat /\ \A k \in 1..Len(s) : s[k] \in S
  BY SeqFacts
<1>2. Exists(0)
  <2>1. \A d \in SUBSET (1..0) : d = {}
    OBVIOUS
  <2>2. PICK f : f = [d \in SUBSET (1..0) |-> base]
    OBVIOUS
  <2>3. f \in [SUBSET (1..0) -> T]
    BY <2>2
  <2>4. Folds(f, 0)
    BY <2>1, <2>2
  <2>. QED
    BY <2>3, <2>4
<1>3. ASSUME NEW n \in Nat, Exists(n), n + 1 <= Len(s) PROVE Exists(n + 1)
  <2>1. PICK f \in [SUBSET (1..n) -> T] : Folds(f, n)
    BY <1>3
  <2> DEFINE h == [d \in SUBSET (1..(n + 1)) |->
                     IF n + 1 \in d THEN step[<<f[d \ {n + 1}], s[n + 1]>>] ELSE f[d]]
  <2>2. \A d \in SUBSET (1..(n + 1)) :
           /\ d \ {n + 1} \in SUBSET (1..n)
           /\ n + 1 \notin d => d \in SUBSET (1..n)
    OBVIOUS
  <2>3. s[n + 1] \in S
    BY <1>1, <1>3
  <2>4. h \in [SUBSET (1..(n + 1)) -> T]
    <3> SUFFICES ASSUME NEW d \in SUBSET (1..(n + 1)) PROVE h[d] \in T
      OBVIOUS
    <3>1. CASE n + 1 \in d
      <4>1. f[d \ {n + 1}] \in T
        BY <2>2
      <4>. QED
        BY <2>3, <3>1, <4>1
    <3>2. CASE n + 1 \notin d
      BY <2>2, <3>2
    <3>. QED
      BY <3>1, <3>2
  <2>5. ASSUME NEW d \in SUBSET (1..(n + 1))
        PROVE  h[d] = IF d = {} THEN base ELSE step[<<h[d \ {Greatest(d)}], s[Greatest(d)]>>]
    <3>1. CASE n + 1 \in d
      <4>1. Greatest(d) = n + 1
        BY <3>1, GreatestOf
      <4>2. h[d \ {n + 1}] = f[d \ {n + 1}]
        BY <2>2
      <4>. QED
        BY <3>1, <4>1, <4>2
    <3>2. CASE n + 1 \notin d
      <4>1. d \in SUBSET (1..n) /\ h[d] = f[d]
        BY <2>2, <3>2
      <4>2. PICK e \in SUBSET (1..n) : e = d \ {Greatest(d)}
        BY <4>1
      <4>3. h[e] = f[e]
        BY <2>2
      <4>. QED
        BY <2>1, <4>1, <4>2, <4>3
    <3>. QED
      BY <3>1, <3>2
  <2>. QED
    BY <2>4, <2>5
<1> HIDE DEF Exists
<1>4. \A n \in Nat : n \in I => n + 1 \in I
  BY <1>1, <1>3
<1>5. 0 \in I
  BY <1>2
<1>6. Nat \subseteq I
  <2> HIDE DEF I
  <2>. QED
    BY <1>4, <1>5, Induction
<1>7. Exists(Len(s))
  BY <1>1, <1>6
<1>. QED
  BY <1>7 DEF Exists, FoldsUp

\* The first elements of a list.
LEMMA FirstElements ==
    ASSUME NEW S, NEW s \in Seq(S), NEW n \in 0..Len(s)
    PROVE  /\ SubSeq(s, 1, n) \in Seq(S)
           /\ Len(SubSeq(s, 1, n)) = n
           /\ \A k \in 1..n : SubSeq(s, 1, n)[k] = s[k]
<1>1. Len(s) \in Nat /\ 1 \in Int /\ n \in Int /\ \A k \in 1..n : s[k] \in S
  BY SeqFacts
<1>2. /\ SubSeq(s, 1, n) \in Seq(S)
      /\ Len(SubSeq(s, 1, n)) = IF 1 <= n THEN n - 1 + 1 ELSE 0
      /\ \A k \in 1..(n - 1 + 1) : SubSeq(s, 1, n)[k] = s[1 + k - 1]
  BY <1>1, SubSeqProperties
<1>. QED
  BY <1>1, <1>2

\* Induction along an interval.
LEMMA IntervalInduction ==
    ASSUME NEW n \in Nat, NEW I, 0 \in I, \A i \in 1..n : i - 1 \in I => i \in I
    PROVE  0..n \subseteq I
<1> DEFINE J == {i \in Nat : i <= n => i \in I}
<1>1. ASSUME NEW i \in Nat, i \in J PROVE i + 1 \in J
  <2> SUFFICES ASSUME i + 1 <= n PROVE i + 1 \in I
    OBVIOUS
  <2>1. i + 1 \in 1..n /\ (i + 1) - 1 = i /\ i \in I
    BY <1>1
  <2>. QED
    BY <2>1
<1>2. 0 \in J
  OBVIOUS
<1>3. Nat \subseteq J
  <2> HIDE DEF J
  <2>. QED
    BY <1>1, <1>2, Induction
<1>. QED
  BY <1>3

\* Induction on lists.
LEMMA ListInduction ==
    ASSUME NEW S, NEW I, <<>> \in I,
           \A s \in Seq(S), x \in S : s \in I => Append(s, x) \in I
    PROVE  Seq(S) \subseteq I
<1> DEFINE All(n) == \A s \in Seq(S) : Len(s) = n => s \in I
           N == {n \in Nat : All(n)}
<1>1. All(0)
  BY EmptyList
<1>2. ASSUME NEW n \in Nat, All(n) PROVE All(n + 1)
  <2> SUFFICES ASSUME NEW s \in Seq(S), Len(s) = n + 1 PROVE s \in I
    OBVIOUS
  <2>1. PICK u \in Seq(S), x \in S : s = Append(u, x)
    BY <1>2, SequenceEmptyOrAppend, EmptySeq
  <2>2. Len(u) = n
    BY <2>1, SeqFacts, AppendProperties
  <2>. QED
    BY <1>2, <2>1, <2>2
<1> HIDE DEF All
<1>3. Nat \subseteq N
  <2>1. 0 \in N /\ \A n \in Nat : n \in N => n + 1 \in N
    BY <1>1, <1>2
  <2> HIDE DEF N
  <2>. QED
    BY <2>1, Induction
<1>4. ASSUME NEW s \in Seq(S) PROVE s \in I
  <2>1. All(Len(s))
    BY <1>3, SeqFacts
  <2>. QED
    BY <2>1 DEF All
<1>. QED
  BY <1>4

-----------------------------------------------------------------------------
(* Lists broken at a separator *)

\* One more element, after the lists ls.
Breaks(sep, ls, p) ==
    IF p = sep THEN Append(ls, <<>>) ELSE Append(Front(ls), Append(Last(ls), p))

BrokenAt(sep, s) == FoldLeft(LAMBDA ls, p : Breaks(sep, ls, p), << <<>> >>, s)

\* Some lists, one at least.
Parts(S) == Seq(Seq(S)) \ {<<>>}

\* ms is ls and one more list without elements.
Begun(ls, ms) ==
    /\ Len(ms) = Len(ls) + 1
    /\ \A k \in 1..Len(ls) : ms[k] = ls[k]
    /\ ms[Len(ls) + 1] = <<>>

\* ms is ls with p behind the last list.
Continued(ls, ms, p) ==
    /\ Len(ms) = Len(ls)
    /\ \A k \in 1..(Len(ls) - 1) : ms[k] = ls[k]
    /\ ms[Len(ls)] = Append(ls[Len(ls)], p)

\* What one more element changes.
LEMMA BreaksOnce ==
    ASSUME NEW S, NEW sep, NEW ls \in Parts(S), NEW p \in S
    PROVE  /\ Breaks(sep, ls, p) \in Parts(S)
           /\ p = sep => Begun(ls, Breaks(sep, ls, p))
           /\ p # sep => Continued(ls, Breaks(sep, ls, p), p)
<1>1. ls \in Seq(Seq(S)) /\ Len(ls) \in Nat \ {0} /\ \A k \in 1..Len(ls) : ls[k] \in Seq(S)
  BY SeqFacts, EmptyList DEF Parts
<1>2. PICK n \in Nat \ {0} : n = Len(ls)
  BY <1>1
<1>3. CASE p = sep
  <2>1. <<>> \in Seq(S)
    OBVIOUS
  <2>2. PICK t : t = Append(ls, <<>>)
    OBVIOUS
  <2>3. /\ t \in Seq(Seq(S)) /\ Len(t) = n + 1 /\ t[n + 1] = <<>>
        /\ \A k \in 1..n : t[k] = ls[k]
    BY <1>1, <1>2, <2>1, <2>2, AppendProperties
  <2>4. t # <<>>
    BY <1>2, <2>3, EmptyList
  <2>. QED
    BY <1>2, <1>3, <2>2, <2>3, <2>4 DEF Breaks, Parts, Begun
<1>4. CASE p # sep
  <2>1. PICK u \in Seq(Seq(S)) :
           u = Front(ls) /\ Len(u) = n - 1 /\ \A k \in 1..(n - 1) : u[k] = ls[k]
    <3>1. n - 1 \in 0..Len(ls) /\ Front(ls) = SubSeq(ls, 1, n - 1)
      BY <1>2 DEF Front
    <3>2. PICK u : u = SubSeq(ls, 1, n - 1)
      OBVIOUS
    <3>3. u \in Seq(Seq(S)) /\ Len(u) = n - 1 /\ \A k \in 1..(n - 1) : u[k] = ls[k]
      BY <1>1, <3>1, <3>2, FirstElements
    <3>. QED
      BY <3>1, <3>2, <3>3
  <2>2. PICK x \in Seq(S) : x = Append(ls[n], p)
    <3>1. ls[n] \in Seq(S)
      BY <1>1, <1>2
    <3>. QED
      BY <3>1, AppendProperties
  <2>3. PICK t : t = Append(u, x)
    OBVIOUS
  <2>4. /\ t \in Seq(Seq(S)) /\ Len(t) = n /\ t[n] = x
        /\ \A k \in 1..(n - 1) : t[k] = u[k]
    BY <1>2, <2>1, <2>3, AppendProperties
  <2>5. t # <<>>
    BY <1>2, <2>4, EmptyList
  <2>6. Breaks(sep, ls, p) = t
    BY <1>2, <1>4, <2>1, <2>2, <2>3 DEF Breaks, Last
  <2>. QED
    BY <1>2, <1>4, <2>1, <2>2, <2>4, <2>5, <2>6 DEF Parts, Continued
<1>. QED
  BY <1>3, <1>4

\* h breaks s step by step.
BreaksUp(h, sep, s) ==
    /\ h[0] = << <<>> >>
    /\ \A i \in 1..Len(s) : h[i] = Breaks(sep, h[i - 1], s[i])

\* Breaking a list is that.
LEMMA BrokenSteps ==
    ASSUME NEW S, NEW sep, NEW s \in Seq(S)
    PROVE  \E h \in [0..Len(s) -> Parts(S)] : BreaksUp(h, sep, s) /\ BrokenAt(sep, s) = h[Len(s)]
<1>1. Len(s) \in Nat /\ DOMAIN s = 1..Len(s) /\ \A k \in 1..Len(s) : s[k] \in S
  BY SeqFacts
<1>2. PICK base \in Parts(S) : base = << <<>> >>
  <2>1. <<>> \in Seq(S) /\ << <<>> >> \in Seq(Seq(S)) /\ << <<>> >> # <<>>
    OBVIOUS
  <2>. QED
    BY <2>1 DEF Parts
<1> DEFINE step == [x \in Parts(S) \X S |-> Breaks(sep, x[1], x[2])]
           OneMore(f, d) == IF d = {} THEN base
                            ELSE Breaks(sep, f[d \ {Greatest(d)}], s[Greatest(d)])
           Fold(f) == f = [d \in SUBSET (1..Len(s)) |-> OneMore(f, d)]
<1>3. \A ls \in Parts(S), p \in S : step[<<ls, p>>] = Breaks(sep, ls, p)
  OBVIOUS
<1>4. step \in [Parts(S) \X S -> Parts(S)]
  BY BreaksOnce
<1> HIDE DEF step
<1>5. PICK f \in [SUBSET (1..Len(s)) -> Parts(S)] : FoldsUp(f, s, base, step)
  BY <1>2, <1>4, FoldExists
<1>6. ASSUME NEW d \in SUBSET (1..Len(s)) PROVE f[d] = OneMore(f, d)
  <2>1. CASE d = {}
    BY <1>5, <2>1 DEF FoldsUp
  <2>2. CASE d # {}
    <3>1. PICK k \in 1..Len(s) : k = Greatest(d)
      BY <1>1, <2>2, GreatestIn
    <3>2. PICK e \in SUBSET (1..Len(s)) : e = d \ {k}
      OBVIOUS
    <3>3. f[d] = step[<<f[e], s[k]>>]
      BY <1>5, <2>2, <3>1, <3>2 DEF FoldsUp
    <3>4. f[e] \in Parts(S) /\ s[k] \in S
      BY <1>1
    <3>5. f[d] = Breaks(sep, f[e], s[k])
      BY <1>3, <3>3, <3>4
    <3>. QED
      BY <2>2, <3>1, <3>2, <3>5
  <2>. QED
    BY <2>1, <2>2
<1>7. Fold(f)
  <2> HIDE DEF OneMore
  <2>. QED
    BY <1>5, <1>6
<1>8. PICK F : F = CHOOSE x : Fold(x)
  OBVIOUS
<1>9. Fold(F)
  <2> HIDE DEF Fold
  <2>. QED
    BY <1>7, <1>8
<1>10. BrokenAt(sep, s) = F[1..Len(s)]
  BY <1>1, <1>2, <1>8 DEF BrokenAt, FoldLeft, MapThenFoldSet, Max, Greatest
<1> DEFINE h == [i \in 0..Len(s) |-> F[1..i]]
<1>11. \A d \in SUBSET (1..Len(s)) : F[d] = OneMore(F, d)
  <2> HIDE DEF OneMore
  <2>. QED
    BY <1>9
<1>12. h[0] = base
  <2>1. 1..0 = {} /\ 0 \in 0..Len(s)
    BY <1>1
  <2>2. F[{}] = base
    BY <1>11
  <2>. QED
    BY <2>1, <2>2
<1>13. ASSUME NEW i \in 1..Len(s) PROVE h[i] = Breaks(sep, h[i - 1], s[i])
  <2>1. PICK d \in SUBSET (1..Len(s)) : d = 1..i /\ d # {} /\ Greatest(d) = i
    BY <1>1, FirstPlaces
  <2>2. d \ {i} = 1..(i - 1) /\ i - 1 \in 0..Len(s) /\ i \in 0..Len(s)
    BY <1>1, <2>1, FirstPlaces
  <2>3. F[d] = Breaks(sep, F[d \ {i}], s[i])
    BY <1>11, <2>1
  <2>. QED
    BY <2>1, <2>2, <2>3
<1>14. DOMAIN h = 0..Len(s) /\ h[Len(s)] = F[1..Len(s)] /\ h = [i \in DOMAIN h |-> h[i]]
  BY <1>1
<1> HIDE DEF h, Fold, OneMore
<1>15. ASSUME NEW i \in 0..Len(s) PROVE h[i] \in Parts(S)
  <2> DEFINE I == {j \in 0..Len(s) : h[j] \in Parts(S)}
  <2>1. 0 \in I
    BY <1>1, <1>2, <1>12
  <2>2. ASSUME NEW j \in 1..Len(s), j - 1 \in I PROVE j \in I
    <3>1. h[j - 1] \in Parts(S) /\ s[j] \in S /\ j \in 0..Len(s)
      BY <1>1, <2>2
    <3>2. PICK ls \in Parts(S) : ls = h[j - 1]
      BY <3>1
    <3>3. h[j] = Breaks(sep, ls, s[j])
      BY <1>13, <3>2
    <3>4. PICK q \in S : q = s[j]
      BY <3>1
    <3>5. Breaks(sep, ls, q) \in Parts(S)
      BY BreaksOnce, Zenon
    <3>6. h[j] \in Parts(S)
      BY <3>3, <3>4, <3>5
    <3>. QED
      BY <3>1, <3>6
  <2>3. 0..Len(s) \subseteq I
    <3> HIDE DEF I
    <3>. QED
      BY <1>1, <2>1, <2>2, IntervalInduction
  <2>. QED
    BY <2>3
<1>. QED
  BY <1>2, <1>10, <1>12, <1>13, <1>14, <1>15 DEF BreaksUp

\* Two ways of doing so agree as far as the lists do.
LEMMA SameSteps ==
    ASSUME NEW S, NEW sep, NEW s \in Seq(S), NEW u \in Seq(S), NEW h, NEW f,
           BreaksUp(h, sep, s), BreaksUp(f, sep, u),
           NEW n \in 0..Len(s), n <= Len(u), \A i \in 1..n : s[i] = u[i]
    PROVE  h[n] = f[n]
<1> DEFINE I == {i \in 0..n : h[i] = f[i]}
<1>1. 0 \in I
  BY DEF BreaksUp
<1>2. n \in Nat /\ Len(s) \in Nat /\ Len(u) \in Nat
  BY SeqFacts
<1>3. ASSUME NEW i \in 1..n, i - 1 \in I PROVE i \in I
  <2>1. i \in 1..Len(s) /\ i \in 1..Len(u)
    BY <1>2
  <2>2. h[i] = Breaks(sep, h[i - 1], s[i]) /\ f[i] = Breaks(sep, f[i - 1], u[i])
    BY <2>1 DEF BreaksUp
  <2>3. h[i - 1] = f[i - 1] /\ s[i] = u[i]
    BY <1>3
  <2>. QED
    BY <2>2, <2>3
<1>4. 0..n \subseteq I
  <2> HIDE DEF I
  <2>. QED
    BY <1>1, <1>2, <1>3, IntervalInduction
<1>. QED
  BY <1>2, <1>4

\* Nothing breaks into one list without elements.
LEMMA BrokenNothing ==
    ASSUME NEW sep
    PROVE  BrokenAt(sep, <<>>) = << <<>> >>
<1>0. PICK S : S = {}
  OBVIOUS
<1>1. PICK s \in Seq(S) : s = <<>>
  <2>1. <<>> \in Seq(S)
    OBVIOUS
  <2>. QED
    BY <2>1
<1>2. Len(s) = 0
  BY <1>1
<1>3. \E h \in [0..Len(s) -> Parts(S)] : BreaksUp(h, sep, s) /\ BrokenAt(sep, s) = h[Len(s)]
  BY BrokenSteps, Zenon
<1>4. PICK h : BreaksUp(h, sep, s) /\ BrokenAt(sep, s) = h[Len(s)]
  BY <1>3, Zenon
<1>5. h[0] = << <<>> >>
  BY <1>4 DEF BreaksUp
<1>6. BrokenAt(sep, s) = << <<>> >>
  BY <1>2, <1>4, <1>5
<1>. QED
  BY <1>1, <1>6

\* Breaking a list gives one list at least.
LEMMA BrokenIn ==
    ASSUME NEW S, NEW sep, NEW s \in Seq(S)
    PROVE  BrokenAt(sep, s) \in Parts(S)
<1>1. PICK n \in Nat : n = Len(s)
  BY SeqFacts
<1>2. \E h \in [0..Len(s) -> Parts(S)] : BreaksUp(h, sep, s) /\ BrokenAt(sep, s) = h[Len(s)]
  BY BrokenSteps, Zenon
<1>3. PICK h \in [0..Len(s) -> Parts(S)] : BreaksUp(h, sep, s) /\ BrokenAt(sep, s) = h[Len(s)]
  BY <1>2, Zenon
<1>. QED
  BY <1>1, <1>3

\* One more element breaks what is broken, or lengthens its last list.
LEMMA BrokenAppend ==
    ASSUME NEW S, NEW sep, NEW s \in Seq(S), NEW p \in S
    PROVE  BrokenAt(sep, Append(s, p)) = Breaks(sep, BrokenAt(sep, s), p)
<1>1. PICK u : u = Append(s, p)
  OBVIOUS
<1>2. /\ u \in Seq(S) /\ Len(u) = Len(s) + 1 /\ u[Len(s) + 1] = p
      /\ \A i \in 1..Len(s) : u[i] = s[i]
  BY <1>1, AppendProperties
<1>3. PICK n \in Nat : n = Len(s)
  BY SeqFacts
<1> DEFINE Stepwise(t) ==
             \E h \in [0..Len(t) -> Parts(S)] : BreaksUp(h, sep, t) /\ BrokenAt(sep, t) = h[Len(t)]
<1>4. \A t \in Seq(S) : Stepwise(t)
  BY BrokenSteps, Zenon
<1>5. PICK h \in [0..Len(s) -> Parts(S)] : BreaksUp(h, sep, s) /\ BrokenAt(sep, s) = h[Len(s)]
  BY <1>4, Zenon
<1>6. Stepwise(u)
  <2> HIDE DEF Stepwise
  <2>. QED
    BY <1>2, <1>4
<1>7. PICK f \in [0..Len(u) -> Parts(S)] : BreaksUp(f, sep, u) /\ BrokenAt(sep, u) = f[Len(u)]
  BY <1>6, Zenon
<1>8. Len(s) \in 0..Len(s) /\ Len(s) <= Len(u) /\ \A i \in 1..Len(s) : s[i] = u[i]
  BY <1>2, <1>3
<1>9. h[Len(s)] = f[Len(s)]
  BY <1>2, <1>5, <1>7, <1>8, SameSteps
<1>10. f[n + 1] = Breaks(sep, f[n], p)
  <2>1. n + 1 \in 1..Len(u) /\ (n + 1) - 1 = n
    BY <1>2, <1>3
  <2>2. f[n + 1] = Breaks(sep, f[(n + 1) - 1], u[n + 1])
    BY <1>7, <2>1 DEF BreaksUp
  <2>. QED
    BY <1>2, <1>3, <2>1, <2>2
<1>11. BrokenAt(sep, s) = f[n] /\ BrokenAt(sep, u) = f[n + 1]
  BY <1>2, <1>3, <1>5, <1>7, <1>9
<1>. QED
  BY <1>1, <1>10, <1>11

\* c is a and then b.
Joined(a, b, c) == c = a \o b

\* Appending to two lists put together is appending to the second.
LEMMA AppendJoined ==
    ASSUME NEW S, NEW a \in Seq(S), NEW b \in Seq(S), NEW p \in S, NEW c, Joined(a, b, c)
    PROVE  Joined(a, Append(b, p), Append(c, p))
<1>1. a \o b \in Seq(S) /\ <<p>> \in Seq(S)
  BY ConcatProperties
<1>2. Append(a \o b, p) = (a \o b) \o <<p>>
  BY <1>1, AppendIsConcat
<1>3. Append(b, p) = b \o <<p>>
  BY AppendIsConcat
<1>4. (a \o b) \o <<p>> = a \o (b \o <<p>>)
  BY <1>1, ConcatAssociative
<1>. QED
  BY <1>2, <1>3, <1>4 DEF Joined

\* ms is ls with u put behind the last list.
Lengthened(ls, ms, u) ==
    /\ Len(ms) = Len(ls)
    /\ \A k \in 1..(Len(ls) - 1) : ms[k] = ls[k]
    /\ ms[Len(ls)] = ls[Len(ls)] \o u

\* Elements that are no separator lengthen the last list.
LEMMA BrokenBare ==
    ASSUME NEW S, NEW sep, NEW s \in Seq(S), NEW u \in Seq(S \ {sep})
    PROVE  /\ s \o u \in Seq(S)
           /\ Lengthened(BrokenAt(sep, s), BrokenAt(sep, s \o u), u)
<1>1. PICK B \in Parts(S) : B = BrokenAt(sep, s)
  BY BrokenIn
<1>2. PICK n \in Nat \ {0} : n = Len(B) /\ B[n] \in Seq(S)
  BY SeqFacts, EmptyList DEF Parts
<1> DEFINE I == {t \in Seq(S \ {sep}) : /\ s \o t \in Seq(S)
                                        /\ Lengthened(B, BrokenAt(sep, s \o t), t)}
<1>3. \A t \in Seq(S \ {sep}) : t \in Seq(S)
  OBVIOUS
<1>4. <<>> \in I
  <2>1. s \o <<>> = s /\ B[n] \o <<>> = B[n]
    BY <1>2, ConcatEmptySeq
  <2>. QED
    BY <1>1, <1>2, <2>1 DEF Lengthened
<1>5. ASSUME NEW t \in Seq(S \ {sep}), NEW p \in S \ {sep}, t \in I
      PROVE  Append(t, p) \in I
  <2>1. PICK st \in Seq(S) : st = s \o t
    BY <1>5
  <2>2. s \o Append(t, p) = Append(st, p) /\ Append(st, p) \in Seq(S)
    <3>1. t \in Seq(S) /\ p \in S /\ Joined(s, t, st)
      BY <1>3, <2>1 DEF Joined
    <3>2. Joined(s, Append(t, p), Append(st, p))
      BY <3>1, AppendJoined
    <3>. QED
      BY <3>1, <3>2, AppendProperties DEF Joined
  <2>3. PICK C \in Parts(S) : C = BrokenAt(sep, st)
    BY BrokenIn
  <2>4. BrokenAt(sep, Append(st, p)) = Breaks(sep, C, p)
    BY <2>3, BrokenAppend
  <2>5. Lengthened(B, C, t)
    BY <1>5, <2>1, <2>3
  <2>6. Len(C) = n /\ (\A k \in 1..(n - 1) : C[k] = B[k]) /\ C[n] = B[n] \o t
    BY <1>2, <2>5 DEF Lengthened
  <2>7. PICK D : D = Breaks(sep, C, p)
    OBVIOUS
  <2>8. Continued(C, D, p)
    <3>1. PICK q \in S : q = p /\ q # sep
      OBVIOUS
    <3>2. q # sep => Continued(C, Breaks(sep, C, q), q)
      BY BreaksOnce, Zenon
    <3>. QED
      BY <2>7, <3>1, <3>2
  <2>9. Append(B[n] \o t, p) = B[n] \o Append(t, p)
    <3>1. PICK v \in Seq(S), w \in Seq(S), q \in S : v = t /\ w = B[n] /\ q = p
      BY <1>2, <1>3
    <3>2. PICK c : c = w \o v
      OBVIOUS
    <3>3. Joined(w, v, c)
      BY <3>2 DEF Joined
    <3>4. Joined(w, Append(v, q), Append(c, q))
      BY <3>3, AppendJoined
    <3>. QED
      BY <3>1, <3>2, <3>4 DEF Joined
  <2>10. Lengthened(B, D, Append(t, p))
    BY <1>2, <2>6, <2>8, <2>9 DEF Lengthened, Continued
  <2>11. Append(t, p) \in Seq(S \ {sep})
    BY AppendProperties
  <2>. QED
    BY <2>2, <2>4, <2>7, <2>10, <2>11
<1>6. Seq(S \ {sep}) \subseteq I
  <2> HIDE DEF I
  <2>. QED
    BY <1>4, <1>5, ListInduction
<1>. QED
  BY <1>1, <1>6

\* A list is the pair or the triple of its elements.
LEMMA FewElements ==
    ASSUME NEW S, NEW s \in Seq(S)
    PROVE  /\ Len(s) = 1 => s = <<s[1]>>
           /\ Len(s) = 2 => s = <<s[1], s[2]>>
           /\ Len(s) = 3 => s = <<s[1], s[2], s[3]>>
OBVIOUS

\* Separators between lists that hold none break the whole at these places.
LEMMA BrokenLists ==
    ASSUME NEW S, NEW sep \in S, NEW a \in Seq(S \ {sep}), NEW b \in Seq(S \ {sep})
    PROVE  /\ BrokenAt(sep, a) = <<a>>
           /\ BrokenAt(sep, Append(a, sep)) = <<a, <<>> >>
           /\ BrokenAt(sep, Append(a, sep) \o b) = <<a, b>>
           /\ BrokenAt(sep, Append(Append(a, sep) \o b, sep)) = <<a, b, <<>> >>
<1>1. /\ a \in Seq(S) /\ b \in Seq(S) /\ <<>> \in Seq(S)
      /\ Append(a, sep) \in Seq(S)
  BY AppendProperties
<1>2. <<>> \o a = a /\ <<>> \o b = b
  BY <1>1, ConcatEmptySeq
<1>3. BrokenAt(sep, a) = <<a>>
  <2>1. Lengthened(BrokenAt(sep, <<>>), BrokenAt(sep, <<>> \o a), a)
    BY <1>1, BrokenBare
  <2>2. Lengthened(<< <<>> >>, BrokenAt(sep, a), a)
    BY <1>2, <2>1, BrokenNothing
  <2>3. PICK B \in Seq(Seq(S)) : B = BrokenAt(sep, a)
    BY <1>1, BrokenIn DEF Parts
  <2>4. Len(B) = 1 /\ B[1] = a
    BY <1>2, <2>2, <2>3 DEF Lengthened
  <2>. QED
    BY <2>3, <2>4
<1>4. BrokenAt(sep, Append(a, sep)) = <<a, <<>> >>
  <2>1. PICK B \in Parts(S) : B = <<a>>
    BY <1>1, <1>3, BrokenIn
  <2>2. PICK D : D = Breaks(sep, B, sep)
    OBVIOUS
  <2>3. D \in Parts(S) /\ Begun(B, D)
    BY <2>2, BreaksOnce
  <2>4. D \in Seq(Seq(S)) /\ Len(D) = 2 /\ D[1] = a /\ D[2] = <<>>
    BY <2>1, <2>3 DEF Begun, Parts
  <2>5. BrokenAt(sep, Append(a, sep)) = D
    BY <1>1, <1>3, <2>1, <2>2, BrokenAppend
  <2>. QED
    BY <2>4, <2>5, FewElements
<1>5. BrokenAt(sep, Append(a, sep) \o b) = <<a, b>> /\ Append(a, sep) \o b \in Seq(S)
  <2>1. PICK x \in Seq(S) : x = Append(a, sep)
    BY <1>1
  <2>2. PICK t : t = x \o b
    OBVIOUS
  <2>3. PICK A : A = BrokenAt(sep, x)
    OBVIOUS
  <2>4. t \in Seq(S) /\ Lengthened(A, BrokenAt(sep, t), b)
    BY <2>2, <2>3, BrokenBare
  <2>5. PICK B \in Seq(Seq(S)) : B = BrokenAt(sep, t)
    BY <2>4, BrokenIn DEF Parts
  <2>6. Len(A) = 2 /\ A[1] = a /\ A[2] = <<>>
    BY <1>4, <2>1, <2>3
  <2>7. Len(B) = 2 /\ B[1] = a /\ B[2] = b
    BY <1>2, <2>4, <2>5, <2>6 DEF Lengthened
  <2>8. B = <<a, b>>
    BY <2>7, FewElements
  <2>. QED
    BY <2>1, <2>2, <2>4, <2>5, <2>8
<1>6. BrokenAt(sep, Append(Append(a, sep) \o b, sep)) = <<a, b, <<>> >>
  <2>1. PICK t \in Seq(S) : t = Append(a, sep) \o b
    BY <1>5
  <2>2. PICK B \in Parts(S) : B = <<a, b>> /\ BrokenAt(sep, t) = B
    BY <1>5, <2>1, BrokenIn
  <2>3. PICK D : D = Breaks(sep, B, sep)
    OBVIOUS
  <2>4. D \in Parts(S) /\ Begun(B, D)
    BY <2>3, BreaksOnce
  <2>5. Len(B) = 2 /\ B[1] = a /\ B[2] = b
    BY <2>2
  <2>6. D \in Seq(Seq(S)) /\ Len(D) = 3 /\ D[1] = a /\ D[2] = b /\ D[3] = <<>>
    BY <2>4, <2>5 DEF Begun, Parts
  <2>7. BrokenAt(sep, Append(t, sep)) = Breaks(sep, BrokenAt(sep, t), sep)
    BY BrokenAppend
  <2>. QED
    BY <2>1, <2>2, <2>3, <2>6, <2>7, FewElements
<1>. QED
  BY <1>3, <1>4, <1>5, <1>6

\* ls are the lists, three at most, that make s with separators between them.
Makes(ls, sep, s) ==
    /\ Len(ls) = 1 => s = ls[1]
    /\ Len(ls) = 2 => s = Append(ls[1], sep) \o ls[2]
    /\ Len(ls) = 3 => s = Append(Append(ls[1], sep) \o ls[2], sep) \o ls[3]

\* What a list is broken into makes it.
LEMMA BrokenMakes ==
    ASSUME NEW S, NEW sep \in S, NEW s \in Seq(S)
    PROVE  Makes(BrokenAt(sep, s), sep, s)
<1> DEFINE I == {t \in Seq(S) : Makes(BrokenAt(sep, t), sep, t)}
<1>1. <<>> \in I
  <2>1. << <<>> >>[1] = <<>> /\ Len(<< <<>> >>) = 1 /\ <<>> \in Seq(S)
    OBVIOUS
  <2>2. BrokenAt(sep, <<>>) = << <<>> >>
    BY BrokenNothing
  <2>3. PICK B : B = << <<>> >>
    OBVIOUS
  <2>4. Len(B) = 1 /\ B[1] = <<>>
    BY <2>3
  <2>5. Makes(B, sep, <<>>)
    BY <2>4 DEF Makes
  <2>. QED
    BY <2>2, <2>3, <2>5
<1>2. ASSUME NEW t \in Seq(S), NEW p \in S, t \in I
      PROVE  Append(t, p) \in I
  <2>1. PICK C \in Parts(S) : C = BrokenAt(sep, t)
    BY BrokenIn
  <2>2. PICK D : D = Breaks(sep, C, p)
    OBVIOUS
  <2>3. BrokenAt(sep, Append(t, p)) = D
    BY <2>1, <2>2, BrokenAppend
  <2>4. PICK n \in Nat \ {0} : n = Len(C) /\ \A k \in 1..n : C[k] \in Seq(S)
    BY SeqFacts, EmptyList DEF Parts
  <2>5. /\ p = sep => Begun(C, D)
        /\ p # sep => Continued(C, D, p)
    BY <2>2, BreaksOnce, Zenon
  <2>6. Makes(C, sep, t)
    BY <1>2, <2>1
  <2>7. PICK u \in Seq(S) : u = Append(t, p)
    BY AppendProperties
  <2>8. Makes(D, sep, u)
    <3>1. CASE p = sep
      <4>1. Len(D) = n + 1 /\ D[n + 1] = <<>> /\ \A k \in 1..n : D[k] = C[k]
        BY <2>4, <2>5, <3>1 DEF Begun
      <4>2. u \o <<>> = u
        BY ConcatEmptySeq
      <4>3. CASE n = 1
        <5>1. t = C[1]
          BY <2>4, <2>6, <4>3 DEF Makes
        <5>. QED
          <6>1. Len(D) = 2 /\ D[1] = C[1] /\ D[2] = <<>>
            BY <4>1, <4>3
          <6>2. u = Append(D[1], sep) \o D[2]
            BY <2>7, <3>1, <4>2, <5>1, <6>1
          <6>. QED
            BY <6>1, <6>2 DEF Makes
      <4>4. CASE n = 2
        <5>1. t = Append(C[1], sep) \o C[2]
          BY <2>4, <2>6, <4>4 DEF Makes
        <5>2. Len(D) = 3 /\ D[1] = C[1] /\ D[2] = C[2] /\ D[3] = <<>>
          BY <4>1, <4>4
        <5>3. u = Append(Append(D[1], sep) \o D[2], sep) \o D[3]
          BY <2>7, <3>1, <4>2, <5>1, <5>2
        <5>. QED
          BY <5>2, <5>3 DEF Makes
      <4>5. CASE n \notin {1, 2}
        <5>1. Len(D) \notin {1, 2, 3}
          BY <2>4, <4>1, <4>5
        <5>. QED
          BY <5>1 DEF Makes
      <4>. QED
        BY <4>3, <4>4, <4>5
    <3>2. CASE p # sep
      <4>1. Len(D) = n /\ D[n] = Append(C[n], p) /\ \A k \in 1..(n - 1) : D[k] = C[k]
        BY <2>4, <2>5, <3>2 DEF Continued
      <4>2. CASE n = 1
        <5>1. t = C[1]
          BY <2>4, <2>6, <4>2 DEF Makes
        <5>. QED
          BY <2>7, <4>1, <4>2, <5>1 DEF Makes
      <4>3. CASE n = 2
        <5>1. PICK x \in Seq(S) : x = Append(C[1], sep)
          <6>1. C[1] \in Seq(S)
            BY <2>4, <4>3
          <6>. QED
            BY <6>1, AppendProperties
        <5>2. t = x \o C[2]
          BY <2>4, <2>6, <4>3, <5>1 DEF Makes
        <5>3. D[1] = C[1] /\ C[2] \in Seq(S)
          BY <2>4, <4>1, <4>3
        <5>4. Append(x \o C[2], p) = x \o Append(C[2], p)
          <6>1. PICK y \in Seq(S) : y = C[2]
            BY <5>3
          <6>2. PICK c : c = x \o y
            OBVIOUS
          <6>3. Joined(x, y, c)
            BY <6>2 DEF Joined
          <6>4. Joined(x, Append(y, p), Append(c, p))
            BY <6>3, AppendJoined
          <6>. QED
            BY <6>1, <6>2, <6>4 DEF Joined
        <5>5. Len(D) = 2 /\ D[2] = Append(C[2], p)
          BY <4>1, <4>3
        <5>6. u = Append(D[1], sep) \o D[2]
          BY <2>7, <5>1, <5>2, <5>3, <5>4, <5>5
        <5>. QED
          BY <5>5, <5>6 DEF Makes
      <4>4. CASE n = 3
        <5>1. PICK x \in Seq(S) : x = Append(Append(C[1], sep) \o C[2], sep)
          <6>1. C[1] \in Seq(S) /\ C[2] \in Seq(S)
            BY <2>4, <4>4
          <6>2. PICK y \in Seq(S) : y = Append(C[1], sep)
            BY <6>1, AppendProperties
          <6>3. PICK z \in Seq(S) : z = y \o C[2]
            BY <6>1, ConcatProperties
          <6>4. Append(z, sep) \in Seq(S)
            BY AppendProperties
          <6>. QED
            BY <6>2, <6>3, <6>4
        <5>2. t = x \o C[3]
          BY <2>4, <2>6, <4>4, <5>1 DEF Makes
        <5>3. D[1] = C[1] /\ D[2] = C[2] /\ C[3] \in Seq(S)
          BY <2>4, <4>1, <4>4
        <5>4. Append(x \o C[3], p) = x \o Append(C[3], p)
          <6>1. PICK y \in Seq(S) : y = C[3]
            BY <5>3
          <6>2. PICK c : c = x \o y
            OBVIOUS
          <6>3. Joined(x, y, c)
            BY <6>2 DEF Joined
          <6>4. Joined(x, Append(y, p), Append(c, p))
            BY <6>3, AppendJoined
          <6>. QED
            BY <6>1, <6>2, <6>4 DEF Joined
        <5>5. Len(D) = 3 /\ D[3] = Append(C[3], p)
          BY <4>1, <4>4
        <5>6. u = Append(Append(D[1], sep) \o D[2], sep) \o D[3]
          BY <2>7, <5>1, <5>2, <5>3, <5>4, <5>5
        <5>. QED
          BY <5>5, <5>6 DEF Makes
      <4>5. CASE n \notin {1, 2, 3}
        BY <4>1, <4>5 DEF Makes
      <4>. QED
        BY <4>2, <4>3, <4>4, <4>5
    <3>. QED
      BY <3>1, <3>2
  <2>. QED
    BY <2>3, <2>7, <2>8
<1>3. Seq(S) \subseteq I
  <2> HIDE DEF I
  <2>. QED
    BY <1>1, <1>2, ListInduction
<1>. QED
  BY <1>3

-----------------------------------------------------------------------------
(* Lists put one behind the other *)

\* h[i] is the first i lists of ms put one behind the other.
PutUp(h, ms) ==
    /\ h[0] = <<>>
    /\ \A i \in 1..Len(ms) : h[i] = h[i - 1] \o ms[i]

\* FlattenSeq does that.
LEMMA FlattenSteps ==
    ASSUME NEW S, NEW ms \in Seq(Seq(S))
    PROVE  \E h \in [0..Len(ms) -> Seq(S)] : PutUp(h, ms) /\ FlattenSeq(ms) = h[Len(ms)]
<1>1. Len(ms) \in Nat /\ \A k \in 1..Len(ms) : ms[k] \in Seq(S)
  BY SeqFacts
<1>2. PICK n \in Nat : n = Len(ms)
  BY <1>1
<1>3. PICK step \in [Seq(S) \X Seq(S) -> Seq(S)] :
         \A a, b \in Seq(S) : step[<<a, b>>] = a \o b
  <2>1. PICK step : step = [x \in Seq(S) \X Seq(S) |-> x[1] \o x[2]]
    OBVIOUS
  <2>2. \A x \in Seq(S) \X Seq(S) : x[1] \o x[2] \in Seq(S)
    BY ConcatProperties
  <2>3. step \in [Seq(S) \X Seq(S) -> Seq(S)]
    BY <2>1, <2>2
  <2>4. \A a, b \in Seq(S) : step[<<a, b>>] = a \o b
    BY <2>1
  <2>. QED
    BY <2>3, <2>4
<1>4. PICK base \in Seq(S) : base = <<>>
  <2>1. <<>> \in Seq(S)
    OBVIOUS
  <2>. QED
    BY <2>1
<1>5. PICK f \in [SUBSET (1..Len(ms)) -> Seq(S)] : FoldsUp(f, ms, base, step)
  BY FoldExists
<1> DEFINE h == [i \in 0..n |-> f[1..i]]
<1>6. h \in [0..n -> Seq(S)]
  <2>1. \A i \in 0..n : 1..i \in SUBSET (1..n)
    OBVIOUS
  <2>. QED
    BY <1>2, <2>1
<1>7. h[0] = <<>>
  <2>1. {} \in SUBSET (1..Len(ms)) /\ 1..0 = {} /\ 0 \in 0..n
    OBVIOUS
  <2>2. f[{}] = base
    BY <1>5, <2>1 DEF FoldsUp
  <2>. QED
    BY <1>4, <2>1, <2>2
<1>8. ASSUME NEW i \in 1..n PROVE h[i] = h[i - 1] \o ms[i]
  <2>1. PICK d \in SUBSET (1..Len(ms)) : d = 1..i /\ d # {} /\ Greatest(d) = i
    BY <1>2, FirstPlaces
  <2>2. d \ {i} = 1..(i - 1) /\ i - 1 \in 0..n /\ i \in 0..n
    BY <2>1, FirstPlaces
  <2>3. f[d] = step[<<f[d \ {i}], ms[i]>>]
    BY <1>5, <2>1 DEF FoldsUp
  <2>4. f[d \ {i}] \in Seq(S) /\ ms[i] \in Seq(S)
    BY <1>1, <1>2
  <2>5. f[d] = f[d \ {i}] \o ms[i]
    BY <1>3, <2>3, <2>4
  <2>. QED
    BY <2>1, <2>2, <2>5
<1> HIDE DEF h
<1>9. PutUp(h, ms)
  BY <1>2, <1>7, <1>8 DEF PutUp
<1>10. FlattenSeq(ms) = h[n]
  <2>1. CASE n = 0
    <3>1. ms = <<>>
      BY <1>2, <2>1, EmptyList
    <3>2. FlattenSeq(ms) = ms
      BY <1>2, <2>1 DEF FlattenSeq
    <3>. QED
      BY <1>7, <2>1, <3>1, <3>2
  <2>2. CASE n # 0
    <3> DEFINE Flat(g) == g = [i \in 1..n |-> IF i = 1 THEN ms[i] ELSE g[i - 1] \o ms[i]]
    <3>1. PICK g : g = [i \in 1..n |-> h[i]]
      OBVIOUS
    <3>2. ASSUME NEW i \in 1..n PROVE g[i] = IF i = 1 THEN ms[i] ELSE g[i - 1] \o ms[i]
      <4>1. CASE i = 1
        <5>1. h[1] = <<>> \o ms[1] /\ ms[1] \in Seq(S)
          <6>1. i - 1 = 0
            BY <4>1
          <6>2. h[i] = h[i - 1] \o ms[i]
            BY <1>8
          <6>3. ms[i] \in Seq(S)
            BY <1>1, <1>2
          <6>. QED
            BY <1>7, <4>1, <6>1, <6>2, <6>3
        <5>2. h[1] = ms[1]
          BY <5>1, ConcatEmptySeq
        <5>. QED
          BY <3>1, <4>1, <5>2
      <4>2. CASE i # 1
        <5>1. i - 1 \in 1..n
          BY <4>2
        <5>. QED
          BY <1>8, <3>1, <4>2, <5>1
      <4>. QED
        BY <4>1, <4>2
    <3>3. Flat(g)
      BY <3>1, <3>2
    <3>4. PICK G : G = CHOOSE x : Flat(x)
      OBVIOUS
    <3>5. Flat(G)
      <4> HIDE DEF Flat
      <4>. QED
        BY <3>3, <3>4
    <3>6. FlattenSeq(ms) = G[n]
      BY <1>2, <2>2, <3>4 DEF FlattenSeq
    <3>7. \A i \in 1..n : G[i] = IF i = 1 THEN ms[i] ELSE G[i - 1] \o ms[i]
      BY <3>5
    <3> HIDE DEF Flat
    <3> DEFINE I == {i \in 0..n : i # 0 => G[i] = h[i]}
    <3>8. 0 \in I
      OBVIOUS
    <3>9. ASSUME NEW i \in 1..n, i - 1 \in I PROVE i \in I
      <4>1. i \in 0..n
        OBVIOUS
      <4>2. CASE i = 1
        <5>1. G[1] = ms[1] /\ g[1] = ms[1] /\ g[1] = h[1]
          BY <3>1, <3>2, <3>7, <4>2
        <5>. QED
          BY <4>1, <4>2, <5>1
      <4>3. CASE i # 1
        <5>1. i - 1 # 0 /\ G[i - 1] = h[i - 1]
          BY <3>9, <4>3
        <5>2. G[i] = G[i - 1] \o ms[i] /\ h[i] = h[i - 1] \o ms[i]
          BY <1>8, <3>7, <4>3
        <5>. QED
          BY <4>1, <5>1, <5>2
      <4>. QED
        BY <4>2, <4>3
    <3>10. 0..n \subseteq I
      <4> HIDE DEF I
      <4>. QED
        BY <3>8, <3>9, IntervalInduction
    <3>11. n \in 0..n
      OBVIOUS
    <3>. QED
      BY <2>2, <3>6, <3>10, <3>11
  <2>. QED
    BY <2>1, <2>2
<1>. QED
  BY <1>2, <1>6, <1>9, <1>10

\* It makes no difference how three lists are put behind each other.
Associated(a, b, c) == (a \o b) \o c = a \o (b \o c)

\* Of any three this is so.
LEMMA AllAssociated ==
    ASSUME NEW S, NEW a \in Seq(S), NEW b \in Seq(S), NEW c \in Seq(S)
    PROVE  Associated(a, b, c)
BY ConcatAssociative DEF Associated

\* s is u with another list over S behind it.
Prefixed(S, u, s) == \E rest \in Seq(S) : s = u \o rest

\* It stays so with more behind it.
LEMMA PrefixedOn ==
    ASSUME NEW S, NEW u \in Seq(S), NEW s \in Seq(S), Prefixed(S, u, s), NEW v \in Seq(S)
    PROVE  Prefixed(S, u, s \o v)
<1>1. PICK rest \in Seq(S) : s = u \o rest
  BY DEF Prefixed
<1>2. PICK more \in Seq(S) : more = rest \o v
  BY ConcatProperties
<1>3. Associated(u, rest, v)
  BY AllAssociated
<1>4. s \o v = u \o more
  BY <1>1, <1>2, <1>3 DEF Associated
<1>. QED
  BY <1>4 DEF Prefixed

\* Lists behind each other begin with the first of them, and with the first two.
LEMMA FlattenBegins ==
    ASSUME NEW S, NEW ms \in Seq(Seq(S)), NEW a, a = ms[1], NEW b, b = ms[2], NEW c, c = a \o b
    PROVE  /\ FlattenSeq(ms) \in Seq(S)
           /\ Len(ms) >= 1 => Prefixed(S, a, FlattenSeq(ms))
           /\ Len(ms) >= 2 => Prefixed(S, c, FlattenSeq(ms))
<1>1. PICK n \in Nat : n = Len(ms)
  BY SeqFacts
<1>2. PICK h \in [0..n -> Seq(S)] : PutUp(h, ms) /\ FlattenSeq(ms) = h[n]
  BY <1>1, FlattenSteps
<1>3. \A i \in 1..n : ms[i] \in Seq(S)
  BY <1>1, SeqFacts
<1>4. h[0] = <<>> /\ \A i \in 1..n : h[i] = h[i - 1] \o ms[i]
  BY <1>1, <1>2 DEF PutUp
<1>5. n \in 0..n /\ h[n] \in Seq(S)
  BY <1>2
<1>6. ASSUME NEW j \in 1..n, NEW u \in Seq(S), h[j] = u
      PROVE  Prefixed(S, u, h[n])
  <2> DEFINE I == {i \in 0..n : i >= j => Prefixed(S, u, h[i])}
  <2>1. 0 \in I
    OBVIOUS
  <2>2. ASSUME NEW i \in 1..n, i - 1 \in I PROVE i \in I
    <3>1. i \in 0..n /\ i - 1 \in 0..n
      OBVIOUS
    <3>2. CASE i = j
      <4>1. <<>> \in Seq(S) /\ u \o <<>> = u
        BY ConcatEmptySeq
      <4>2. Prefixed(S, u, h[i])
        BY <1>6, <3>2, <4>1 DEF Prefixed
      <4>. QED
        BY <3>1, <4>2
    <3>3. CASE i > j
      <4>1. Prefixed(S, u, h[i - 1])
        BY <2>2, <3>3
      <4>2. PICK s \in Seq(S), v \in Seq(S) : s = h[i - 1] /\ v = ms[i]
        BY <1>3, <3>1
      <4>3. Prefixed(S, u, s \o v)
        BY <4>1, <4>2, PrefixedOn
      <4>4. h[i] = s \o v
        BY <1>4, <4>2
      <4>. QED
        BY <3>1, <4>3, <4>4
    <3>4. CASE i < j
      BY <3>1, <3>4
    <3>. QED
      BY <3>2, <3>3, <3>4
  <2>3. 0..n \subseteq I
    <3> HIDE DEF I
    <3>. QED
      BY <2>1, <2>2, IntervalInduction
  <2>. QED
    BY <1>5, <2>3
<1>7. ASSUME n >= 1 PROVE a \in Seq(S) /\ h[1] = a
  <2>1. 1 \in 1..n /\ 1 - 1 = 0
    BY <1>7
  <2>2. a \in Seq(S) /\ h[1] = h[0] \o a
    BY <1>3, <1>4, <2>1
  <2>3. <<>> \o a = a
    BY <2>2, ConcatEmptySeq
  <2>. QED
    BY <1>4, <2>2, <2>3
<1>8. n >= 1 => Prefixed(S, a, h[n])
  <2> SUFFICES ASSUME n >= 1 PROVE Prefixed(S, a, h[n])
    OBVIOUS
  <2>1. 1 \in 1..n
    OBVIOUS
  <2>. QED
    BY <1>6, <1>7, <2>1
<1>9. n >= 2 => Prefixed(S, c, h[n])
  <2> SUFFICES ASSUME n >= 2 PROVE Prefixed(S, c, h[n])
    OBVIOUS
  <2>1. 2 \in 1..n /\ 2 - 1 = 1 /\ n >= 1
    OBVIOUS
  <2>2. b \in Seq(S) /\ h[2] = h[1] \o b
    BY <1>3, <1>4, <2>1
  <2>3. c \in Seq(S)
    BY <1>7, <2>1, <2>2, ConcatProperties
  <2>4. h[2] = c
    BY <1>7, <2>1, <2>2
  <2>. QED
    BY <1>6, <2>1, <2>3, <2>4
<1>. QED
  BY <1>1, <1>2, <1>5, <1>8, <1>9
=============================================================================
