-------------------------- MODULE WakeRouterProofs --------------------------
(* Proofs about WakeRouter, for any set of keys, any cap on what is held and  *)
(* any bounds: an urgent trigger is counted until it is announced, its        *)
(* payload is kept, and every variable keeps its type.                        *)
(*                                                                            *)
(* Totals are sums over a finite set of keys; the library folds with a        *)
(* CHOOSEn recursive function, so the first sections show what sums do.  Then *)
(* come the two halves of the invariant: LineInv, where a trigger waits and   *)
(* what is on disk of it, and OweInv, how many of them there are.             *)
EXTENDS WakeRouter, NaturalsInduction, WellFoundedInduction, FiniteSetTheorems,
        SequenceTheorems, TLAPS

-----------------------------------------------------------------------------
(* Sums over the keys. *)

\* A set of naturals has a least member.
LEMMA LeastOf ==
    ASSUME NEW S, S \subseteq Nat, S # {}
    PROVE  \E m \in S : \A y \in S : m <= y
<1> DEFINE Less == {ss \in Nat \X Nat : ss[1] < ss[2]}
<1>1. IsWellFoundedOn(Less, Nat)
  BY NatLessThanWellFounded DEF OpToRel
<1>2. PICK x \in S : \A y \in S : <<y, x>> \notin Less
  BY <1>1, WFMin
<1>3. \A y \in S : x <= y
  <2>1. SUFFICES ASSUME NEW y \in S PROVE ~ (y < x)
    OBVIOUS
  <2>2. <<y, x>> \in Nat \X Nat
    BY <2>1
  <2> QED BY <1>2, <2>1, <2>2
<1> QED BY <1>3

\* What the fold does: it takes one key after the other.
One(S) == CHOOSE x \in S : TRUE
Sums(it, f) ==
    it = [S \in SUBSET Keys |-> IF S = {} THEN 0 ELSE f[One(S)] + it[S \ {One(S)}]]

\* CHOOSE takes a member.
LEMMA OneIsIn == ASSUME NEW S, S # {} PROVE One(S) \in S
  BY DEF One

\* The same for the sets of at most n keys.
Small(n) == {S \in SUBSET Keys : Cardinality(S) <= n}
SumsTo(it, f, n) ==
    it = [S \in Small(n) |-> IF S = {} THEN 0 ELSE f[One(S)] + it[S \ {One(S)}]]

\* A set of keys is finite, and one smaller without One of it.
LEMMA SizesOf ==
    ASSUME IsFiniteSet(Keys), NEW S \in SUBSET Keys
    PROVE  /\ IsFiniteSet(S) /\ Cardinality(S) \in Nat /\ (Cardinality(S) = 0 <=> S = {})
           /\ S # {} => S \ {One(S)} \in SUBSET Keys
                        /\ Cardinality(S \ {One(S)}) = Cardinality(S) - 1
  BY FS_Subset, FS_CardinalityType, FS_EmptySet, FS_RemoveElement, OneIsIn

\* There is such a function for the sets of at most n keys.
LEMMA SumsAreMade ==
    ASSUME IsFiniteSet(Keys), NEW f, NEW n \in Nat
    PROVE  \E it : SumsTo(it, f, n)
<1> DEFINE Bad == {m \in Nat : ~ \E it : SumsTo(it, f, m)}
<1>1. SUFFICES ASSUME Bad # {} PROVE FALSE
  OBVIOUS
<1>2. PICK m \in Bad : \A y \in Bad : m <= y
  BY <1>1, LeastOf
<1>3. CASE m = 0
  <2> DEFINE it == [S \in Small(0) |-> 0]
             jt == [S \in Small(0) |-> IF S = {} THEN 0 ELSE f[One(S)] + it[S \ {One(S)}]]
  <2>1. ASSUME NEW S \in Small(0) PROVE S = {}
    <3>1. S \in SUBSET Keys /\ Cardinality(S) <= 0
      BY DEF Small
    <3>2. Cardinality(S) \in Nat /\ (Cardinality(S) = 0 <=> S = {})
      BY <3>1, SizesOf
    <3> QED BY <3>1, <3>2
  <2>2. it = jt
    BY <2>1
  <2>3. SumsTo(it, f, 0)
    BY <2>2 DEF SumsTo
  <2> QED BY <1>2, <1>3, <2>3
<1>4. CASE m # 0
  <2>1. m - 1 \in Nat /\ m - 1 \notin Bad
    BY <1>2, <1>4
  <2>2. PICK it : SumsTo(it, f, m - 1)
    BY <2>1
  <2> DEFINE Value(g, S) == IF S = {} THEN 0 ELSE f[One(S)] + g[S \ {One(S)}]
             jt == [S \in Small(m) |-> Value(it, S)]
             kt == [S \in Small(m) |-> Value(jt, S)]
  <2>3. \A S \in Small(m - 1) : S \in Small(m) /\ jt[S] = it[S]
    <3>1. SUFFICES ASSUME NEW S \in Small(m - 1) PROVE S \in Small(m) /\ jt[S] = it[S]
      OBVIOUS
    <3>2. S \in Small(m)
      <4>1. S \in SUBSET Keys /\ Cardinality(S) <= m - 1
        BY DEF Small
      <4>2. Cardinality(S) \in Nat
        BY <4>1, SizesOf
      <4> QED BY <2>1, <4>1, <4>2 DEF Small
    <3>3. it[S] = Value(it, S)
      BY <2>2 DEF SumsTo
    <3> QED BY <3>2, <3>3
  <2>4. \A S \in Small(m) : S # {} => S \ {One(S)} \in Small(m - 1)
    BY <2>1, SizesOf DEF Small
  <2>5. \A S \in Small(m) : Value(it, S) = Value(jt, S)
    BY <2>3, <2>4
  <2> HIDE DEF Value
  <2>6. jt = kt
    BY <2>5
  <2>7. SumsTo(jt, f, m)
    BY <2>6 DEF SumsTo, Value
  <2> QED BY <1>2, <2>7
<1> QED BY <1>3, <1>4

\* There is one for all sets of keys.
LEMMA SumsExist ==
    ASSUME IsFiniteSet(Keys), NEW f
    PROVE  Sums(CHOOSE it : Sums(it, f), f)
<1> DEFINE n == Cardinality(Keys)
<1>1. n \in Nat
  BY FS_CardinalityType
<1>2. Small(n) = SUBSET Keys
  BY FS_Subset DEF Small
<1>3. PICK it : SumsTo(it, f, n)
  BY <1>1, SumsAreMade
<1> HIDE DEF n
<1>4. Sums(it, f)
  BY <1>2, <1>3 DEF Sums, SumsTo
<1> QED BY <1>4

\* What a set of keys counts for.
SumOf(f, S) == (CHOOSE it : Sums(it, f))[S]

\* Total is the sum over all keys.
LEMMA TotalIsASum ==
    ASSUME NEW f \in [Keys -> Nat]
    PROVE  Total(f) = SumOf(f, Keys)
<1>1. DOMAIN f = Keys
  OBVIOUS
<1> QED
  BY Zenon, <1>1 DEF Total, FoldFunction, FoldFunctionOnSet, MapThenFoldSet, Sums, SumOf, One

\* The sum of a set, from that of the set without One of it.
LEMMA SumUnfolds ==
    ASSUME IsFiniteSet(Keys), NEW f, NEW S \in SUBSET Keys
    PROVE  SumOf(f, S) = IF S = {} THEN 0 ELSE f[One(S)] + SumOf(f, S \ {One(S)})
<1> DEFINE it == CHOOSE it : Sums(it, f)
<1>1. Sums(it, f)
  BY SumsExist
<1> HIDE DEF it
<1>2. it[S] = IF S = {} THEN 0 ELSE f[One(S)] + it[S \ {One(S)}]
  BY <1>1 DEF Sums
<1> QED BY <1>2 DEF SumOf, it

\* Nothing sums to 0.
LEMMA SumOfEmpty == ASSUME IsFiniteSet(Keys), NEW f PROVE SumOf(f, {}) = 0
  BY SumUnfolds

\* Among some sets of keys one has no other inside it.
LEMMA SmallestOf ==
    ASSUME IsFiniteSet(Keys), NEW B \in SUBSET (SUBSET Keys), B # {}
    PROVE  \E S \in B : \A T \in SUBSET S : T # S => T \notin B
<1> DEFINE Sizes == {Cardinality(S) : S \in B}
<1>1. Sizes \subseteq Nat /\ Sizes # {}
  <2>1. \A S \in B : Cardinality(S) \in Nat
    BY SizesOf
  <2> QED BY <2>1
<1>2. PICK m \in Sizes : \A y \in Sizes : m <= y
  BY <1>1, LeastOf
<1>3. PICK S \in B : Cardinality(S) = m
  BY <1>2
<1>4. ASSUME NEW T \in SUBSET S, T # S, T \in B PROVE FALSE
  <2>1. IsFiniteSet(S) /\ Cardinality(S) \in Nat /\ Cardinality(T) \in Nat
    BY SizesOf
  <2>2. Cardinality(T) < Cardinality(S)
    BY <1>4, <2>1, FS_Subset
  <2> QED BY <1>2, <1>3, <1>4, <2>1, <2>2
<1> QED BY <1>4

\* Counts by key.
Nums == [Keys -> Nat]

\* A sum of naturals is one.
LEMMA SumIsNat ==
    ASSUME IsFiniteSet(Keys), NEW f \in Nums, NEW A \in SUBSET Keys
    PROVE  SumOf(f, A) \in Nat
<1> DEFINE Bad == {S \in SUBSET Keys : SumOf(f, S) \notin Nat}
<1>1. SUFFICES ASSUME Bad # {} PROVE FALSE
  OBVIOUS
<1>2. PICK S \in Bad : \A T \in SUBSET S : T # S => T \notin Bad
  BY <1>1, SmallestOf
<1>3. S \in SUBSET Keys /\ SumOf(f, S) \notin Nat
  OBVIOUS
<1>4. S # {}
  BY <1>3, SumOfEmpty
<1>5. One(S) \in S /\ f[One(S)] \in Nat
  BY <1>3, <1>4, OneIsIn DEF Nums
<1>6. SumOf(f, S \ {One(S)}) \in Nat
  BY <1>2, <1>3, <1>5
<1>7. SumOf(f, S) = f[One(S)] + SumOf(f, S \ {One(S)})
  BY <1>3, <1>4, SumUnfolds
<1> QED BY <1>3, <1>5, <1>6, <1>7

(* Keys may be counted in any order. *)
LEMMA SumTakesAny ==
    ASSUME IsFiniteSet(Keys), NEW f \in Nums, NEW A \in SUBSET Keys, NEW a \in A
    PROVE  SumOf(f, A) = f[a] + SumOf(f, A \ {a})
<1> DEFINE Bad == {S \in SUBSET Keys : \E k \in S : SumOf(f, S) # f[k] + SumOf(f, S \ {k})}
<1>1. SUFFICES ASSUME Bad # {} PROVE FALSE
  OBVIOUS
<1>2. PICK S \in Bad : \A T \in SUBSET S : T # S => T \notin Bad
  BY <1>1, SmallestOf
<1>3. PICK k \in S : SumOf(f, S) # f[k] + SumOf(f, S \ {k})
  BY <1>2
<1> DEFINE c == One(S)
<1>4. /\ S \in SUBSET Keys /\ c \in S
      /\ SumOf(f, S) = f[c] + SumOf(f, S \ {c})
  BY OneIsIn, SumUnfolds
<1> HIDE DEF c
<1>5. k # c
  BY <1>3, <1>4
<1>6. SumOf(f, S \ {c}) = f[k] + SumOf(f, (S \ {c}) \ {k})
  BY <1>2, <1>4, <1>5
<1>7. SumOf(f, S \ {k}) = f[c] + SumOf(f, (S \ {k}) \ {c})
  BY <1>2, <1>4, <1>5
<1>8. (S \ {k}) \ {c} = (S \ {c}) \ {k}
  OBVIOUS
<1>9. f[c] \in Nat /\ f[k] \in Nat /\ SumOf(f, (S \ {c}) \ {k}) \in Nat
  BY <1>4, SumIsNat DEF Nums
<1> QED BY SMTT(60), <1>3, <1>4, <1>6, <1>7, <1>8, <1>9

\* Sums of two counts add up.
LEMMA SumAdds ==
    ASSUME IsFiniteSet(Keys), NEW f \in Nums, NEW g \in Nums, NEW h \in Nums,
           \A k \in Keys : h[k] = f[k] + g[k], NEW A \in SUBSET Keys
    PROVE  SumOf(h, A) = SumOf(f, A) + SumOf(g, A)
<1> DEFINE Bad == {S \in SUBSET Keys : SumOf(h, S) # SumOf(f, S) + SumOf(g, S)}
<1>1. SUFFICES ASSUME Bad # {} PROVE FALSE
  OBVIOUS
<1>2. PICK S \in Bad : \A T \in SUBSET S : T # S => T \notin Bad
  BY <1>1, SmallestOf
<1>3. S \in SUBSET Keys /\ SumOf(h, S) # SumOf(f, S) + SumOf(g, S)
  OBVIOUS
<1>4. S # {}
  BY <1>3, SumOfEmpty
<1> DEFINE c == One(S)
<1>5. c \in S
  BY <1>4, OneIsIn
<1> HIDE DEF c
<1>6. SumOf(h, S \ {c}) = SumOf(f, S \ {c}) + SumOf(g, S \ {c})
  BY <1>2, <1>3, <1>5
<1>7. /\ SumOf(h, S) = h[c] + SumOf(h, S \ {c})
      /\ SumOf(f, S) = f[c] + SumOf(f, S \ {c})
      /\ SumOf(g, S) = g[c] + SumOf(g, S \ {c})
  BY <1>3, <1>5, SumTakesAny
<1>8. /\ f[c] \in Nat /\ g[c] \in Nat /\ h[c] = f[c] + g[c]
      /\ SumOf(f, S \ {c}) \in Nat /\ SumOf(g, S \ {c}) \in Nat
  BY <1>3, <1>5, SumIsNat DEF Nums
<1> QED BY <1>3, <1>6, <1>7, <1>8

\* Zeros sum to 0.
LEMMA SumOfNothing ==
    ASSUME IsFiniteSet(Keys), NEW f \in Nums, NEW A \in SUBSET Keys, \A k \in A : f[k] = 0
    PROVE  SumOf(f, A) = 0
<1> DEFINE Bad == {S \in SUBSET A : SumOf(f, S) # 0}
<1>1. SUFFICES ASSUME Bad # {} PROVE FALSE
  OBVIOUS
<1>2. PICK S \in Bad : \A T \in SUBSET S : T # S => T \notin Bad
  BY <1>1, SmallestOf
<1>3. S \in SUBSET Keys /\ S \in SUBSET A /\ SumOf(f, S) # 0
  OBVIOUS
<1>4. S # {}
  BY <1>3, SumOfEmpty
<1>5. One(S) \in S /\ f[One(S)] = 0
  BY <1>3, <1>4, OneIsIn
<1>6. SumOf(f, S \ {One(S)}) = 0
  BY <1>2, <1>3, <1>5
<1>7. SumOf(f, S) = f[One(S)] + SumOf(f, S \ {One(S)})
  BY <1>3, <1>4, SumUnfolds
<1> QED BY <1>3, <1>5, <1>6, <1>7

-----------------------------------------------------------------------------
(* What Total returns. *)

\* A total is a natural.
LEMMA TotalIsNat == ASSUME IsFiniteSet(Keys), NEW f \in Nums PROVE Total(f) \in Nat
  BY TotalIsASum, SumIsNat DEF Nums

\* Zeros total 0.
LEMMA TotalOfNothing ==
    ASSUME IsFiniteSet(Keys), NEW f \in Nums, \A k \in Keys : f[k] = 0
    PROVE  Total(f) = 0
  BY TotalIsASum, SumOfNothing DEF Nums

\* Totals of two counts add up.
LEMMA TotalAdds ==
    ASSUME IsFiniteSet(Keys), NEW f \in Nums, NEW g \in Nums, NEW h \in Nums,
           \A k \in Keys : h[k] = f[k] + g[k]
    PROVE  Total(h) = Total(f) + Total(g)
<1>1. SumOf(h, Keys) = SumOf(f, Keys) + SumOf(g, Keys)
  BY SumAdds
<1> QED BY <1>1, TotalIsASum DEF Nums

\* The total of a single key is its count.
LEMMA TotalOfOne ==
    ASSUME IsFiniteSet(Keys), NEW f \in Nums, NEW k \in Keys, \A j \in Keys \ {k} : f[j] = 0
    PROVE  Total(f) = f[k]
<1>1. SumOf(f, Keys) = f[k] + SumOf(f, Keys \ {k})
  BY SumTakesAny
<1>2. SumOf(f, Keys \ {k}) = 0
  BY SumOfNothing
<1>3. f[k] \in Nat
  BY DEF Nums
<1> QED BY <1>1, <1>2, <1>3, TotalIsASum DEF Nums

\* One key counts n more.
LEMMA TotalGrows ==
    ASSUME IsFiniteSet(Keys), NEW f \in Nums, NEW k \in Keys, NEW n \in Nat, NEW h,
           h = [f EXCEPT ![k] = @ + n]
    PROVE  h \in Nums /\ Total(h) = Total(f) + n
<1> DEFINE g == [j \in Keys |-> IF j = k THEN n ELSE 0]
<1>1. g \in Nums /\ h \in Nums /\ \A j \in Keys : h[j] = f[j] + g[j]
  BY DEF Nums
<1>2. g[k] = n /\ \A j \in Keys \ {k} : g[j] = 0
  OBVIOUS
<1> HIDE DEF g
<1>3. Total(g) = n
  BY <1>1, <1>2, TotalOfOne
<1> QED BY ZenonT(60), <1>1, <1>3, TotalAdds

\* A total is split by any set of keys.
Among(f, S) == [k \in Keys |-> IF k \in S THEN f[k] ELSE 0]

\* The total is that of some keys and that of the others.
LEMMA TotalSplits ==
    ASSUME IsFiniteSet(Keys), NEW f \in Nums, NEW S
    PROVE  /\ Among(f, S) \in Nums /\ Among(f, Keys \ S) \in Nums
           /\ Total(f) = Total(Among(f, S)) + Total(Among(f, Keys \ S))
<1>1. Among(f, S) \in Nums /\ Among(f, Keys \ S) \in Nums
  BY DEF Among, Nums
<1>2. \A k \in Keys : f[k] = Among(f, S)[k] + Among(f, Keys \ S)[k]
  BY DEF Among, Nums
<1> QED BY <1>1, <1>2, TotalAdds

\* Larger counts, larger total.
LEMMA TotalIsMonotone ==
    ASSUME IsFiniteSet(Keys), NEW f \in Nums, NEW h \in Nums, \A k \in Keys : f[k] <= h[k]
    PROVE  Total(f) <= Total(h)
<1> DEFINE g == [k \in Keys |-> h[k] - f[k]]
<1>1. g \in Nums /\ \A k \in Keys : h[k] = f[k] + g[k]
  BY DEF Nums
<1> HIDE DEF g
<1> QED BY <1>1, TotalAdds, TotalIsNat

\* No key counts more than the total.
LEMMA TotalCoversEach ==
    ASSUME IsFiniteSet(Keys), NEW f \in Nums, NEW k \in Keys
    PROVE  f[k] <= Total(f)
<1> DEFINE g == [j \in Keys |-> IF j = k THEN f[k] ELSE 0]
<1>1. g \in Nums /\ g[k] = f[k] /\ \A j \in Keys : g[j] <= f[j]
  BY DEF Nums
<1>2. \A j \in Keys \ {k} : g[j] = 0
  OBVIOUS
<1> HIDE DEF g
<1> QED BY <1>1, <1>2, TotalOfOne, TotalIsMonotone

-----------------------------------------------------------------------------
(* The invariant, and what is held. *)

\* What may be held, were there no bound on the events.
HeldNums == [by : Nums, more : Nat]

\* Every variable has its type, but for the bounds on counts.
Types ==
    /\ queued \in Seq(Keys) /\ inflight \in Seq(Keys) /\ rest \in Seq(Keys)
    /\ count \in Nums /\ known \subseteq Keys
    /\ timer \in BOOLEAN /\ due \in BOOLEAN /\ dead \in BOOLEAN /\ aborted \in BOOLEAN
    /\ heldTimer \in BOOLEAN /\ quiet \in BOOLEAN /\ alive \in BOOLEAN /\ unsaved \in BOOLEAN
    /\ phase \in {"idle", "turn", "speaking"}
    /\ held \in HeldNums /\ out \in HeldNums /\ file \in HeldNums
    /\ payloads \subseteq Keys /\ events \in 0..MaxEvents /\ errors \in Nat

\* A key is in one place of the queue and the undecided batch, and it is counted
\* there.
Lines ==
    /\ IsInjective(queued) /\ IsInjective(rest) /\ IsInjective(inflight)
    /\ Range(queued) \cap Range(rest) = {} /\ Range(rest) \subseteq Range(inflight)
    /\ \A k \in Range(queued) \cup Range(rest) : count[k] > 0
    /\ \A k \in Keys \ known : count[k] = 0
    /\ phase = "idle" => rest = <<>>
    /\ phase = "speaking" => rest # <<>> /\ rest[1] \in Urgent
    /\ dead => phase = "idle" /\ ~due

\* What loadHeld() makes of h.
Clean(h) == [h EXCEPT !.by = [k \in Keys |-> IF k \in Reports THEN 0 ELSE @[k]]]

\* What a trigger waits in has its payload, unless a write failed; the held file
\* says what memory says.
Stashed ==
    /\ unsaved => errors > 0
    /\ alive /\ ~unsaved => Clean(file) = Clean(held)
    /\ errors = 0 =>
          (KeysOf(held) \cup KeysOf(file) \cup Range(queued) \cup Range(rest)) \ Reports
              \subseteq payloads

\* A daemon that is down has lost its memory.
Forgotten ==
    ~alive => /\ held = Nothing /\ out = Nothing /\ ~dead /\ phase = "idle"
              /\ queued = <<>> /\ rest = <<>> /\ \A k \in Keys : count[k] = 0

\* Where triggers wait.
LineInv == Types /\ Lines /\ Stashed /\ Forgotten

\* Only urgent triggers are held, released or in the file.
HeldIsUrgent == KeysOf(held) \cup KeysOf(out) \cup KeysOf(file) \subseteq Urgent

\* What is promised, and is still to be announced.
Promised == Size(held) + Size(out) + IF dead THEN 0 ELSE Total(Among(count, Urgent))
Standing == IF alive THEN Promised ELSE Size(Clean(file))

\* Whatever is counted was triggered once for every unit of its count.
OweInv ==
    /\ HeldIsUrgent
    /\ Size(held) + Size(out) + (IF dead THEN 0 ELSE Total(count)) <= events
    /\ Total(count) <= events /\ Size(file) <= events
    /\ owed \in Nat /\ Standing <= owed /\ owed <= events
    /\ Urgent \cap Reports = {} => owed = Standing

-----------------------------------------------------------------------------
(* Counts that are held. *)

\* Nothing counts nothing.
LEMMA NothingIs == ASSUME IsFiniteSet(Keys) PROVE Nothing \in HeldNums /\ Size(Nothing) = 0
<1>1. Nothing.by \in Nums /\ \A k \in Keys : Nothing.by[k] = 0
  BY DEF Nothing, Nums
<1> QED BY <1>1, TotalOfNothing DEF Nothing, HeldNums, Size

\* What is held has a size.
LEMMA SizeIsNat == ASSUME IsFiniteSet(Keys), NEW h \in HeldNums PROVE Size(h) \in Nat
  BY TotalIsNat DEF HeldNums, Size

\* Together adds sizes and unites keys.
LEMMA TogetherIs ==
    ASSUME IsFiniteSet(Keys), NEW g \in HeldNums, NEW h \in HeldNums
    PROVE  /\ Together(g, h) \in HeldNums /\ Size(Together(g, h)) = Size(g) + Size(h)
           /\ KeysOf(Together(g, h)) = KeysOf(g) \cup KeysOf(h)
<1> DEFINE t == [k \in Keys |-> g.by[k] + h.by[k]]
<1>1. /\ g.by \in Nums /\ h.by \in Nums /\ g.more \in Nat /\ h.more \in Nat
      /\ t \in Nums /\ \A k \in Keys : t[k] = g.by[k] + h.by[k]
  BY DEF HeldNums, Nums
<1>2. Together(g, h) = [by |-> t, more |-> g.more + h.more]
  BY DEF Together
<1> HIDE DEF t
<1>3. Total(t) = Total(g.by) + Total(h.by)
  BY <1>1, TotalAdds
<1>4. Total(g.by) \in Nat /\ Total(h.by) \in Nat
  BY <1>1, TotalIsNat
<1>5. KeysOf(Together(g, h)) = KeysOf(g) \cup KeysOf(h)
  BY <1>1, <1>2 DEF KeysOf, Nums
<1> QED BY <1>1, <1>2, <1>3, <1>4, <1>5 DEF HeldNums, Size

\* A count more on a key, or past the cap.
LEMMA MoreIsHeld ==
    ASSUME IsFiniteSet(Keys), NEW h \in HeldNums, NEW k \in Keys, NEW n \in Nat
    PROVE  /\ [h EXCEPT !.by[k] = @ + n] \in HeldNums
           /\ Size([h EXCEPT !.by[k] = @ + n]) = Size(h) + n
           /\ KeysOf([h EXCEPT !.by[k] = @ + n]) \subseteq KeysOf(h) \cup {k}
           /\ [h EXCEPT !.more = @ + n] \in HeldNums
           /\ Size([h EXCEPT !.more = @ + n]) = Size(h) + n
           /\ KeysOf([h EXCEPT !.more = @ + n]) = KeysOf(h)
<1> DEFINE f == [h.by EXCEPT ![k] = @ + n]
<1>1. h.by \in Nums /\ h.more \in Nat /\ h = [by |-> h.by, more |-> h.more]
  BY DEF HeldNums
<1>2. f \in Nums /\ Total(f) = Total(h.by) + n /\ Total(h.by) \in Nat
  BY <1>1, TotalGrows, TotalIsNat
<1>3. [h EXCEPT !.by[k] = @ + n] = [by |-> f, more |-> h.more]
  BY <1>1
<1>4. [h EXCEPT !.more = @ + n] = [by |-> h.by, more |-> h.more + n]
  BY <1>1
<1>5. \A j \in Keys \ {k} : f[j] = h.by[j]
  BY <1>1 DEF Nums
<1> HIDE DEF f
<1> QED BY <1>1, <1>2, <1>3, <1>4, <1>5 DEF HeldNums, Size, KeysOf

\* hold() holds the whole count of its key.
LEMMA HoldHolds ==
    ASSUME IsFiniteSet(Keys), NEW h \in HeldNums, NEW k \in Keys, count \in Nums
    PROVE  /\ Hold(h, k) \in HeldNums /\ Size(Hold(h, k)) = Size(h) + count[k]
           /\ KeysOf(Hold(h, k)) \subseteq KeysOf(h) \cup {k}
<1> DEFINE n == count[k]
<1>1. n \in Nat
  BY DEF Nums
<1> DEFINE a == [h EXCEPT !.by[k] = @ + n]
           b == [h EXCEPT !.more = @ + n]
<1>2. Hold(h, k) = a \/ Hold(h, k) = b
  BY DEF Hold
<1> HIDE DEF n
<1>3. a \in HeldNums /\ Size(a) = Size(h) + n /\ KeysOf(a) \subseteq KeysOf(h) \cup {k}
  BY <1>1, MoreIsHeld, ZenonT(60)
<1>4. b \in HeldNums /\ Size(b) = Size(h) + n /\ KeysOf(b) = KeysOf(h)
  BY <1>1, MoreIsHeld, ZenonT(60)
<1> HIDE DEF a, b
<1>5. Size(Hold(h, k)) = Size(h) + n
  BY <1>2, <1>3, <1>4
<1> QED BY <1>2, <1>3, <1>4, <1>5 DEF n

(* What the loop holds of the first n of done. *)
Entry(h, done, i) ==
    IF i = 0 THEN held ELSE IF done[i] \in Urgent THEN Hold(h[i - 1], done[i]) ELSE h[i - 1]
HoldsTo(h, done, n) == h = [i \in 0..n |-> Entry(h, done, i)]

\* There is a function that says what is held after each entry.
LEMMA HoldsAreMade == ASSUME NEW done, NEW n \in Nat PROVE \E h : HoldsTo(h, done, n)
<1> DEFINE Bad == {m \in Nat : ~ \E h : HoldsTo(h, done, m)}
<1>1. SUFFICES ASSUME Bad # {} PROVE FALSE
  OBVIOUS
<1>2. PICK m \in Bad : \A y \in Bad : m <= y
  BY <1>1, LeastOf
<1>3. CASE m = 0
  <2>1. HoldsTo([i \in 0..0 |-> held], done, 0)
    BY DEF HoldsTo, Entry
  <2> QED BY <1>2, <1>3, <2>1
<1>4. CASE m # 0
  <2>1. m - 1 \in Nat /\ m - 1 \notin Bad
    BY <1>2, <1>4
  <2>2. PICK f : HoldsTo(f, done, m - 1)
    BY <2>1
  <2> DEFINE g == [i \in 0..m |-> Entry(f, done, i)]
             h == [i \in 0..m |-> Entry(g, done, i)]
  <2>3. \A i \in 0..m - 1 : g[i] = f[i]
    BY <2>1, <2>2 DEF HoldsTo
  <2>4. ASSUME NEW i \in 0..m PROVE Entry(f, done, i) = Entry(g, done, i)
    <3>1. CASE i = 0
      BY <3>1 DEF Entry
    <3>2. CASE i # 0
      <4>1. i - 1 \in 0..m - 1
        BY <2>1, <3>2
      <4>2. g[i - 1] = f[i - 1]
        BY <2>3, <4>1
      <4> HIDE DEF g
      <4> QED BY <4>2 DEF Entry
    <3> QED BY <3>1, <3>2
  <2>5. g = h
    BY <2>4
  <2> HIDE DEF g
  <2>6. HoldsTo(g, done, m)
    BY <2>5 DEF HoldsTo
  <2> QED BY <1>2, <2>6
<1> QED BY <1>3, <1>4

\* The urgent ones of the first n of done.
UrgentTo(done, n) == {k \in Urgent : \E j \in 1..n : done[j] = k}

\* After n entries the counts of the urgent ones among them are held.
LEMMA WhatIsHeld ==
    ASSUME IsFiniteSet(Keys), Urgent \subseteq Keys, count \in Nums, held \in HeldNums,
           NEW done \in Seq(Keys), IsInjective(done), NEW h, HoldsTo(h, done, Len(done)),
           NEW n \in 0..Len(done)
    PROVE  /\ h[n] \in HeldNums
           /\ Size(h[n]) = Size(held) + Total(Among(count, UrgentTo(done, n)))
           /\ KeysOf(h[n]) \subseteq KeysOf(held) \cup UrgentTo(done, n)
           /\ UrgentTo(done, n) = {} => h[n] = held
<1> DEFINE Right(m) ==
        /\ h[m] \in HeldNums
        /\ Size(h[m]) = Size(held) + Total(Among(count, UrgentTo(done, m)))
        /\ KeysOf(h[m]) \subseteq KeysOf(held) \cup UrgentTo(done, m)
        /\ UrgentTo(done, m) = {} => h[m] = held
    Bad == {m \in 0..Len(done) : ~Right(m)}
<1>0. Len(done) \in Nat /\ \A i \in 1..Len(done) : done[i] \in Keys
  OBVIOUS
<1>1. SUFFICES ASSUME Bad # {} PROVE FALSE
  OBVIOUS
<1>2. PICK m \in Bad : \A y \in Bad : m <= y
  <2>1. Bad \subseteq Nat
    BY <1>0
  <2> QED BY <1>1, <2>1, LeastOf
<1>3. \A i \in 0..Len(done) : h[i] = Entry(h, done, i)
  BY DEF HoldsTo
<1>4. CASE m = 0
  <2>1. h[0] = held /\ UrgentTo(done, 0) = {}
    BY <1>0, <1>3 DEF Entry, UrgentTo
  <2>2. Total(Among(count, {})) = 0
    <3>1. Among(count, {}) \in Nums /\ \A k \in Keys : Among(count, {})[k] = 0
      BY DEF Among, Nums
    <3> QED BY <3>1, TotalOfNothing
  <2>3. Size(held) \in Nat
    BY SizeIsNat
  <2>4. Size(held) = Size(held) + Total(Among(count, UrgentTo(done, 0)))
    <3>1. Total(Among(count, UrgentTo(done, 0))) = 0
      BY <2>1, <2>2
    <3> QED BY <2>3, <3>1
  <2>5. Right(0)
    BY <2>1, <2>4
  <2> QED BY <1>2, <1>4, <2>5
<1>5. CASE m # 0
  <2> DEFINE k == done[m]
             U == UrgentTo(done, m - 1)
             V == UrgentTo(done, m)
  <2>1. m \in 1..Len(done) /\ m - 1 \in 0..Len(done) /\ m - 1 \notin Bad
    BY <1>0, <1>2, <1>5
  <2>2. Right(m - 1)
    BY <2>1
  <2>3. k \in Keys /\ k \notin U
    BY <1>0, <2>1 DEF UrgentTo, IsInjective
  <2>4. V = IF k \in Urgent THEN U \cup {k} ELSE U
    BY <1>0, <2>1 DEF UrgentTo
  <2>5. h[m] = IF k \in Urgent THEN Hold(h[m - 1], k) ELSE h[m - 1]
    BY <1>3, <1>5, <2>1 DEF Entry
  <2>6. CASE k \notin Urgent
    BY <1>2, <2>2, <2>4, <2>5, <2>6
  <2>7. CASE k \in Urgent
    <3>1. /\ h[m] \in HeldNums /\ Size(h[m]) = Size(h[m - 1]) + count[k]
          /\ KeysOf(h[m]) \subseteq KeysOf(h[m - 1]) \cup {k}
      BY <2>2, <2>3, <2>5, <2>7, HoldHolds
    <3>2. /\ Among(count, U) \in Nums /\ count[k] \in Nat
          /\ Among(count, V) = [Among(count, U) EXCEPT ![k] = @ + count[k]]
      <4>1. V = U \cup {k} /\ k \in Keys /\ k \notin U
        BY <2>3, <2>4, <2>7
      <4> HIDE DEF k, U, V
      <4>2. \A j \in Keys : count[j] \in Nat
        BY DEF Nums
      <4>3. Among(count, U) \in Nums /\ DOMAIN Among(count, V) = Keys
        BY <4>2 DEF Among, Nums
      <4>4. \A j \in Keys : Among(count, V)[j] =
                IF j = k THEN Among(count, U)[k] + count[k] ELSE Among(count, U)[j]
        BY <4>1, <4>2 DEF Among
      <4> QED BY <4>1, <4>2, <4>3, <4>4 DEF Among, Nums
    <3>3. Total(Among(count, V)) = Total(Among(count, U)) + count[k]
      BY <2>3, <3>2, TotalGrows
    <3>4. Total(Among(count, U)) \in Nat /\ Size(held) \in Nat
      BY <3>2, TotalIsNat, SizeIsNat
    <3>5. V # {} /\ V = U \cup {k}
      BY <2>4, <2>7
    <3> HIDE DEF k, U, V
    <3>6. Size(h[m]) = Size(held) + Total(Among(count, V))
      BY <2>2, <3>1, <3>2, <3>3, <3>4 DEF U
    <3>7. KeysOf(h[m]) \subseteq KeysOf(held) \cup V
      BY <2>2, <3>1, <3>5 DEF U
    <3>8. Right(m)
      BY <3>1, <3>5, <3>6, <3>7 DEF V
    <3> QED BY <1>2, <3>8
  <2> QED BY <2>6, <2>7
<1> QED BY <1>4, <1>5

\* The same for all of done.
LEMMA HeldAfterHolds ==
    ASSUME IsFiniteSet(Keys), Urgent \subseteq Keys, count \in Nums, held \in HeldNums,
           NEW done \in Seq(Keys), IsInjective(done)
    PROVE  /\ HeldAfter(done) \in HeldNums
           /\ Size(HeldAfter(done)) = Size(held) + Total(Among(count, Range(done) \cap Urgent))
           /\ KeysOf(HeldAfter(done)) \subseteq KeysOf(held) \cup (Range(done) \cap Urgent)
           /\ ~HoldsAny(done) => HeldAfter(done) = held
<1>1. Len(done) \in Nat /\ DOMAIN done = 1..Len(done)
  OBVIOUS
<1> DEFINE h == CHOOSE h : HoldsTo(h, done, Len(done))
<1>2. HoldsTo(h, done, Len(done))
  BY <1>1, HoldsAreMade
<1>3. HeldAfter(done) = h[Len(done)]
  BY Zenon DEF HeldAfter, HoldsTo, Entry
<1>4. UrgentTo(done, Len(done)) = Range(done) \cap Urgent
  BY <1>1 DEF UrgentTo, Range
<1> HIDE DEF h
<1>5. PICK n \in 0..Len(done) : n = Len(done)
  <2>1. Len(done) \in 0..Len(done)
    BY <1>1
  <2> QED BY <2>1
<1>6. /\ h[n] \in HeldNums
      /\ Size(h[n]) = Size(held) + Total(Among(count, UrgentTo(done, n)))
      /\ KeysOf(h[n]) \subseteq KeysOf(held) \cup UrgentTo(done, n)
      /\ UrgentTo(done, n) = {} => h[n] = held
  BY <1>2, WhatIsHeld
<1>7. HeldAfter(done) = h[n] /\ UrgentTo(done, n) = Range(done) \cap Urgent
  BY <1>3, <1>4, <1>5
<1>8. ~HoldsAny(done) => UrgentTo(done, n) = {}
  BY <1>7 DEF HoldsAny
<1> QED BY <1>6, <1>7, <1>8

-----------------------------------------------------------------------------
(* Sequences of keys that differ: the queue and the batch. *)

\* A part of a sequence that differs.
LEMMA Part ==
    ASSUME NEW s \in Seq(Keys), IsInjective(s), NEW m \in Nat, NEW n \in 0..Len(s), m >= 1
    PROVE  /\ SubSeq(s, m, n) \in Seq(Keys) /\ IsInjective(SubSeq(s, m, n))
           /\ \A i \in 1..Len(SubSeq(s, m, n)) : m + i - 1 \in m..n /\ SubSeq(s, m, n)[i] = s[m + i - 1]
           /\ Range(SubSeq(s, m, n)) = {s[i] : i \in m..n}
<1>1. PICK d : d = SubSeq(s, m, n)
  OBVIOUS
<1>2. /\ Len(s) \in Nat /\ \A i \in 1..Len(s) : s[i] \in Keys
      /\ \A i \in 1..Len(s), j \in 1..Len(s) : s[i] = s[j] => i = j
  BY DEF IsInjective
<1>3. /\ d \in Seq(Keys) /\ DOMAIN d = 1..Len(d)
      /\ Len(d) = IF m <= n THEN n - m + 1 ELSE 0
      /\ \A i \in 1..Len(d) : d[i] = s[m + i - 1]
  BY <1>1, <1>2
<1>4. \A i \in 1..Len(d) : m + i - 1 \in m..n /\ m + i - 1 \in 1..Len(s)
  BY <1>2, <1>3
<1>5. IsInjective(d)
  BY SMTT(60), <1>2, <1>3, <1>4 DEF IsInjective
<1>6. Range(d) = {s[i] : i \in m..n}
  <2>1. ASSUME NEW i \in m..n PROVE s[i] \in Range(d)
    <3>1. i - m + 1 \in 1..Len(d) /\ d[i - m + 1] = s[i]
      BY <1>2, <1>3
    <3> QED BY <1>3, <3>1 DEF Range
  <2>2. Range(d) \subseteq {s[i] : i \in m..n}
    BY <1>3, <1>4 DEF Range
  <2> QED BY <2>1, <2>2
<1> QED BY <1>1, <1>3, <1>4, <1>5, <1>6

\* The keys of a sequence.
LEMMA RangeIs ==
    ASSUME NEW s \in Seq(Keys)
    PROVE  Range(s) = {s[i] : i \in 1..Len(s)} /\ Range(s) \subseteq Keys
  BY DEF Range

\* A queue cut in two.
LEMMA Cut ==
    ASSUME NEW s \in Seq(Keys), IsInjective(s), NEW m \in 0..Len(s)
    PROVE  /\ SubSeq(s, 1, m) \in Seq(Keys) /\ IsInjective(SubSeq(s, 1, m))
           /\ SubSeq(s, m + 1, Len(s)) \in Seq(Keys) /\ IsInjective(SubSeq(s, m + 1, Len(s)))
           /\ Range(s) = Range(SubSeq(s, 1, m)) \cup Range(SubSeq(s, m + 1, Len(s)))
           /\ Range(SubSeq(s, 1, m)) \cap Range(SubSeq(s, m + 1, Len(s))) = {}
           /\ SubSeq(s, m + 1, Len(s)) # <<>> =>
                  m < Len(s) /\ SubSeq(s, m + 1, Len(s))[1] = s[m + 1]
<1> DEFINE a == SubSeq(s, 1, m)
           b == SubSeq(s, m + 1, Len(s))
<1>1. /\ Len(s) \in Nat /\ m \in Nat /\ m <= Len(s)
      /\ \A i \in 1..Len(s), j \in 1..Len(s) : s[i] = s[j] => i = j
  BY DEF IsInjective
<1>2. /\ 1 \in Nat /\ m + 1 \in Nat /\ m + 1 >= 1 /\ Len(s) \in 0..Len(s)
  BY <1>1
<1>3. /\ a \in Seq(Keys) /\ IsInjective(a) /\ Range(a) = {s[i] : i \in 1..m}
  <2>1. PICK o \in Nat : o = 1
    OBVIOUS
  <2>2. /\ SubSeq(s, o, m) \in Seq(Keys) /\ IsInjective(SubSeq(s, o, m))
        /\ Range(SubSeq(s, o, m)) = {s[i] : i \in o..m}
    BY <2>1, Part
  <2> QED BY <2>1, <2>2
<1>4. /\ b \in Seq(Keys) /\ IsInjective(b) /\ Range(b) = {s[i] : i \in m + 1..Len(s)}
      /\ \A i \in 1..Len(b) : m + 1 + i - 1 \in m + 1..Len(s) /\ b[i] = s[m + 1 + i - 1]
  BY <1>2, Part
<1> HIDE DEF a, b
<1>5. Range(s) = Range(a) \cup Range(b)
  BY <1>1, <1>3, <1>4, RangeIs
<1>6. Range(a) \cap Range(b) = {}
  BY <1>1, <1>3, <1>4
<1>7. b # <<>> => m < Len(s) /\ b[1] = s[m + 1]
  <2> SUFFICES ASSUME b # <<>> PROVE m < Len(s) /\ b[1] = s[m + 1]
    OBVIOUS
  <2>1. 1 \in 1..Len(b)
    BY <1>4, EmptySeq
  <2>2. m + 1 + 1 - 1 \in m + 1..Len(s) /\ b[1] = s[m + 1 + 1 - 1]
    BY <1>4, <2>1
  <2> QED BY <1>1, <2>2
<1> QED BY <1>3, <1>4, <1>5, <1>6, <1>7 DEF a, b

\* Two queues that share no key, one behind the other.
LEMMA Joined ==
    ASSUME NEW s \in Seq(Keys), IsInjective(s), NEW t \in Seq(Keys), IsInjective(t),
           Range(s) \cap Range(t) = {}
    PROVE  s \o t \in Seq(Keys) /\ IsInjective(s \o t) /\ Range(s \o t) = Range(s) \cup Range(t)
<1>1. PICK d : d = s \o t
  OBVIOUS
<1>2. /\ Len(s) \in Nat /\ Len(t) \in Nat
      /\ \A i \in 1..Len(s), j \in 1..Len(s) : s[i] = s[j] => i = j
      /\ \A i \in 1..Len(t), j \in 1..Len(t) : t[i] = t[j] => i = j
      /\ \A i \in 1..Len(s) : s[i] \in Range(s) /\ \A j \in 1..Len(t) : s[i] # t[j]
  BY RangeIs DEF IsInjective, Range
<1>3. /\ d \in Seq(Keys) /\ Len(d) = Len(s) + Len(t)
      /\ \A i \in 1..Len(d) : d[i] = IF i <= Len(s) THEN s[i] ELSE t[i - Len(s)]
  BY <1>1, <1>2
<1>4. IsInjective(d)
  <2> SUFFICES ASSUME NEW i \in 1..Len(d), NEW j \in 1..Len(d), d[i] = d[j] PROVE i = j
    BY <1>3 DEF IsInjective
  <2>1. i <= Len(s) => i \in 1..Len(s) /\ d[i] = s[i]
    BY <1>2, <1>3
  <2>2. j <= Len(s) => j \in 1..Len(s) /\ d[j] = s[j]
    BY <1>2, <1>3
  <2>3. ~(i <= Len(s)) => i - Len(s) \in 1..Len(t) /\ d[i] = t[i - Len(s)]
    BY <1>2, <1>3
  <2>4. ~(j <= Len(s)) => j - Len(s) \in 1..Len(t) /\ d[j] = t[j - Len(s)]
    BY <1>2, <1>3
  <2> QED BY <1>2, <2>1, <2>2, <2>3, <2>4
<1>5. Range(d) = Range(s) \cup Range(t)
  <2>1. \A i \in 1..Len(s) : i \in 1..Len(d) /\ d[i] = s[i]
    BY <1>2, <1>3
  <2>2. \A i \in 1..Len(t) : i + Len(s) \in 1..Len(d) /\ d[i + Len(s)] = t[i]
    BY <1>2, <1>3
  <2>3. \A i \in 1..Len(d) : (i \in 1..Len(s) /\ d[i] = s[i])
                             \/ (i - Len(s) \in 1..Len(t) /\ d[i] = t[i - Len(s)])
    BY <1>2, <1>3
  <2>4. Range(s) \subseteq Range(d)
    BY <1>3, <2>1, RangeIs
  <2>5. Range(t) \subseteq Range(d)
    <3> SUFFICES ASSUME NEW i \in 1..Len(t) PROVE t[i] \in Range(d)
      BY RangeIs
    <3>1. i + Len(s) \in 1..Len(d) /\ d[i + Len(s)] = t[i]
      BY <2>2
    <3> QED BY <1>3, <3>1, RangeIs
  <2>6. Range(d) \subseteq Range(s) \cup Range(t)
    BY SMTT(60), <1>3, <2>3, RangeIs
  <2> QED BY <2>4, <2>5, <2>6
<1> QED BY <1>1, <1>3, <1>4, <1>5

\* A key that is new at the end of a queue.
LEMMA Added ==
    ASSUME NEW s \in Seq(Keys), IsInjective(s), NEW k \in Keys, k \notin Range(s)
    PROVE  /\ Append(s, k) \in Seq(Keys) /\ IsInjective(Append(s, k))
           /\ Range(Append(s, k)) = Range(s) \cup {k}
<1>1. /\ <<k>> \in Seq(Keys) /\ IsInjective(<<k>>) /\ Range(<<k>>) = {k}
  BY DEF IsInjective, Range
<1>2. Append(s, k) = s \o <<k>>
  BY AppendIsConcat
<1>3. Range(s) \cap Range(<<k>>) = {}
  BY <1>1
<1>4. PICK t : t = <<k>>
  OBVIOUS
<1> QED BY <1>1, <1>2, <1>3, <1>4, Joined

\* The head of a batch, and the others.
LEMMA Headed ==
    ASSUME NEW s \in Seq(Keys), IsInjective(s), s # <<>>
    PROVE  /\ Tail(s) \in Seq(Keys) /\ IsInjective(Tail(s)) /\ Head(s) = s[1] /\ s[1] \in Keys
           /\ Range(s) = {s[1]} \cup Range(Tail(s)) /\ s[1] \notin Range(Tail(s))
<1>1. Len(s) \in Nat /\ Len(s) # 0 /\ Tail(s) = SubSeq(s, 2, Len(s))
  BY EmptySeq
<1>2. PICK m \in 0..Len(s) : m = 1
  BY <1>1
<1>3. PICK a : a = SubSeq(s, 1, m)
  OBVIOUS
<1>4. Tail(s) = SubSeq(s, m + 1, Len(s)) /\ Range(a) = {s[1]}
  <2>1. Range(a) = {s[i] : i \in 1..m}
    BY <1>2, <1>3, Part
  <2> QED BY <1>1, <1>2, <2>1
<1>5. Head(s) = s[1] /\ s[1] \in Keys
  <2>1. 1 \in 1..Len(s)
    BY <1>1
  <2> QED BY <2>1
<1>6. PICK b : b = SubSeq(s, m + 1, Len(s))
  OBVIOUS
<1>8. b \in Seq(Keys) /\ IsInjective(b) /\ Range(s) = Range(a) \cup Range(b)
      /\ Range(a) \cap Range(b) = {}
  <2>1. m \in 0..Len(s)
    BY <1>2
  <2> QED BY <1>3, <1>6, <2>1, Cut
<1>9. Tail(s) = b
  BY <1>4, <1>6
<1>10. Range(s) = {s[1]} \cup Range(b) /\ s[1] \notin Range(b)
  BY <1>4, <1>8
<1> QED BY <1>5, <1>8, <1>9, <1>10

\* The empty queue.
LEMMA Empty == <<>> \in Seq(Keys) /\ IsInjective(<<>>) /\ Range(<<>>) = {}
  BY EmptySeq DEF IsInjective, Range

-----------------------------------------------------------------------------
(* What the held file is read as, what is pruned, what the loop decides. *)

\* Cleaning drops the reports, and is done once.
LEMMA CleanIs ==
    ASSUME IsFiniteSet(Keys), NEW h \in HeldNums
    PROVE  /\ Clean(h) \in HeldNums /\ Size(Clean(h)) <= Size(h)
           /\ KeysOf(Clean(h)) = KeysOf(h) \ Reports
           /\ Clean(Clean(h)) = Clean(h)
           /\ KeysOf(h) \cap Reports = {} => Clean(h) = h
<1> DEFINE f == [k \in Keys |-> IF k \in Reports THEN 0 ELSE h.by[k]]
<1>1. h.by \in Nums /\ h.more \in Nat /\ h = [by |-> h.by, more |-> h.more]
  BY DEF HeldNums
<1>2. f \in Nums /\ \A k \in Keys : f[k] = IF k \in Reports THEN 0 ELSE h.by[k]
  BY <1>1 DEF Nums
<1>3. Clean(h) = [by |-> f, more |-> h.more]
  BY <1>1 DEF Clean
<1>4. f = [k \in Keys |-> IF k \in Reports THEN 0 ELSE f[k]]
  BY <1>2
<1>5. Clean(Clean(h)) = Clean(h)
  <2>1. Clean([by |-> f, more |-> h.more])
            = [by |-> [k \in Keys |-> IF k \in Reports THEN 0 ELSE f[k]], more |-> h.more]
    BY DEF Clean
  <2> QED BY <1>3, <1>4, <2>1
<1> HIDE DEF f
<1>6. Total(f) <= Total(h.by) /\ Total(f) \in Nat /\ Total(h.by) \in Nat
  <2>1. \A k \in Keys : f[k] <= h.by[k]
    BY <1>1, <1>2 DEF Nums
  <2> QED BY <1>1, <1>2, <2>1, TotalIsMonotone, TotalIsNat
<1>7. KeysOf(Clean(h)) = KeysOf(h) \ Reports
  BY <1>1, <1>2, <1>3 DEF KeysOf
<1>8. ASSUME KeysOf(h) \cap Reports = {} PROVE Clean(h) = h
  <2>1. \A k \in Keys : f[k] = h.by[k]
    BY <1>1, <1>2, <1>8 DEF KeysOf, Nums
  <2>2. f = h.by
    BY <1>1, <1>2, <2>1 DEF Nums
  <2> QED BY <1>1, <1>3, <2>2
<1>9. Clean(h) \in HeldNums /\ Size(Clean(h)) <= Size(h)
  BY <1>1, <1>2, <1>3, <1>6 DEF HeldNums, Size
<1> QED BY <1>5, <1>7, <1>8, <1>9

\* loadHeld() reads the file cleaned.
LEMMA LoadedIsClean == ASSUME file \in HeldNums PROVE Loaded = Clean(file)
  BY DEF Loaded, Clean, HeldNums

\* There is nothing to clean in nothing.
LEMMA CleanOfNothing ==
    ASSUME IsFiniteSet(Keys)
    PROVE  Clean(Nothing) = Nothing /\ KeysOf(Nothing) = {}
<1>1. Nothing \in HeldNums /\ KeysOf(Nothing) = {}
  BY NothingIs DEF KeysOf, Nothing
<1> QED BY <1>1, CleanIs

\* The pruning keeps what heldPaths() names.
LEMMA StashKeeps ==
    ASSUME NEW k \in Keys, Stash(k), payloads \subseteq Keys
    PROVE  /\ payloads' \subseteq Keys /\ payloads \cap (HeldPaths \cup {k}) \subseteq payloads'
           /\ k \in Reports \/ k \in payloads'
  BY DEF Stash

\* The loop stops at an urgent entry, outside quiet hours.
LEMMA DecidedIs ==
    ASSUME NEW b \in Seq(Keys)
    PROVE  \E m \in 0..Len(b) : /\ Decided(b) = SubSeq(b, 1, m)
                                /\ m < Len(b) => ~quiet /\ b[m + 1] \in Urgent
<1> DEFINE stop == {i \in 1..Len(b) : b[i] \in Urgent}
           first == CHOOSE i \in stop : \A j \in stop : i <= j
<1>0. Len(b) \in Nat
  OBVIOUS
<1>1. CASE quiet \/ stop = {}
  <2>1. Decided(b) = b
    BY <1>1 DEF Decided
  <2>2. b = SubSeq(b, 1, Len(b))
    OBVIOUS
  <2>3. Decided(b) = SubSeq(b, 1, Len(b))
    BY <2>1, <2>2
  <2>4. Len(b) \in 0..Len(b) /\ ~(Len(b) < Len(b))
    BY <1>0
  <2> QED BY <2>3, <2>4
<1>2. CASE ~quiet /\ stop # {}
  <2>1. stop \subseteq Nat /\ stop \subseteq 1..Len(b)
    OBVIOUS
  <2> HIDE DEF stop
  <2>2. \E i \in stop : \A j \in stop : i <= j
    BY <1>2, <2>1, LeastOf
  <2>3. first \in stop
    BY <2>2
  <2>4. Decided(b) = SubSeq(b, 1, first - 1)
    BY <1>2 DEF Decided, stop
  <2>5. first - 1 \in 0..Len(b) /\ first - 1 + 1 = first /\ b[first] \in Urgent
    BY <1>0, <2>3 DEF stop
  <2> HIDE DEF first
  <2> QED BY <1>2, <2>4, <2>5
<1> QED BY <1>1, <1>2

-----------------------------------------------------------------------------

\* A save writes, or fails and says so.
LEMMA SaveIs ==
    ASSUME NEW h, SaveHeld(h), errors \in Nat
    PROVE  /\ file' = h \/ file' = file
           /\ unsaved' \in BOOLEAN /\ errors' \in Nat
           /\ ~unsaved' => file' = h
           /\ unsaved' => errors' > 0 /\ file' = file
           /\ errors' = 0 => errors = 0
<1>1. CASE file' = h /\ unsaved' = FALSE /\ UNCHANGED errors
  BY <1>1
<1>2. CASE errors' = errors + 1 /\ unsaved' = TRUE /\ UNCHANGED file
  <2>1. errors + 1 \in Nat /\ errors + 1 > 0
    OBVIOUS
  <2> QED BY <1>2, <2>1
<1> QED BY <1>1, <1>2 DEF SaveHeld

\* What leaves the queue, the batch and the files alone.
LEMMA OthersKeepLines ==
    ASSUME LineInv, Types',
           UNCHANGED <<queued, count, known, phase, inflight, rest, held, out, file,
                       payloads, alive, unsaved, errors>>,
           dead' => dead, due' => due \/ ~dead
    PROVE  LineInv'
<1>1. Lines'
  BY DEF LineInv, Lines
<1>2. Stashed'
  BY DEF LineInv, Stashed
<1>3. Forgotten'
  BY DEF LineInv, Forgotten
<1> QED BY <1>1, <1>2, <1>3 DEF LineInv

-----------------------------------------------------------------------------
(* The loop of handleBatch, and where triggers wait after it. *)

\* The urgent ones of D are held; what is written of that.
Holding(D) ==
    /\ held' \in HeldNums /\ Size(held') = Size(held) + Total(Among(count, D \cap Urgent))
    /\ KeysOf(held') \subseteq KeysOf(held) \cup (D \cap Urgent)
Written ==
    /\ file' = held' \/ file' = file
    /\ unsaved' \in BOOLEAN /\ errors' \in Nat
    /\ ~unsaved' => file' = held' \/ (~unsaved /\ UNCHANGED <<held, file>>)
    /\ unsaved' => errors' > 0
    /\ errors' = 0 => errors = 0

\* The loop went through D and left the others of b; or it died.
Went(b, D, spoken) ==
    /\ count' = Among(count, Keys \ (D \cup spoken))
    /\ rest' \in Seq(Keys) /\ IsInjective(rest') /\ Range(rest') = Range(b) \ D
    /\ IF rest' = <<>> THEN phase' = "idle" ELSE phase' = "speaking" /\ rest'[1] \in Urgent
    /\ owed' = owed - Total(Among(count, spoken))
    /\ UNCHANGED <<due, dead>>
Died ==
    /\ rest' = <<>> /\ phase' = "idle" /\ due' = FALSE /\ dead' = TRUE
    /\ owed' = Size(held') + Size(out)
    /\ UNCHANGED count

\* What the loop does to its batch, whole or cut by a failed digest.
LEMMA DecideDoes ==
    ASSUME IsFiniteSet(Keys), Urgent \subseteq Keys, count \in Nums, held \in HeldNums,
           errors \in Nat, unsaved => errors > 0, unsaved \in BOOLEAN,
           NEW b \in Seq(Keys), IsInjective(b), NEW spoken, Decide(b, spoken)
    PROVE  \E D \in SUBSET Range(b) : Holding(D) /\ Written /\ (Went(b, D, spoken) \/ Died)
<1> DEFINE done == Decided(b)
           left == SubSeq(b, Len(done) + 1, Len(b))
           Through ==
               /\ Settle(done, spoken)
               /\ rest' = left /\ phase' = IF left = <<>> THEN "idle" ELSE "speaking"
               /\ owed' = owed - Total([k \in Keys |-> IF k \in spoken THEN count[k] ELSE 0])
               /\ UNCHANGED <<due, dead>>
           Thrown(i) ==
               /\ errors < MaxDiskErrors
               /\ held' = HeldAfter(SubSeq(done, 1, i - 1))
               /\ file' = IF HoldsAny(SubSeq(done, 1, i - 1)) THEN held' ELSE file
               /\ unsaved' = (unsaved /\ ~HoldsAny(SubSeq(done, 1, i - 1)))
               /\ errors' = errors + 1
               /\ rest' = <<>> /\ phase' = "idle" /\ due' = FALSE /\ dead' = TRUE
               /\ owed' = Size(held') + Size(out)
               /\ UNCHANGED count
<1>1. Through \/ \E i \in 1..Len(done) : Thrown(i)
  BY DEF Decide
<1>2. PICK m \in 0..Len(b) : done = SubSeq(b, 1, m) /\ (m < Len(b) => b[m + 1] \in Urgent)
  BY DecidedIs
<1> HIDE DEF done
<1>3. Len(done) = m /\ Len(b) \in Nat /\ m \in Nat /\ m <= Len(b)
  BY <1>2
<1>4. /\ done \in Seq(Keys) /\ IsInjective(done) /\ left \in Seq(Keys) /\ IsInjective(left)
      /\ Range(b) = Range(done) \cup Range(left) /\ Range(done) \cap Range(left) = {}
      /\ left # <<>> => left[1] \in Urgent
  BY <1>2, <1>3, Cut
<1> HIDE DEF left
<1>5. ASSUME NEW d \in Seq(Keys), IsInjective(d), held' = HeldAfter(d), Range(d) \subseteq Range(b)
      PROVE  /\ Holding(Range(d)) /\ Range(d) \in SUBSET Range(b)
             /\ ~HoldsAny(d) => held' = held
  BY <1>5, HeldAfterHolds DEF Holding
<1>6. CASE Through
  <2>1. /\ held' = HeldAfter(done)
        /\ count' = [k \in Keys |-> IF k \in Range(done) \cup spoken THEN 0 ELSE count[k]]
        /\ IF HoldsAny(done) THEN SaveHeld(held') ELSE UNCHANGED <<file, unsaved, errors>>
    BY <1>6 DEF Settle
  <2>2. Holding(Range(done)) /\ Range(done) \in SUBSET Range(b) /\ (~HoldsAny(done) => held' = held)
    BY <1>4, <1>5, <2>1
  <2>3. Written
    <3>1. CASE HoldsAny(done)
      BY <2>1, <3>1, SaveIs DEF Written
    <3>2. CASE ~HoldsAny(done)
      BY <2>1, <2>2, <3>2 DEF Written
    <3> QED BY <3>1, <3>2
  <2>4. count' = Among(count, Keys \ (Range(done) \cup spoken))
    BY <2>1 DEF Among
  <2>5. Went(b, Range(done), spoken)
    BY <1>4, <1>6, <2>4 DEF Went, Among
  <2> QED BY <2>2, <2>3, <2>5
<1>7. ASSUME NEW i \in 1..Len(done), Thrown(i)
      PROVE  \E D \in SUBSET Range(b) : Holding(D) /\ Written /\ (Went(b, D, spoken) \/ Died)
  <2>1. PICK d : d = SubSeq(done, 1, i - 1)
    OBVIOUS
  <2>2. i - 1 \in 0..Len(done) /\ 1 \in Nat
    BY <1>3
  <2>3. d \in Seq(Keys) /\ IsInjective(d) /\ Range(d) \subseteq Range(b)
    BY <1>4, <2>1, <2>2, Cut
  <2>4. /\ held' = HeldAfter(d) /\ Died
        /\ file' = IF HoldsAny(d) THEN held' ELSE file
        /\ unsaved' = (unsaved /\ ~HoldsAny(d))
        /\ errors' = errors + 1
    BY <1>7, <2>1 DEF Died
  <2>5. Holding(Range(d)) /\ Range(d) \in SUBSET Range(b) /\ (~HoldsAny(d) => held' = held)
    BY <1>5, <2>3, <2>4
  <2>6. Written
    <3>1. errors + 1 \in Nat /\ errors + 1 > 0
      OBVIOUS
    <3>2. errors' \in Nat /\ errors' > 0 /\ errors' # 0
      BY <2>4, <3>1
    <3> QED BY <2>4, <2>5, <3>2 DEF Written
  <2> QED BY <2>4, <2>5, <2>6
<1> QED BY <1>1, <1>6, <1>7

\* After the loop, whatever waits is where it should be.
LEMMA DecideKeepsLines ==
    ASSUME IsFiniteSet(Keys), Urgent \subseteq Keys, LineInv, ~dead,
           NEW b \in Seq(Keys), IsInjective(b), NEW spoken, spoken \cap Range(b) = {},
           Range(rest) = Range(b) \cup spoken,
           Decide(b, spoken), Closed(inflight), alive, heldTimer' \in BOOLEAN,
           UNCHANGED <<queued, known, timer, out, payloads, quiet, alive, events>>,
           aborted' \in BOOLEAN
    PROVE  LineInv'
<1>1. Types /\ Lines /\ Stashed
  BY DEF LineInv
<1>2. PICK D \in SUBSET Range(b) : Holding(D) /\ Written /\ (Went(b, D, spoken) \/ Died)
  BY <1>1, DecideDoes DEF Types, Stashed
<1>3. D \subseteq Range(rest) /\ Range(rest) \subseteq Keys /\ spoken \subseteq Range(rest)
  BY <1>1, <1>2, RangeIs DEF Types
<1>4. /\ rest' \in Seq(Keys) /\ IsInjective(rest') /\ Range(rest') \subseteq Range(rest)
      /\ Range(rest') \cap (D \cup spoken) = {} \/ rest' = <<>>
      /\ count' \in Nums /\ \A k \in Keys : count'[k] = 0 \/ count'[k] = count[k]
      /\ \A k \in Range(queued) \cup Range(rest') : count'[k] = count[k]
      /\ due' \in BOOLEAN /\ dead' \in BOOLEAN /\ phase' \in {"idle", "turn", "speaking"}
      /\ phase' = "idle" => rest' = <<>>
      /\ phase' = "speaking" => rest' # <<>> /\ rest'[1] \in Urgent
      /\ dead' => phase' = "idle" /\ ~due'
  <2>1. CASE Went(b, D, spoken)
    <3>1. Range(rest') = Range(b) \ D /\ rest' \in Seq(Keys) /\ IsInjective(rest')
      BY <2>1 DEF Went
    <3>2. count' \in Nums /\ \A k \in Keys : count'[k] = IF k \in D \cup spoken THEN 0 ELSE count[k]
      BY <1>1, <2>1 DEF Went, Among, Types, Nums
    <3>3. \A k \in Range(queued) \cup Range(rest') : k \in Keys /\ k \notin D \cup spoken
      BY <1>1, <1>2, <1>3, <3>1, RangeIs DEF Lines, Types
    <3>4. /\ due' = due /\ dead' = dead
          /\ IF rest' = <<>> THEN phase' = "idle" ELSE phase' = "speaking" /\ rest'[1] \in Urgent
      BY <2>1 DEF Went
    <3>5. /\ due' \in BOOLEAN /\ dead' \in BOOLEAN /\ phase' \in {"idle", "turn", "speaking"}
          /\ phase' = "idle" => rest' = <<>>
          /\ phase' = "speaking" => rest' # <<>> /\ rest'[1] \in Urgent
          /\ ~dead'
      BY <1>1, <3>4, Zenon DEF Types
    <3>6. Range(rest') \subseteq Range(rest) /\ Range(rest') \cap (D \cup spoken) = {}
      BY <1>2, <3>1
    <3>7. \A k \in Range(queued) \cup Range(rest') : count'[k] = count[k]
      BY <3>2, <3>3
    <3>8. \A k \in Keys : count'[k] = 0 \/ count'[k] = count[k]
      BY <3>2
    <3> QED BY <3>1, <3>2, <3>5, <3>6, <3>7, <3>8
  <2>2. CASE Died
    <3>1. /\ rest' = <<>> /\ phase' = "idle" /\ due' = FALSE /\ dead' = TRUE /\ count' = count
      BY <2>2 DEF Died
    <3> QED BY <1>1, <3>1, Empty DEF Types
  <2> QED BY <1>2, <2>1, <2>2
<1>5. /\ inflight' \in Seq(Keys) /\ IsInjective(inflight') /\ Range(rest') \subseteq Range(inflight')
  BY <1>1, <1>4, Empty DEF Closed, Types, Lines
<1>6. Types'
  BY <1>1, <1>2, <1>4, <1>5 DEF Types, Holding, Written
<1>7. Lines'
  <2>1. Range(queued') \cap Range(rest') = {}
    BY <1>1, <1>4 DEF Lines
  <2>2. \A k \in Range(queued') \cup Range(rest') : count'[k] > 0
    BY <1>1, <1>4 DEF Lines
  <2>3. \A k \in Keys \ known' : count'[k] = 0
    BY <1>1, <1>4 DEF Lines
  <2> QED BY <1>1, <1>4, <1>5, <2>1, <2>2, <2>3 DEF Lines
<1>8. Stashed'
  <2>1. alive' /\ ~unsaved' => Clean(file') = Clean(held')
    BY <1>1, <1>2 DEF Stashed, Written
  <2>2. KeysOf(held') \cup KeysOf(file') \cup Range(queued') \cup Range(rest')
            \subseteq KeysOf(held) \cup KeysOf(file) \cup Range(queued) \cup Range(rest)
    BY <1>2, <1>3, <1>4 DEF Holding, Written
  <2>3. unsaved' => errors' > 0
    BY <1>2 DEF Written
  <2>4. errors' = 0 => errors = 0
    BY <1>2 DEF Written
  <2>5. Clean(file)' = Clean(file') /\ Clean(held)' = Clean(held')
        /\ KeysOf(held)' = KeysOf(held') /\ KeysOf(file)' = KeysOf(file')
    BY DEF Clean, KeysOf
  <2> QED BY <1>1, <2>1, <2>2, <2>3, <2>4, <2>5 DEF Stashed
<1>9. Forgotten'
  BY DEF Forgotten
<1> QED BY <1>6, <1>7, <1>8, <1>9 DEF LineInv

-----------------------------------------------------------------------------
(* Where triggers wait: the steps of the pump. *)

\* Zero for every key.
LEMMA ZerosIs == /\ [k \in Keys |-> 0] \in Nums /\ \A k \in Keys : [j \in Keys |-> 0][k] = 0
  BY DEF Nums

\* At first nothing waits.
LEMMA InitLines == ASSUME WakeAssumption, Init PROVE LineInv
<1>1. Types
  <2>1. Nothing \in HeldNums /\ count \in Nums /\ <<>> \in Seq(Keys) /\ 0 \in 0..MaxEvents
    BY NothingIs, ZerosIs, Empty DEF WakeAssumption, Init, Quiescent
  <2> QED BY <2>1 DEF Init, Quiescent, Types
<1>2. Lines
  BY ZerosIs, Empty DEF Init, Quiescent, Lines
<1>3. Stashed /\ Forgotten
  BY CleanOfNothing, Empty DEF WakeAssumption, Init, Quiescent, Stashed, Forgotten
<1> QED BY <1>1, <1>2, <1>3 DEF LineInv

\* The keys a trigger may wait in are where the pruning looks.
LEMMA KeptByStash ==
    ASSUME WakeAssumption, LineInv, alive, NEW k \in Keys, Stash(k)
    PROVE  /\ payloads' \subseteq Keys
           /\ errors = 0 =>
                  (KeysOf(held) \cup KeysOf(file) \cup Range(queued) \cup Range(rest) \cup {k})
                      \ Reports \subseteq payloads'
<1>1. Types /\ Lines /\ Stashed
  BY DEF LineInv
<1>2. /\ payloads' \subseteq Keys /\ payloads \cap (HeldPaths \cup {k}) \subseteq payloads'
      /\ k \in Reports \/ k \in payloads'
  BY <1>1, StashKeeps DEF Types
<1>3. ASSUME errors = 0 PROVE KeysOf(file) \ Reports \subseteq KeysOf(held)
  <2>1. Clean(file) = Clean(held)
    BY <1>1, <1>3 DEF Stashed, Types
  <2> QED BY <1>1, <2>1, CleanIs DEF Types, WakeAssumption
<1> QED BY <1>1, <1>2, <1>3 DEF Stashed, Lines, HeldPaths

\* submit(), its four ways.
LEMMA SubmitLines == ASSUME WakeAssumption, LineInv, NEW k \in Keys, Submit(k) PROVE LineInv'
<1>1. Types /\ Lines /\ Stashed
  BY DEF LineInv
<1>2. /\ alive /\ events' = events + 1 /\ events' \in 0..MaxEvents /\ Stash(k)
      /\ UNCHANGED <<due, dead, phase, aborted, inflight, rest, heldTimer, out, quiet, alive>>
  <2>1. events < MaxEvents /\ events \in 0..MaxEvents /\ events' = events + 1
    BY <1>1 DEF Submit, Types
  <2>2. events' \in 0..MaxEvents
    BY <2>1 DEF WakeAssumption
  <2> QED BY <2>1, <2>2 DEF Submit
<1>3. /\ payloads' \subseteq Keys
      /\ errors = 0 =>
             (KeysOf(held) \cup KeysOf(file) \cup Range(queued) \cup Range(rest) \cup {k})
                 \ Reports \subseteq payloads'
  BY <1>2, KeptByStash
<1>4. Forgotten'
  BY <1>2 DEF Forgotten
<1>5. CASE /\ k \notin known
           /\ queued' = Append(queued, k) /\ count' = [count EXCEPT ![k] = 1]
           /\ known' = known \cup {k} /\ Arm
           /\ UNCHANGED <<held, file, unsaved, errors>>
  <2>1. count[k] = 0 /\ k \notin Range(queued) /\ k \notin Range(rest)
    BY <1>1, <1>5 DEF Lines
  <2>2. /\ queued' \in Seq(Keys) /\ IsInjective(queued') /\ Range(queued') = Range(queued) \cup {k}
    BY <1>1, <1>5, <2>1, Added DEF Types, Lines
  <2>3. count' \in Nums /\ \A j \in Keys : count'[j] = IF j = k THEN 1 ELSE count[j]
    BY <1>1, <1>5 DEF Types, Nums
  <2>4. Types'
    BY <1>1, <1>2, <1>3, <1>5, <2>2, <2>3 DEF Types, Arm
  <2>5. Lines'
    BY <1>1, <1>2, <1>5, <2>1, <2>2, <2>3, RangeIs DEF Lines, Types
  <2>6. Stashed'
    <3>1. /\ unsaved' => errors' > 0
          /\ alive' /\ ~unsaved' => Clean(file)' = Clean(held)'
      BY <1>1, <1>2, <1>5 DEF Stashed, Clean
    <3>2. KeysOf(held)' = KeysOf(held) /\ KeysOf(file)' = KeysOf(file)
      BY <1>5 DEF KeysOf
    <3> QED BY <1>2, <1>3, <1>5, <2>2, <3>1, <3>2 DEF Stashed
  <2> QED BY <1>4, <2>4, <2>5, <2>6 DEF LineInv
<1>6. CASE /\ k \in known /\ count[k] > 0
           /\ count' = count \/ count' = [count EXCEPT ![k] = @ + 1]
           /\ UNCHANGED <<queued, known, timer, held, file, unsaved, errors>>
  <2>1. count' \in Nums /\ \A j \in Keys : count'[j] >= count[j] /\ (j # k => count'[j] = count[j])
    BY <1>1, <1>6 DEF Types, Nums
  <2>2. Types'
    BY <1>1, <1>2, <1>3, <1>6, <2>1 DEF Types
  <2>3. Lines'
    <3>1. \A j \in Range(queued) \cup Range(rest) : j \in Keys /\ count'[j] > 0
      BY <1>1, <2>1, RangeIs DEF Lines, Types, Nums
    <3>2. \A j \in Keys \ known : count'[j] = 0
      BY <1>1, <1>6, <2>1 DEF Lines
    <3> QED BY <1>1, <1>2, <1>6, <3>1, <3>2 DEF Lines
  <2>4. Stashed'
    <3>1. /\ unsaved' => errors' > 0
          /\ alive' /\ ~unsaved' => Clean(file)' = Clean(held)'
      BY <1>1, <1>2, <1>6 DEF Stashed, Clean
    <3>2. KeysOf(held)' = KeysOf(held) /\ KeysOf(file)' = KeysOf(file)
      BY <1>6 DEF KeysOf
    <3> QED BY <1>2, <1>3, <1>6, <3>1, <3>2 DEF Stashed
  <2> QED BY <1>4, <2>2, <2>3, <2>4 DEF LineInv
<1>7. CASE /\ held.by[k] > 0
           /\ held' = [held EXCEPT !.by[k] = @ + 1] /\ SaveHeld(held')
           /\ UNCHANGED <<queued, count, known, timer>>
  <2>1. held' \in HeldNums /\ KeysOf(held') \subseteq KeysOf(held) \cup {k}
    BY <1>1, <1>7, MoreIsHeld DEF Types, WakeAssumption
  <2>2. /\ file' = held' \/ file' = file
        /\ unsaved' \in BOOLEAN /\ errors' \in Nat
        /\ ~unsaved' => file' = held'
        /\ unsaved' => errors' > 0
        /\ errors' = 0 => errors = 0
    BY <1>1, <1>7, SaveIs DEF Types
  <2>3. Types'
    BY <1>1, <1>2, <1>3, <1>7, <2>1, <2>2 DEF Types
  <2>4. Lines'
    BY <1>1, <1>2, <1>7 DEF Lines
  <2>5. Stashed'
    <3>1. Clean(file)' = Clean(file') /\ Clean(held)' = Clean(held')
          /\ KeysOf(held)' = KeysOf(held') /\ KeysOf(file)' = KeysOf(file')
      BY DEF Clean, KeysOf
    <3>2. KeysOf(file') \subseteq KeysOf(held) \cup KeysOf(file) \cup {k}
      BY <2>1, <2>2
    <3> QED BY <1>2, <1>3, <1>7, <2>1, <2>2, <3>1, <3>2 DEF Stashed
  <2> QED BY <1>4, <2>3, <2>4, <2>5 DEF LineInv
<1>8. CASE UNCHANGED <<queued, count, known, timer, held, file, unsaved, errors>>
  <2>1. Types'
    BY <1>1, <1>2, <1>3, <1>8 DEF Types
  <2>2. Lines'
    BY <1>1, <1>2, <1>8 DEF Lines
  <2>3. Stashed'
    <3>1. /\ unsaved' => errors' > 0
          /\ alive' /\ ~unsaved' => Clean(file)' = Clean(held)'
      BY <1>1, <1>2, <1>8 DEF Stashed, Clean
    <3>2. KeysOf(held)' = KeysOf(held) /\ KeysOf(file)' = KeysOf(file)
      BY <1>8 DEF KeysOf
    <3> QED BY <1>2, <1>3, <1>8, <3>1, <3>2 DEF Stashed
  <2> QED BY <1>4, <2>1, <2>2, <2>3 DEF LineInv
<1> QED BY <1>5, <1>6, <1>7, <1>8 DEF Submit

\* A batch is cut off the head of the queue.
LEMMA DrainLines == ASSUME WakeAssumption, LineInv, Drain PROVE LineInv'
<1>1. Types /\ Lines /\ Stashed
  BY DEF LineInv
<1>2. CASE due' = FALSE /\ UNCHANGED <<queued, inflight, rest, phase>>
  <2>1. Types'
    BY <1>1, <1>2 DEF Types, Drain, bounds
  <2> QED BY <1>2, <2>1, OthersKeepLines DEF Drain, bounds
<1>3. ASSUME NEW n \in 1..Len(queued),
             inflight' = SubSeq(queued, 1, n), rest' = inflight',
             queued' = SubSeq(queued, n + 1, Len(queued)), phase' = "turn", due' = due
      PROVE  LineInv'
  <2>1. /\ alive /\ phase = "idle" /\ due
        /\ UNCHANGED <<count, known, timer, dead, aborted, held, heldTimer, out,
                       file, payloads, quiet, alive, unsaved, events, errors>>
    BY DEF Drain, bounds
  <2>2. n \in 0..Len(queued)
    OBVIOUS
  <2>3. /\ rest' \in Seq(Keys) /\ IsInjective(rest') /\ queued' \in Seq(Keys) /\ IsInjective(queued')
        /\ Range(queued) = Range(rest') \cup Range(queued') /\ Range(rest') \cap Range(queued') = {}
    BY <1>1, <1>3, <2>2, Cut DEF Types, Lines
  <2>4. Types'
    BY <1>1, <1>3, <2>1, <2>3 DEF Types
  <2>5. Lines'
    BY <1>1, <1>3, <2>1, <2>3 DEF Lines
  <2>6. Stashed'
    <3>1. /\ unsaved' => errors' > 0
          /\ alive' /\ ~unsaved' => Clean(file)' = Clean(held)'
      BY <1>1, <2>1 DEF Stashed, Clean
    <3>2. KeysOf(held)' = KeysOf(held) /\ KeysOf(file)' = KeysOf(file)
      BY <2>1 DEF KeysOf
    <3> QED BY <1>1, <2>1, <2>3, <3>1, <3>2 DEF Stashed
  <2>7. Forgotten'
    BY <2>1 DEF Forgotten
  <2> QED BY <2>4, <2>5, <2>6, <2>7 DEF LineInv
<1> QED BY <1>2, <1>3 DEF Drain

\* The loop may arm the held timer.
LEMMA DecideTimer ==
    ASSUME heldTimer \in BOOLEAN, NEW b, NEW spoken, Decide(b, spoken)
    PROVE  heldTimer' \in BOOLEAN
  BY DEF Decide, Settle

\* A pre-empted batch is requeued; another is handled.
LEMMA TurnEndsLines == ASSUME WakeAssumption, LineInv, TurnEnds PROVE LineInv'
<1>1. Types /\ Lines /\ Stashed
  BY DEF LineInv
<1>2. /\ alive /\ phase = "turn" /\ aborted' = FALSE
      /\ UNCHANGED <<known, timer, out, payloads, quiet, alive, events>>
  BY DEF TurnEnds
<1>3. CASE aborted
  <2>1. /\ queued' = rest \o queued /\ phase' = "idle" /\ rest' = <<>>
        /\ UNCHANGED <<count, held, heldTimer, file, unsaved, errors, due, dead, inflight>>
    BY <1>3 DEF TurnEnds, Requeue
  <2>2. /\ queued' \in Seq(Keys) /\ IsInjective(queued')
        /\ Range(queued') = Range(rest) \cup Range(queued)
    BY <1>1, <2>1, Joined DEF Types, Lines
  <2>3. Types'
    BY <1>1, <1>2, <2>1, <2>2, Empty DEF Types
  <2>4. Lines'
    BY <1>1, <1>2, <2>1, <2>2, Empty DEF Lines
  <2>5. Stashed'
    <3>1. /\ unsaved' => errors' > 0
          /\ alive' /\ ~unsaved' => Clean(file)' = Clean(held)'
      BY <1>1, <1>2, <2>1 DEF Stashed, Clean
    <3>2. KeysOf(held)' = KeysOf(held) /\ KeysOf(file)' = KeysOf(file)
      BY <2>1 DEF KeysOf
    <3> QED BY <1>1, <1>2, <2>1, <2>2, <3>1, <3>2, Empty DEF Stashed
  <2>6. Forgotten'
    BY <1>2 DEF Forgotten
  <2> QED BY <2>3, <2>4, <2>5, <2>6 DEF LineInv
<1>4. CASE ~aborted
  <2>1. Decide(rest, {}) /\ Closed(inflight) /\ UNCHANGED queued
    BY <1>4 DEF TurnEnds
  <2>2. heldTimer' \in BOOLEAN
    BY DecideTimer, <1>1, <2>1 DEF Types
  <2>3. ~dead /\ IsInjective(rest) /\ rest \in Seq(Keys)
    BY <1>1, <1>2 DEF Lines, Types
  <2> QED BY <1>1, <1>2, <2>1, <2>2, <2>3, DecideKeepsLines DEF WakeAssumption
<1> QED BY <1>3, <1>4

\* The head of the batch is announced, the loop goes on.
LEMMA SpokenLines == ASSUME WakeAssumption, LineInv, Spoken PROVE LineInv'
<1>1. Types /\ Lines /\ Stashed
  BY DEF LineInv
<1>2. /\ alive /\ phase = "speaking" /\ rest # <<>> /\ ~dead
      /\ Decide(Tail(rest), {Head(rest)}) /\ Closed(inflight)
      /\ UNCHANGED <<queued, known, timer, aborted, out, payloads, quiet, alive, events>>
  BY <1>1 DEF Spoken, Lines
<1>3. heldTimer' \in BOOLEAN
  BY DecideTimer, <1>1, <1>2 DEF Types
<1>4. /\ Tail(rest) \in Seq(Keys) /\ IsInjective(Tail(rest)) /\ Head(rest) = rest[1]
      /\ Range(rest) = {rest[1]} \cup Range(Tail(rest)) /\ rest[1] \notin Range(Tail(rest))
  BY <1>1, <1>2, Headed DEF Types, Lines
<1>5. {Head(rest)} \cap Range(Tail(rest)) = {} /\ Range(rest) = Range(Tail(rest)) \cup {Head(rest)}
  BY <1>4
<1>6. aborted' \in BOOLEAN
  BY <1>1, <1>2 DEF Types
<1> QED BY <1>2, <1>3, <1>4, <1>5, <1>6, DecideKeepsLines DEF WakeAssumption

-----------------------------------------------------------------------------
(* Where triggers wait: quiet hours, crashes and restarts. *)

\* One key less.
LEMMA LessIsHeld ==
    ASSUME IsFiniteSet(Keys), NEW h \in HeldNums, NEW k \in Keys
    PROVE  /\ [h EXCEPT !.by[k] = 0] \in HeldNums
           /\ Size([h EXCEPT !.by[k] = 0]) = Size(h) - h.by[k] /\ h.by[k] <= Size(h)
           /\ KeysOf([h EXCEPT !.by[k] = 0]) \subseteq KeysOf(h)
<1> DEFINE f == [h.by EXCEPT ![k] = 0]
           n == h.by[k]
<1>1. h.by \in Nums /\ h.more \in Nat /\ h = [by |-> h.by, more |-> h.more] /\ n \in Nat
  BY DEF HeldNums, Nums
<1>2. f \in Nums /\ f[k] = 0
  BY <1>1 DEF Nums
<1> DEFINE g == [f EXCEPT ![k] = @ + n]
<1>10. g = h.by
  <2>1. \A j \in Keys : g[j] = h.by[j]
    BY <1>1 DEF Nums
  <2>2. g \in Nums
    BY <1>1, <1>2 DEF Nums
  <2> HIDE DEF g
  <2> QED BY <1>1, <2>1, <2>2 DEF Nums
<1>3. [h EXCEPT !.by[k] = 0] = [by |-> f, more |-> h.more]
  BY <1>1
<1>4. \A j \in Keys \ {k} : f[j] = h.by[j]
  BY <1>1 DEF Nums
<1> HIDE DEF f, n
<1>5. Total(h.by) = Total(f) + n /\ Total(f) \in Nat
  BY <1>1, <1>2, <1>10, TotalGrows, TotalIsNat
<1>6. Size(h) = Total(h.by) + h.more /\ Size([h EXCEPT !.by[k] = 0]) = Total(f) + h.more
  BY <1>3 DEF Size
<1>7. KeysOf([h EXCEPT !.by[k] = 0]) \subseteq KeysOf(h)
  BY <1>2, <1>3, <1>4 DEF KeysOf
<1>8. [h EXCEPT !.by[k] = 0] \in HeldNums
  BY <1>1, <1>2, <1>3 DEF HeldNums
<1>9. Size([h EXCEPT !.by[k] = 0]) = Size(h) - n /\ n <= Size(h)
  BY <1>1, <1>5, <1>6
<1> QED BY <1>7, <1>8, <1>9 DEF n

\* h goes out, and nothing of it is held any more.
Released(h) ==
    /\ out' \in HeldNums /\ Size(out') = Size(out) + Size(h) /\ KeysOf(out') = KeysOf(out) \cup KeysOf(h)
    /\ held' = Nothing
    /\ file' = Nothing \/ file' = file
    /\ unsaved' \in BOOLEAN /\ errors' \in Nat
    /\ ~unsaved' => file' = Nothing
    /\ unsaved' => errors' > 0
    /\ errors' = 0 => errors = 0

\* release() releases.
LEMMA ReleaseIs ==
    ASSUME WakeAssumption, out \in HeldNums, errors \in Nat, NEW h \in HeldNums, Release(h)
    PROVE  Released(h)
<1>1. out' = Together(out, h) /\ held' = Nothing /\ SaveHeld(Nothing)
  BY DEF Release
<1> QED BY <1>1, TogetherIs, SaveIs DEF WakeAssumption, Released

\* The held timer fires.
LEMMA HeldTimerLines == ASSUME WakeAssumption, LineInv, HeldTimerFires PROVE LineInv'
<1>1. Types /\ Lines /\ Stashed
  BY DEF LineInv
<1>2. /\ alive /\ heldTimer' = FALSE
      /\ UNCHANGED <<queued, count, known, timer, due, dead, phase, aborted, inflight,
                     rest, payloads, quiet, alive, events>>
  BY DEF HeldTimerFires
<1>3. CASE UNCHANGED <<out, held, file, unsaved, errors>>
  <2>1. Types'
    BY <1>1, <1>2, <1>3 DEF Types
  <2> QED BY <1>2, <1>3, <2>1, OthersKeepLines
<1>4. CASE Release(held)
  <2>1. Released(held)
    BY <1>1, <1>4, ReleaseIs DEF Types
  <2>2. Nothing \in HeldNums /\ KeysOf(Nothing) = {}
    BY NothingIs, CleanOfNothing DEF WakeAssumption
  <2>3. Types'
    BY <1>1, <1>2, <2>1, <2>2 DEF Types, Released
  <2>4. Lines'
    BY <1>1, <1>2 DEF Lines
  <2>5. Stashed'
    <3>1. Clean(file)' = Clean(file') /\ Clean(held)' = Clean(held')
          /\ KeysOf(held)' = KeysOf(held') /\ KeysOf(file)' = KeysOf(file')
      BY DEF Clean, KeysOf
    <3>2. KeysOf(file') \subseteq KeysOf(file) /\ KeysOf(held') = {}
      BY <2>1, <2>2 DEF Released
    <3> QED BY <1>1, <1>2, <2>1, <3>1, <3>2 DEF Stashed, Released
  <2>6. Forgotten'
    BY <1>2 DEF Forgotten
  <2> QED BY <2>3, <2>4, <2>5, <2>6 DEF LineInv
<1> QED BY <1>3, <1>4 DEF HeldTimerFires

\* A released notice is announced.
LEMMA HeldSpokenLines == ASSUME WakeAssumption, LineInv, HeldSpoken PROVE LineInv'
<1>1. Types /\ Lines /\ Stashed
  BY DEF LineInv
<1>2. /\ alive
      /\ UNCHANGED <<queued, count, known, timer, due, dead, phase, aborted, inflight, rest,
                     held, heldTimer, file, payloads, quiet, alive, unsaved, events, errors>>
  BY DEF HeldSpoken, bounds
<1>3. out' \in HeldNums
  <2>1. ASSUME NEW k \in KeysOf(out), out' = [out EXCEPT !.by[k] = 0] PROVE out' \in HeldNums
    BY <1>1, <2>1, LessIsHeld DEF Types, WakeAssumption, KeysOf
  <2>2. Nothing \in HeldNums
    BY NothingIs DEF WakeAssumption
  <2> QED BY <2>1, <2>2 DEF HeldSpoken
<1>4. Types'
  BY <1>1, <1>2, <1>3 DEF Types
<1>5. Lines' /\ Forgotten'
  BY <1>1, <1>2 DEF Lines, Forgotten
<1>6. Stashed'
  <2>1. /\ unsaved' => errors' > 0
        /\ alive' /\ ~unsaved' => Clean(file)' = Clean(held)'
    BY <1>1, <1>2 DEF Stashed, Clean
  <2>2. KeysOf(held)' = KeysOf(held) /\ KeysOf(file)' = KeysOf(file)
    BY <1>2 DEF KeysOf
  <2> QED BY <1>1, <1>2, <2>1, <2>2 DEF Stashed
<1> QED BY <1>4, <1>5, <1>6 DEF LineInv

\* A crash: the memory is gone, the file is not.
LEMMA CrashLines == ASSUME WakeAssumption, LineInv, Crash PROVE LineInv'
<1>1. Types /\ Stashed
  BY DEF LineInv
<1>2. /\ alive' = FALSE
      /\ queued' = <<>> /\ count' = [k \in Keys |-> 0] /\ known' = {}
      /\ timer' = FALSE /\ due' = FALSE /\ dead' = FALSE
      /\ phase' = "idle" /\ aborted' = FALSE /\ inflight' = <<>> /\ rest' = <<>>
      /\ held' = Nothing /\ heldTimer' = FALSE /\ out' = Nothing
      /\ UNCHANGED <<file, payloads, quiet, unsaved, events, errors>>
  BY DEF Crash
<1>3. /\ Nothing \in HeldNums /\ KeysOf(Nothing) = {} /\ <<>> \in Seq(Keys)
      /\ IsInjective(<<>>) /\ Range(<<>>) = {} /\ count' \in Nums /\ \A k \in Keys : count'[k] = 0
  BY <1>2, NothingIs, CleanOfNothing, Empty, ZerosIs DEF WakeAssumption
<1>4. Types'
  BY <1>1, <1>2, <1>3 DEF Types
<1>5. Lines'
  BY <1>2, <1>3 DEF Lines
<1>6. Nothing' = Nothing
  BY DEF Nothing
<1>7. Forgotten'
  BY <1>2, <1>3, <1>6 DEF Forgotten
<1>8. Stashed'
  <2>1. KeysOf(held)' = KeysOf(held') /\ KeysOf(file)' = KeysOf(file)
    BY <1>2 DEF KeysOf
  <2> QED BY <1>1, <1>2, <1>3, <2>1 DEF Stashed
<1> QED BY <1>4, <1>5, <1>7, <1>8 DEF LineInv

\* The constructor loads the file, and may release it.
LEMMA RestartLines == ASSUME WakeAssumption, LineInv, Restart PROVE LineInv'
<1>1. Types /\ Lines /\ Stashed /\ Forgotten
  BY DEF LineInv
<1>2. /\ ~alive /\ alive' = TRUE
      /\ UNCHANGED <<queued, count, known, timer, due, dead, phase, aborted, inflight,
                     rest, payloads, quiet, events>>
  BY DEF Restart
<1>3. PICK h : h = Loaded
  OBVIOUS
<1>4. /\ h = Clean(file) /\ h \in HeldNums /\ KeysOf(h) \subseteq KeysOf(file) /\ Clean(h) = h
      /\ Nothing \in HeldNums /\ KeysOf(Nothing) = {}
  BY <1>1, <1>3, LoadedIsClean, CleanIs, NothingIs, CleanOfNothing DEF Types, WakeAssumption
<1>5. Lines'
  BY <1>1, <1>2 DEF Lines
<1>6. Forgotten'
  BY <1>2 DEF Forgotten
<1>7. Clean(file)' = Clean(file') /\ Clean(held)' = Clean(held')
      /\ KeysOf(held)' = KeysOf(held') /\ KeysOf(file)' = KeysOf(file')
  BY DEF Clean, KeysOf
<1>8. CASE /\ held' = Loaded /\ heldTimer' = (Loaded # Nothing)
           /\ UNCHANGED <<out, file, unsaved, errors>>
  <2>1. Types'
    BY <1>1, <1>2, <1>3, <1>4, <1>8 DEF Types
  <2>2. Stashed'
    BY <1>1, <1>2, <1>3, <1>4, <1>7, <1>8 DEF Stashed
  <2> QED BY <1>5, <1>6, <2>1, <2>2 DEF LineInv
<1>9. CASE Release(Loaded) /\ UNCHANGED heldTimer
  <2>1. Released(h)
    BY <1>1, <1>3, <1>4, <1>9, ReleaseIs DEF Types
  <2>2. Types'
    BY <1>1, <1>2, <1>4, <1>9, <2>1 DEF Types, Released
  <2>3. Stashed'
    <3>1. KeysOf(file') \subseteq KeysOf(file) /\ KeysOf(held') = {}
      BY <1>4, <2>1 DEF Released
    <3> QED BY <1>1, <1>2, <1>7, <2>1, <3>1 DEF Stashed, Released
  <2> QED BY <1>5, <1>6, <2>2, <2>3 DEF LineInv
<1> QED BY <1>8, <1>9 DEF Restart

\* A dedupe window passes.
LEMMA WindowLines == ASSUME LineInv, NEW k \in Keys, WindowPasses(k) PROVE LineInv'
<1>1. Types /\ Lines /\ Stashed /\ Forgotten
  BY DEF LineInv
<1>2. /\ count[k] = 0 /\ known' = known \ {k}
      /\ UNCHANGED <<queued, count, timer, due, dead, phase, aborted, inflight, rest,
                     held, heldTimer, out, file, payloads, quiet, alive, unsaved, events, errors>>
  BY DEF WindowPasses, bounds
<1>3. Types'
  BY <1>1, <1>2 DEF Types
<1>4. Lines'
  BY <1>1, <1>2 DEF Lines
<1>5. Forgotten'
  BY <1>1, <1>2 DEF Forgotten, Nothing
<1>6. Stashed'
  <2>1. /\ unsaved' => errors' > 0
        /\ alive' /\ ~unsaved' => Clean(file)' = Clean(held)'
    BY <1>1, <1>2 DEF Stashed, Clean
  <2>2. KeysOf(held)' = KeysOf(held) /\ KeysOf(file)' = KeysOf(file)
    BY <1>2 DEF KeysOf
  <2> QED BY <1>1, <1>2, <2>1, <2>2 DEF Stashed
<1> QED BY <1>3, <1>4, <1>5, <1>6 DEF LineInv

\* An owner pre-empts.
LEMMA OwnerLines == ASSUME LineInv, Owner PROVE LineInv'
<1>1. Types'
  BY DEF LineInv, Types, Owner
<1> QED BY <1>1, OthersKeepLines DEF Owner

\* The batch timer fires.
LEMMA BatchTimerLines == ASSUME LineInv, BatchTimerFires PROVE LineInv'
<1>1. Types'
  BY DEF LineInv, Types, BatchTimerFires, bounds
<1>2. due' = ~dead
  BY DEF BatchTimerFires
<1> QED BY <1>1, <1>2, OthersKeepLines DEF BatchTimerFires, bounds

\* Nights begin and end.
LEMMA QuietLines == ASSUME LineInv, QuietBegins \/ QuietEnds PROVE LineInv'
<1>1. /\ quiet' \in BOOLEAN
      /\ UNCHANGED <<memory, file, payloads, alive, unsaved, bounds>>
  BY DEF QuietBegins, QuietEnds
<1>2. Types'
  BY <1>1 DEF LineInv, Types, memory, bounds
<1> QED BY <1>1, <1>2, OthersKeepLines DEF memory, bounds

\* Nothing happens.
LEMMA StutterLines == ASSUME LineInv, UNCHANGED vars PROVE LineInv'
<1>1. Types'
  BY DEF LineInv, Types, vars, memory, bounds
<1> QED BY <1>1, OthersKeepLines DEF vars, memory, bounds

\* LineInv is inductive.
LEMMA NextLines == ASSUME WakeAssumption, LineInv, [Next]_vars PROVE LineInv'
<1>1. ASSUME NEW k \in Keys, Submit(k) PROVE LineInv'
  BY <1>1, SubmitLines
<1>2. ASSUME NEW k \in Keys, WindowPasses(k) PROVE LineInv'
  BY <1>2, WindowLines
<1> QED BY <1>1, <1>2, OwnerLines, BatchTimerLines, DrainLines, TurnEndsLines, SpokenLines,
           QuietLines, HeldTimerLines, HeldSpokenLines, CrashLines, RestartLines, StutterLines
        DEF Next

\* It says that payloads are kept.
LEMMA LinesKeepPayloads == ASSUME LineInv PROVE PayloadsAreKept
  BY DEF LineInv, Stashed, PayloadsAreKept

\* Whatever is pruned, the payload of what waits is there (wake-router.ts:210-217).
THEOREM PayloadsSurvive == ASSUME WakeAssumption PROVE Spec => []PayloadsAreKept
<1>1. Init => LineInv
  BY InitLines
<1>2. LineInv /\ [Next]_vars => LineInv'
  BY NextLines
<1>3. LineInv => PayloadsAreKept
  BY LinesKeepPayloads
<1> QED BY <1>1, <1>2, <1>3, PTL DEF Spec

-----------------------------------------------------------------------------
(* How many are promised: numbers. *)

\* Counts of some keys.
LEMMA AmongIs ==
    ASSUME IsFiniteSet(Keys), NEW f \in Nums, NEW S
    PROVE  /\ Among(f, S) \in Nums /\ Total(Among(f, S)) \in Nat /\ Total(f) \in Nat
           /\ Total(Among(f, S)) <= Total(f)
           /\ \A k \in Keys : Among(f, S)[k] = IF k \in S THEN f[k] ELSE 0
<1>1. Among(f, S) \in Nums /\ \A k \in Keys : Among(f, S)[k] = IF k \in S THEN f[k] ELSE 0
  BY DEF Among, Nums
<1>2. \A k \in Keys : Among(f, S)[k] <= f[k]
  BY <1>1 DEF Nums
<1> QED BY <1>1, <1>2, TotalIsNat, TotalIsMonotone

\* Two sets that share no key count for both.
LEMMA AmongTwo ==
    ASSUME IsFiniteSet(Keys), NEW f \in Nums, NEW A, NEW B, A \cap B = {}
    PROVE  Total(Among(f, A \cup B)) = Total(Among(f, A)) + Total(Among(f, B))
<1>1. \A k \in Keys : Among(f, A \cup B)[k] = Among(f, A)[k] + Among(f, B)[k]
  BY DEF Among, Nums
<1>2. Among(f, A \cup B) \in Nums /\ Among(f, A) \in Nums /\ Among(f, B) \in Nums
  BY AmongIs
<1> QED BY <1>1, <1>2, TotalAdds

\* One key counts n more, in all and among some.
LEMMA AmongGrows ==
    ASSUME IsFiniteSet(Keys), NEW f \in Nums, NEW k \in Keys, NEW n \in Nat,
           NEW g \in Nums, g[k] = f[k] + n, \A j \in Keys \ {k} : g[j] = f[j], NEW S
    PROVE  /\ Total(g) = Total(f) + n
           /\ Total(Among(g, S)) = Total(Among(f, S)) + IF k \in S THEN n ELSE 0
<1>0. g = [f EXCEPT ![k] = @ + n]
  BY DEF Nums
<1>1. Total(g) = Total(f) + n
  BY <1>0, TotalGrows
<1>2. Among(f, S) \in Nums /\ Among(g, S) \in Nums
  BY <1>1, AmongIs
<1>3. ASSUME k \in S PROVE Total(Among(g, S)) = Total(Among(f, S)) + n
  <2> DEFINE d == [j \in Keys |-> IF j = k THEN n ELSE 0]
  <2>1. d \in Nums /\ d[k] = n /\ \A j \in Keys \ {k} : d[j] = 0
    BY DEF Nums
  <2>2. \A j \in Keys : Among(g, S)[j] = Among(f, S)[j] + d[j]
    BY <1>3 DEF Among, Nums
  <2> HIDE DEF d
  <2>3. Total(d) = n
    BY <2>1, TotalOfOne
  <2> QED BY <1>2, <2>1, <2>2, <2>3, TotalAdds
<1>4. ASSUME k \notin S PROVE Among(g, S) = Among(f, S)
  <2>1. \A j \in Keys : (IF j \in S THEN g[j] ELSE 0) = (IF j \in S THEN f[j] ELSE 0)
    BY <1>4 DEF Nums
  <2> QED BY <2>1 DEF Among
<1>5. CASE k \in S
  BY <1>1, <1>3, <1>5
<1>6. CASE k \notin S
  <2>1. Total(Among(f, S)) \in Nat /\ Among(g, S) = Among(f, S)
    BY <1>4, <1>6, AmongIs
  <2> QED BY <1>1, <1>6, <2>1
<1> QED BY <1>5, <1>6

\* Some of some.
LEMMA AmongOfAmong ==
    ASSUME NEW f \in Nums, NEW A, NEW B
    PROVE  Among(Among(f, A), B) = Among(f, A \cap B)
  BY DEF Among, Nums

\* The property, by the name used here.
LEMMA PromisedSays == UrgentIsNeverDropped <=> (alive => owed = Promised)
<1>1. [k \in Keys |-> IF k \in Urgent THEN count[k] ELSE 0] = Among(count, Urgent)
  BY DEF Among
<1> QED BY <1>1 DEF UrgentIsNeverDropped, Promised

\* The numbers that Promised and the bounds are made of.
Counted == IF dead THEN 0 ELSE Total(count)
CountedUrgent == IF dead THEN 0 ELSE Total(Among(count, Urgent))

\* They are naturals, in order.
LEMMA Numbers ==
    ASSUME WakeAssumption, Types
    PROVE  /\ Size(held) \in Nat /\ Size(out) \in Nat /\ Size(file) \in Nat
           /\ Size(Clean(file)) \in Nat /\ Size(Clean(file)) <= Size(file)
           /\ Total(count) \in Nat /\ Counted \in Nat /\ CountedUrgent \in Nat
           /\ CountedUrgent <= Counted /\ Counted <= Total(count)
           /\ Promised = Size(held) + Size(out) + CountedUrgent
           /\ events \in Nat /\ events <= MaxEvents
<1>1. Size(held) \in Nat /\ Size(out) \in Nat /\ Size(file) \in Nat
  BY SizeIsNat DEF Types, WakeAssumption
<1>2. Size(Clean(file)) \in Nat /\ Size(Clean(file)) <= Size(file)
  BY CleanIs, SizeIsNat DEF Types, WakeAssumption
<1>3. /\ Total(count) \in Nat /\ Total(Among(count, Urgent)) \in Nat
      /\ Total(Among(count, Urgent)) <= Total(count)
  BY AmongIs DEF Types, WakeAssumption
<1>4. events \in Nat /\ events <= MaxEvents
  BY DEF Types, WakeAssumption
<1> QED BY <1>1, <1>2, <1>3, <1>4 DEF Counted, CountedUrgent, Promised

\* OweInv in terms of them.
LEMMA OweIs ==
    OweInv <=> /\ HeldIsUrgent
               /\ Size(held) + Size(out) + Counted <= events
               /\ Total(count) <= events /\ Size(file) <= events
               /\ owed \in Nat /\ Standing <= owed /\ owed <= events
               /\ Urgent \cap Reports = {} => owed = Standing
  BY DEF OweInv, Counted

\* At first nothing is promised.
LEMMA InitOwe == ASSUME WakeAssumption, Init PROVE OweInv
<1>1. LineInv /\ Types
  BY InitLines DEF LineInv
<1>2. /\ count = [k \in Keys |-> 0] /\ held = Nothing /\ out = Nothing /\ file = Nothing
      /\ owed = 0 /\ events = 0 /\ alive
  BY DEF Init, Quiescent
<1>3. Size(Nothing) = 0 /\ KeysOf(Nothing) = {} /\ Total(count) = 0
  BY <1>1, <1>2, NothingIs, CleanOfNothing, TotalOfNothing, ZerosIs DEF WakeAssumption
<1>4. Counted = 0 /\ CountedUrgent = 0
  BY <1>1, <1>3, Numbers
<1>5. Promised = 0 /\ Standing = 0
  BY <1>1, <1>2, <1>3, <1>4, Numbers DEF Standing
<1>6. HeldIsUrgent
  BY <1>2, <1>3 DEF HeldIsUrgent
<1>7. OweInv
  BY <1>2, <1>3, <1>4, <1>5, <1>6, OweIs
<1> QED BY <1>7

\* OweInv', from the numbers after a step.
LEMMA OweAfter ==
    ASSUME KeysOf(held') \cup KeysOf(out') \cup KeysOf(file') \subseteq Urgent,
           NEW c, c = IF dead' THEN 0 ELSE Total(count'),
           NEW u, u = IF dead' THEN 0 ELSE Total(Among(count', Urgent)),
           Size(held') + Size(out') + c <= events',
           Total(count') <= events', Size(file') <= events',
           NEW w, w = IF alive' THEN Size(held') + Size(out') + u ELSE Size(Clean(file')),
           owed' \in Nat, w <= owed', owed' <= events', Urgent \cap Reports = {} => owed' = w
    PROVE  OweInv'
<1>1. /\ Clean(file)' = Clean(file') /\ Size(Clean(file))' = Size(Clean(file'))
      /\ Size(held)' = Size(held') /\ Size(out)' = Size(out') /\ Size(file)' = Size(file')
  BY DEF Clean, Size
<1>2. /\ KeysOf(held)' = KeysOf(held') /\ KeysOf(out)' = KeysOf(out') /\ KeysOf(file)' = KeysOf(file')
      /\ Among(count, Urgent)' = Among(count', Urgent)
  BY DEF KeysOf, Among
<1>3. Standing' = w
  BY <1>1, <1>2 DEF Standing, Promised
<1> QED BY <1>1, <1>2, <1>3 DEF OweInv, HeldIsUrgent

\* What leaves all that is counted alone.
LEMMA OthersKeepOwe ==
    ASSUME WakeAssumption, LineInv, OweInv, events' \in Nat, events <= events',
           UNCHANGED <<count, held, out, file, dead, alive, owed>>
    PROVE  OweInv'
<1>1. /\ Size(held) \in Nat /\ Size(out) \in Nat /\ Size(file) \in Nat /\ events \in Nat
      /\ Size(Clean(file)) \in Nat /\ Total(count) \in Nat /\ Counted \in Nat
      /\ CountedUrgent \in Nat /\ Promised = Size(held) + Size(out) + CountedUrgent
  BY Numbers DEF LineInv
<1> DEFINE w == Standing
<1>2. /\ w = IF alive THEN Size(held) + Size(out) + CountedUrgent ELSE Size(Clean(file))
      /\ w \in Nat
  BY <1>1 DEF Standing
<1>3. KeysOf(held) \cup KeysOf(out) \cup KeysOf(file) \subseteq Urgent
  BY DEF OweInv, HeldIsUrgent
<1>4. /\ Size(held) + Size(out) + Counted <= events'
      /\ Total(count) <= events' /\ Size(file) <= events'
      /\ owed \in Nat /\ w <= owed /\ owed <= events'
      /\ Urgent \cap Reports = {} => owed = w
  BY <1>1, <1>2, OweIs
<1> HIDE DEF w
<1> QED BY <1>2, <1>3, <1>4, OweAfter DEF Counted, CountedUrgent

\* One more trigger of a key that is queued or in the batch.
LEMMA CountedOnceMore ==
    ASSUME WakeAssumption, LineInv, OweInv, alive, NEW k \in Keys,
           count' = [count EXCEPT ![k] = @ + 1], events' = events + 1,
           owed' = IF dead \/ k \notin Urgent THEN owed ELSE owed + 1,
           UNCHANGED <<held, out, file, dead, alive>>
    PROVE  OweInv'
<1>1. /\ Size(held) \in Nat /\ Size(out) \in Nat /\ Size(file) \in Nat /\ events \in Nat
      /\ Total(count) \in Nat /\ Counted \in Nat /\ CountedUrgent \in Nat
      /\ Promised = Size(held) + Size(out) + CountedUrgent
  BY Numbers DEF LineInv
<1>2. count \in Nums /\ IsFiniteSet(Keys) /\ 1 \in Nat /\ dead \in BOOLEAN
  BY DEF LineInv, Types, WakeAssumption
<1>3. /\ Total(count') = Total(count) + 1
      /\ Total(Among(count', Urgent)) = Total(Among(count, Urgent)) + IF k \in Urgent THEN 1 ELSE 0
  <2>1. ASSUME NEW g \in Nums, NEW n \in Nat, g[k] = count[k] + n,
               \A j \in Keys \ {k} : g[j] = count[j]
        PROVE  /\ Total(g) = Total(count) + n
               /\ Total(Among(g, Urgent)) =
                      Total(Among(count, Urgent)) + IF k \in Urgent THEN n ELSE 0
    <3>1. Total(g) = Total(count) + n
      BY <1>2, <2>1, AmongGrows
    <3>2. Total(Among(g, Urgent)) = Total(Among(count, Urgent)) + IF k \in Urgent THEN n ELSE 0
      BY <1>2, <2>1, AmongGrows
    <3> QED BY <3>1, <3>2
  <2>2. /\ count' \in Nums /\ count'[k] = count[k] + 1
        /\ \A j \in Keys \ {k} : count'[j] = count[j]
    BY <1>2 DEF Nums
  <2> QED BY <1>2, <2>1, <2>2
<1>4. /\ KeysOf(held) \cup KeysOf(out) \cup KeysOf(file) \subseteq Urgent
      /\ Size(held) + Size(out) + Counted <= events
      /\ Total(count) <= events /\ Size(file) <= events
      /\ owed \in Nat /\ Promised <= owed /\ owed <= events
      /\ Urgent \cap Reports = {} => owed = Promised
  BY OweIs DEF HeldIsUrgent, Standing
<1> DEFINE c == IF dead' THEN 0 ELSE Total(count')
           u == IF dead' THEN 0 ELSE Total(Among(count', Urgent))
           w == Size(held') + Size(out') + u
<1>5. CASE dead
  <2>1. c = 0 /\ u = 0 /\ Counted = 0 /\ CountedUrgent = 0 /\ owed' = owed
    BY <1>5 DEF Counted, CountedUrgent
  <2>2. /\ Size(held') + Size(out') + c <= events'
        /\ Total(count') <= events' /\ Size(file') <= events'
        /\ owed' \in Nat /\ w <= owed' /\ owed' <= events'
        /\ Urgent \cap Reports = {} => owed' = w
    BY <1>1, <1>3, <1>4, <2>1
  <2> QED BY <1>4, <2>2, OweAfter
<1>6. CASE ~dead
  <2>1. /\ c = Counted + 1
        /\ u = IF k \in Urgent THEN CountedUrgent + 1 ELSE CountedUrgent
        /\ owed' = IF k \in Urgent THEN owed + 1 ELSE owed
    BY <1>1, <1>3, <1>6 DEF Counted, CountedUrgent
  <2>2. u \in Nat /\ c \in Nat
    BY <1>1, <2>1
  <2>3. /\ Size(held') + Size(out') + c <= events'
        /\ Total(count') <= events' /\ Size(file') <= events'
        /\ owed' \in Nat /\ w <= owed' /\ owed' <= events'
        /\ Urgent \cap Reports = {} => owed' = w
    <3> HIDE DEF c, u
    <3> QED BY <1>1, <1>3, <1>4, <2>1, <2>2
  <2> QED BY <1>4, <2>3, OweAfter
<1> QED BY <1>2, <1>5, <1>6

-----------------------------------------------------------------------------
(* How many are promised: triggers and the loop. *)

\* submit(): one event, and one promise if it is urgent and the pump lives.
LEMMA SubmitOwe == ASSUME WakeAssumption, LineInv, OweInv, NEW k \in Keys, Submit(k) PROVE OweInv'
<1>1. Types /\ Lines
  BY DEF LineInv
<1>2. /\ alive /\ events' = events + 1 /\ UNCHANGED <<dead, out, alive>>
  BY DEF Submit
<1>3. /\ Size(held) \in Nat /\ Size(out) \in Nat /\ Size(file) \in Nat /\ events \in Nat
      /\ Total(count) \in Nat /\ Counted \in Nat /\ CountedUrgent \in Nat
      /\ Promised = Size(held) + Size(out) + CountedUrgent /\ IsFiniteSet(Keys)
  BY <1>1, Numbers DEF WakeAssumption
<1>4. /\ KeysOf(held) \cup KeysOf(out) \cup KeysOf(file) \subseteq Urgent
      /\ Size(held) + Size(out) + Counted <= events
      /\ Total(count) <= events /\ Size(file) <= events
      /\ owed \in Nat /\ Promised <= owed /\ owed <= events
      /\ Urgent \cap Reports = {} => owed = Promised
  BY <1>2, OweIs DEF HeldIsUrgent, Standing
<1>5. CASE /\ k \notin known /\ count' = [count EXCEPT ![k] = 1]
           /\ IF dead THEN UNCHANGED owed ELSE Promise(k)
           /\ UNCHANGED <<held, file>>
  <2>1. count[k] = 0
    BY <1>1, <1>5 DEF Lines
  <2>2. count' = [count EXCEPT ![k] = @ + 1]
    BY <1>5, <2>1
  <2>3. owed' = IF dead \/ k \notin Urgent THEN owed ELSE owed + 1
    BY <1>5 DEF Promise
  <2> QED BY <1>2, <1>5, <2>2, <2>3, CountedOnceMore
<1>6. CASE /\ UNCHANGED <<count, owed>> /\ UNCHANGED <<held, file>>
  BY <1>2, <1>3, <1>6, OthersKeepOwe
<1>7. CASE /\ ~dead /\ count' = [count EXCEPT ![k] = @ + 1] /\ Promise(k)
           /\ UNCHANGED <<held, file>>
  <2>1. owed' = IF dead \/ k \notin Urgent THEN owed ELSE owed + 1
    BY <1>7 DEF Promise
  <2> QED BY <1>2, <1>7, <2>1, CountedOnceMore
<1>8. CASE /\ held.by[k] > 0 /\ held' = [held EXCEPT !.by[k] = @ + 1] /\ SaveHeld(held')
           /\ Promise(k) /\ UNCHANGED count
  <2>1. Size(held') = Size(held) + 1 /\ KeysOf(held') \subseteq KeysOf(held) \cup {k}
    <3>1. PICK n \in Nat : n = 1
      OBVIOUS
    <3>2. held \in HeldNums /\ held' = [held EXCEPT !.by[k] = @ + n]
      BY <1>1, <1>8, <3>1 DEF Types
    <3>3. Size(held') = Size(held) + n /\ KeysOf(held') \subseteq KeysOf(held) \cup {k}
      <4>1. IsFiniteSet(Keys)
        BY <1>3
      <4> QED BY <3>1, <3>2, <4>1, MoreIsHeld, ZenonT(60)
    <3> QED BY <3>1, <3>3
  <2>2. k \in Urgent
    BY <1>4, <1>8 DEF KeysOf
  <2>3. owed' = owed + 1
    BY <1>8, <2>2 DEF Promise
  <2>4. file' = held' \/ file' = file
    BY <1>8 DEF SaveHeld
  <2>5. KeysOf(held') \cup KeysOf(out') \cup KeysOf(file') \subseteq Urgent
    BY <1>2, <1>4, <2>1, <2>2, <2>4
  <2> DEFINE w == Size(held') + Size(out') + CountedUrgent
  <2>6. /\ Size(held') + Size(out') + Counted <= events'
        /\ Total(count') <= events' /\ Size(file') <= events'
        /\ owed' \in Nat /\ w <= owed' /\ owed' <= events'
        /\ Urgent \cap Reports = {} => owed' = w
    BY <1>2, <1>3, <1>4, <1>8, <2>1, <2>3, <2>4
  <2>7. /\ Counted = IF dead' THEN 0 ELSE Total(count')
        /\ CountedUrgent = IF dead' THEN 0 ELSE Total(Among(count', Urgent))
    BY <1>2, <1>8 DEF Counted, CountedUrgent
  <2> QED BY <1>2, <2>5, <2>6, <2>7, OweAfter
<1> QED BY <1>5, <1>6, <1>7, <1>8 DEF Submit

\* The loop: counts move to what is held, are announced or are given up.
LEMMA DecideOwe ==
    ASSUME WakeAssumption, LineInv, OweInv, ~dead, alive,
           NEW b \in Seq(Keys), IsInjective(b), NEW spoken, spoken \subseteq Urgent,
           spoken \cap Range(b) = {},
           Decide(b, spoken), UNCHANGED <<out, alive, events>>
    PROVE  OweInv'
<1>1. Types /\ IsFiniteSet(Keys) /\ count \in Nums /\ Urgent \subseteq Keys /\ held \in HeldNums
  BY DEF LineInv, WakeAssumption, Types
<1>2. PICK D \in SUBSET Range(b) : Holding(D) /\ Written /\ (Went(b, D, spoken) \/ Died)
  BY <1>1, DecideDoes DEF LineInv, Types, Stashed
<1>3. /\ Size(held) \in Nat /\ Size(out) \in Nat /\ Size(file) \in Nat /\ events \in Nat
      /\ Total(count) \in Nat /\ Counted = Total(count)
      /\ CountedUrgent = Total(Among(count, Urgent))
      /\ Promised = Size(held) + Size(out) + CountedUrgent
  BY <1>1, Numbers DEF Counted, CountedUrgent
<1>4. /\ KeysOf(held) \cup KeysOf(out) \cup KeysOf(file) \subseteq Urgent
      /\ Size(held) + Size(out) + Total(count) <= events
      /\ Size(file) <= events
      /\ owed \in Nat /\ Promised <= owed /\ owed <= events
      /\ Urgent \cap Reports = {} => owed = Promised
  BY <1>3, OweIs DEF HeldIsUrgent, Standing
<1> DEFINE U == D \cap Urgent
           G == D \cup spoken
           left == Among(count, Keys \ G)
           newly == Total(Among(count, U))
           told == Total(Among(count, spoken))
           gone == Total(Among(count, G))
           still == Total(Among(left, Urgent))
           u == Total(Among(count, Urgent))
<1>5. /\ newly \in Nat /\ told \in Nat /\ gone \in Nat /\ u \in Nat
      /\ Total(left) \in Nat /\ still \in Nat /\ u <= Total(count)
  BY <1>1, AmongIs
<1>6. Total(count) = gone + Total(left)
  BY <1>1, TotalSplits
<1>7. newly <= gone
  <2>1. \A k \in Keys : Among(count, U)[k] <= Among(count, G)[k]
    BY <1>1 DEF Among, Nums
  <2>2. Among(count, U) \in Nums /\ Among(count, G) \in Nums
    BY <1>1, AmongIs
  <2> QED BY <1>1, <2>1, <2>2, TotalIsMonotone
<1>8. u = newly + told + still
  <2>1. U \cap spoken = {} /\ (U \cup spoken) \cap ((Keys \ G) \cap Urgent) = {}
        /\ Urgent = (U \cup spoken) \cup ((Keys \ G) \cap Urgent)
    BY <1>1, <1>2
  <2>2. Total(Among(count, U \cup spoken)) = newly + told
    BY <1>1, <2>1, AmongTwo
  <2>3. still = Total(Among(count, (Keys \ G) \cap Urgent))
    BY <1>1, AmongOfAmong
  <2>4. u = Total(Among(count, U \cup spoken)) + Total(Among(count, (Keys \ G) \cap Urgent))
    <3> DEFINE A == U \cup spoken
               B == (Keys \ G) \cap Urgent
    <3>1. A \cap B = {} /\ Urgent = A \cup B
      BY <2>1
    <3> HIDE DEF A, B, U, G
    <3>2. Total(Among(count, A \cup B)) = Total(Among(count, A)) + Total(Among(count, B))
      BY <1>1, <3>1, AmongTwo
    <3> QED BY <3>1, <3>2 DEF A, B
  <2> HIDE DEF newly, told, still, u
  <2> QED BY <2>2, <2>3, <2>4
<1>9. /\ Size(held') = Size(held) + newly
      /\ KeysOf(held') \subseteq KeysOf(held) \cup Urgent
      /\ file' = held' \/ file' = file
  BY <1>2 DEF Holding, Written
<1>10. KeysOf(held') \cup KeysOf(out') \cup KeysOf(file') \subseteq Urgent
  BY <1>4, <1>9
<1>11. CASE Went(b, D, spoken)
  <2>1. count' = left /\ owed' = owed - told /\ dead' = FALSE
    BY <1>11 DEF Went
  <2> DEFINE w == Size(held') + Size(out') + still
  <2>2. /\ Size(held') + Size(out') + Total(count') <= events'
        /\ Total(count') <= events' /\ Size(file') <= events'
        /\ owed' \in Nat /\ w <= owed' /\ owed' <= events'
        /\ Urgent \cap Reports = {} => owed' = w
    <3> HIDE DEF newly, told, gone, left, still, u
    <3>1. Promised = Size(held) + Size(out) + u
      BY <1>3 DEF u
    <3>2. /\ Size(out') = Size(out) /\ Total(count') = Total(left) /\ events' = events
          /\ (Size(file') = Size(held') \/ Size(file') = Size(file))
      BY <1>9, <2>1
    <3> DEFINE H == Size(held)
               O == Size(out)
               T == Total(count)
               L == Total(left)
    <3>8. /\ H \in Nat /\ O \in Nat /\ T \in Nat /\ L \in Nat /\ events \in Nat /\ owed \in Nat
          /\ newly \in Nat /\ told \in Nat /\ still \in Nat /\ gone \in Nat
          /\ H + O + T <= events /\ T = gone + L /\ newly <= gone
          /\ H + O + u <= owed /\ owed <= events /\ u = newly + told + still
          /\ Size(file) <= events /\ Size(held') = H + newly
      BY <1>3, <1>4, <1>5, <1>6, <1>7, <1>8, <1>9, <3>1
    <3>3. owed' = owed - told /\ w = Size(held) + newly + Size(out) + still
      BY <1>9, <2>1, <3>2
    <3> HIDE DEF H, O, T, L, w
    <3>9. owed' = owed - told /\ w = H + newly + O + still /\ Size(out') = O /\ Total(count') = L
      BY <3>2, <3>3 DEF H, O, L
    <3>4. owed' \in Nat /\ w <= owed' /\ owed' <= events'
      BY <3>2, <3>8, <3>9
    <3>5. Urgent \cap Reports = {} => owed' = w
      <4> SUFFICES ASSUME Urgent \cap Reports = {} PROVE owed' = w
        OBVIOUS
      <4>1. owed = H + O + u
        BY <1>4, <3>1 DEF H, O
      <4> QED BY <3>8, <3>9, <4>1
    <3>6. Size(held') + Size(out') + Total(count') <= events' /\ Total(count') <= events'
      BY <3>2, <3>8, <3>9
    <3>7. Size(file') <= events'
      BY <3>2, <3>8
    <3> QED BY <3>4, <3>5, <3>6, <3>7
  <2>3. still = Total(Among(count', Urgent))
    BY <2>1
  <2> HIDE DEF still
  <2>4. /\ Total(count') = IF dead' THEN 0 ELSE Total(count')
        /\ still = IF dead' THEN 0 ELSE Total(Among(count', Urgent))
        /\ w = IF alive' THEN Size(held') + Size(out') + still ELSE Size(Clean(file'))
    BY <2>1, <2>3
  <2> HIDE DEF w
  <2> QED BY <1>10, <2>2, <2>4, OweAfter
<1>12. CASE Died
  <2>1. count' = count /\ owed' = Size(held') + Size(out) /\ dead' = TRUE
    BY <1>12 DEF Died
  <2> DEFINE w == Size(held') + Size(out') + 0
  <2>2. /\ Size(held') + Size(out') + 0 <= events'
        /\ Total(count') <= events' /\ Size(file') <= events'
        /\ owed' \in Nat /\ w <= owed' /\ owed' <= events'
        /\ Urgent \cap Reports = {} => owed' = w
    <3> HIDE DEF newly, told, gone, left, still, u
    <3>1. /\ Size(out') = Size(out) /\ Total(count') = Total(count) /\ events' = events
          /\ Size(file') = Size(held') \/ Size(file') = Size(file)
      BY <1>9, <2>1
    <3>2. owed' = Size(held) + newly + Size(out) /\ w = owed' /\ owed' \in Nat
      BY <1>3, <1>5, <1>9, <2>1, <3>1
    <3>3. newly <= Total(count)
      BY <1>5, <1>6, <1>7
    <3> QED BY SMTT(60), <1>3, <1>4, <1>5, <1>9, <3>1, <3>2, <3>3
  <2>3. w = IF alive' THEN Size(held') + Size(out') + 0 ELSE Size(Clean(file'))
    OBVIOUS
  <2> HIDE DEF w
  <2>4. /\ 0 = IF dead' THEN 0 ELSE Total(count')
        /\ 0 = IF dead' THEN 0 ELSE Total(Among(count', Urgent))
    BY <2>1
  <2>5. PICK z : z = 0
    OBVIOUS
  <2> QED BY <1>10, <2>2, <2>3, <2>4, <2>5, OweAfter
<1> QED BY <1>2, <1>11, <1>12

-----------------------------------------------------------------------------
(* How many are promised: quiet hours, crashes and restarts. *)

\* The numbers while the daemon runs.
LEMMA NumbersNow ==
    ASSUME WakeAssumption, LineInv, OweInv, alive
    PROVE  /\ Size(held) \in Nat /\ Size(out) \in Nat /\ Size(file) \in Nat /\ events \in Nat
           /\ Total(count) \in Nat /\ Counted \in Nat /\ CountedUrgent \in Nat
           /\ Promised = Size(held) + Size(out) + CountedUrgent
           /\ KeysOf(held) \cup KeysOf(out) \cup KeysOf(file) \subseteq Urgent
           /\ Size(held) + Size(out) + Counted <= events
           /\ Total(count) <= events /\ Size(file) <= events
           /\ owed \in Nat /\ Promised <= owed /\ owed <= events
           /\ Urgent \cap Reports = {} => owed = Promised
<1>1. Types
  BY DEF LineInv
<1> QED BY <1>1, Numbers, OweIs DEF HeldIsUrgent, Standing

\* A release moves what is held to what is out.
LEMMA HeldTimerOwe == ASSUME WakeAssumption, LineInv, OweInv, HeldTimerFires PROVE OweInv'
<1>1. alive /\ UNCHANGED <<count, dead, alive, owed, events>>
  BY DEF HeldTimerFires
<1>2. CASE UNCHANGED <<out, held, file>>
  <2>1. events \in Nat /\ events <= events
    BY <1>1, NumbersNow
  <2> QED BY <1>1, <1>2, <2>1, OthersKeepOwe
<1>3. CASE Release(held)
  <2>1. Released(held)
    BY <1>3, ReleaseIs DEF LineInv, Types
  <2>2. Size(Nothing) = 0 /\ KeysOf(Nothing) = {}
    BY NothingIs, CleanOfNothing DEF WakeAssumption
  <2>3. /\ Size(held') = 0 /\ Size(out') = Size(out) + Size(held)
        /\ KeysOf(held') \cup KeysOf(out') \cup KeysOf(file') \subseteq Urgent
        /\ (Size(file') = 0 \/ Size(file') = Size(file))
    BY <1>1, <2>1, <2>2, NumbersNow DEF Released
  <2> DEFINE w == Size(held') + Size(out') + CountedUrgent
  <2>4. /\ Size(held') + Size(out') + Counted <= events'
        /\ Total(count') <= events' /\ Size(file') <= events'
        /\ owed' \in Nat /\ w <= owed' /\ owed' <= events'
        /\ Urgent \cap Reports = {} => owed' = w
    BY <1>1, <2>3, NumbersNow
  <2>5. /\ Counted = IF dead' THEN 0 ELSE Total(count')
        /\ CountedUrgent = IF dead' THEN 0 ELSE Total(Among(count', Urgent))
        /\ w = IF alive' THEN Size(held') + Size(out') + CountedUrgent ELSE Size(Clean(file'))
    BY <1>1 DEF Counted, CountedUrgent
  <2> HIDE DEF w
  <2> QED BY <2>3, <2>4, <2>5, OweAfter
<1> QED BY <1>2, <1>3 DEF HeldTimerFires

\* A released notice is announced.
LEMMA HeldSpokenOwe == ASSUME WakeAssumption, LineInv, OweInv, HeldSpoken PROVE OweInv'
<1>1. alive /\ UNCHANGED <<count, dead, held, file, alive, events>>
  BY DEF HeldSpoken, bounds
<1>2. PICK n \in Nat : n <= Size(out) /\ Size(out') = Size(out) - n /\ owed' = owed - n
                       /\ KeysOf(out') \subseteq KeysOf(out)
  <2>1. ASSUME NEW k \in KeysOf(out), out' = [out EXCEPT !.by[k] = 0], owed' = owed - out.by[k]
        PROVE  \E n \in Nat : n <= Size(out) /\ Size(out') = Size(out) - n /\ owed' = owed - n
                              /\ KeysOf(out') \subseteq KeysOf(out)
    <3>1. k \in Keys /\ out \in HeldNums /\ out.by[k] \in Nat /\ IsFiniteSet(Keys)
      BY DEF LineInv, Types, HeldNums, Nums, KeysOf, WakeAssumption
    <3>2. /\ Size(out') = Size(out) - out.by[k] /\ out.by[k] <= Size(out)
          /\ KeysOf(out') \subseteq KeysOf(out)
      BY <2>1, <3>1, LessIsHeld
    <3> QED BY <2>1, <3>1, <3>2
  <2>2. ASSUME KeysOf(out) = {}, out' = Nothing, owed' = owed - out.more
        PROVE  \E n \in Nat : n <= Size(out) /\ Size(out') = Size(out) - n /\ owed' = owed - n
                              /\ KeysOf(out') \subseteq KeysOf(out)
    <3>1. out.by \in Nums /\ out.more \in Nat /\ IsFiniteSet(Keys)
      BY DEF LineInv, Types, HeldNums, WakeAssumption
    <3>2. \A k \in Keys : out.by[k] = 0
      BY <2>2, <3>1 DEF KeysOf, Nums
    <3>3. Size(out) = 0 + out.more
      BY <3>1, <3>2, TotalOfNothing DEF Size
    <3>4. Size(out') = 0 /\ KeysOf(out') = {}
      BY <2>2, <3>1, NothingIs, CleanOfNothing
    <3>5. out.more <= Size(out) /\ Size(out') = Size(out) - out.more
      BY <3>1, <3>3, <3>4
    <3> QED BY <2>2, <3>1, <3>4, <3>5
  <2> QED BY <2>1, <2>2 DEF HeldSpoken
<1>3. KeysOf(held') \cup KeysOf(out') \cup KeysOf(file') \subseteq Urgent
  BY <1>1, <1>2, NumbersNow
<1> DEFINE w == Size(held') + Size(out') + CountedUrgent
<1>4. /\ Size(held') + Size(out') + Counted <= events'
      /\ Total(count') <= events' /\ Size(file') <= events'
      /\ owed' \in Nat /\ w <= owed' /\ owed' <= events'
      /\ Urgent \cap Reports = {} => owed' = w
  BY <1>1, <1>2, NumbersNow
<1>5. /\ Counted = IF dead' THEN 0 ELSE Total(count')
      /\ CountedUrgent = IF dead' THEN 0 ELSE Total(Among(count', Urgent))
      /\ w = IF alive' THEN Size(held') + Size(out') + CountedUrgent ELSE Size(Clean(file'))
  BY <1>1 DEF Counted, CountedUrgent
<1> HIDE DEF w
<1> QED BY <1>3, <1>4, <1>5, OweAfter

\* Unless an urgent trigger is a report, cleaning drops nothing.
LEMMA CleanIfApart ==
    ASSUME WakeAssumption, LineInv, OweInv, Urgent \cap Reports = {}
    PROVE  Clean(file) = file /\ Clean(held) = held
  BY CleanIs DEF WakeAssumption, LineInv, Types, OweInv, HeldIsUrgent

\* After a crash the file stands for what is promised.
LEMMA CrashOwe == ASSUME WakeAssumption, LineInv, OweInv, Crash PROVE OweInv'
<1>1. /\ alive /\ alive' = FALSE /\ owed' = IF unsaved THEN Size(file) ELSE Size(held)
      /\ count' = [k \in Keys |-> 0] /\ dead' = FALSE /\ held' = Nothing /\ out' = Nothing
      /\ UNCHANGED <<file, events>>
  BY DEF Crash
<1>2. /\ Size(Nothing) = 0 /\ KeysOf(Nothing) = {} /\ count' \in Nums /\ \A k \in Keys : count'[k] = 0
      /\ IsFiniteSet(Keys)
  BY <1>1, NothingIs, CleanOfNothing, ZerosIs DEF WakeAssumption
<1>3. Total(count') = 0
  BY <1>2, TotalOfNothing
<1>4. PICK u : u = Total(Among(count', Urgent))
  OBVIOUS
<1> DEFINE w == Size(Clean(file'))
<1>5. w \in Nat /\ w <= Size(file)
  BY <1>1, Numbers DEF LineInv
<1>6. w <= owed' /\ (Urgent \cap Reports = {} => owed' = w)
  <2>1. CASE unsaved
    BY <1>1, <1>5, <2>1, CleanIfApart
  <2>2. CASE ~unsaved
    <3>1. Clean(file) = Clean(held)
      BY <1>1, <2>2 DEF LineInv, Stashed
    <3>2. Size(Clean(held)) <= Size(held)
      BY <1>2, CleanIs DEF LineInv, Types
    <3> QED BY <1>1, <2>2, <3>1, <3>2, CleanIfApart
  <2> QED BY <2>1, <2>2
<1>7. /\ KeysOf(held') \cup KeysOf(out') \cup KeysOf(file') \subseteq Urgent
      /\ Size(held') + Size(out') + 0 <= events' /\ Total(count') <= events' /\ Size(file') <= events'
      /\ owed' \in Nat /\ owed' <= events'
  BY <1>1, <1>2, <1>3, NumbersNow
<1>8. /\ 0 = IF dead' THEN 0 ELSE Total(count')
      /\ u = IF dead' THEN 0 ELSE Total(Among(count', Urgent))
      /\ w = IF alive' THEN Size(held') + Size(out') + u ELSE Size(Clean(file'))
  BY <1>1, <1>3, <1>4
<1> HIDE DEF w
<1>9. PICK c : c = 0
  OBVIOUS
<1> QED BY <1>6, <1>7, <1>8, <1>9, OweAfter

\* After a restart, what was loaded does.
LEMMA RestartOwe == ASSUME WakeAssumption, LineInv, OweInv, Restart PROVE OweInv'
<1>1. /\ ~alive /\ alive' = TRUE /\ UNCHANGED <<count, dead, owed, events>>
  BY DEF Restart
<1>2. /\ held = Nothing /\ out = Nothing /\ ~dead /\ \A k \in Keys : count[k] = 0
      /\ IsFiniteSet(Keys) /\ count \in Nums /\ file \in HeldNums /\ Types
  BY <1>1 DEF LineInv, Forgotten, WakeAssumption, Types
<1>3. PICK h : h = Loaded
  OBVIOUS
<1>4. /\ h = Clean(file) /\ h \in HeldNums /\ KeysOf(h) \subseteq KeysOf(file)
      /\ Size(h) \in Nat /\ Size(h) <= Size(file) /\ Size(file) \in Nat
      /\ Size(Nothing) = 0 /\ KeysOf(Nothing) = {}
  BY <1>2, <1>3, LoadedIsClean, CleanIs, NothingIs, CleanOfNothing, SizeIsNat
<1>5. Total(count) = 0 /\ Total(Among(count, Urgent)) = 0
  <2>1. Among(count, Urgent) \in Nums /\ \A k \in Keys : Among(count, Urgent)[k] = 0
    BY <1>2, AmongIs
  <2> QED BY <1>2, <2>1, TotalOfNothing
<1>6. /\ KeysOf(file) \subseteq Urgent /\ Size(file) <= events
      /\ owed \in Nat /\ Size(h) <= owed /\ owed <= events
      /\ Urgent \cap Reports = {} => owed = Size(h)
      /\ events \in Nat
  BY <1>1, <1>2, <1>4, Numbers DEF OweInv, HeldIsUrgent, Standing
<1>7. /\ Size(held') + Size(out') = Size(h) /\ Size(held') \in Nat /\ Size(out') \in Nat
      /\ KeysOf(held') \cup KeysOf(out') \subseteq KeysOf(file)
      /\ \/ Size(file') = Size(file) /\ KeysOf(file') = KeysOf(file)
         \/ Size(file') = 0 /\ KeysOf(file') = {}
  <2>1. CASE held' = Loaded /\ UNCHANGED <<out, file>>
    <3>1. /\ Size(held') = Size(h) /\ KeysOf(held') = KeysOf(h)
          /\ Size(out') = 0 /\ KeysOf(out') = {}
          /\ Size(file') = Size(file) /\ KeysOf(file') = KeysOf(file)
      BY <1>2, <1>3, <1>4, <2>1
    <3> QED BY <1>4, <3>1
  <2>2. CASE Release(Loaded)
    <3>1. Released(h)
      BY <1>2, <1>3, <1>4, <2>2, ReleaseIs DEF Types
    <3>2. Size(out') = 0 + Size(h) /\ KeysOf(out') = KeysOf(h)
      BY <1>2, <1>4, <3>1 DEF Released
    <3>3. held' = Nothing /\ (file' = Nothing \/ file' = file)
      BY <3>1 DEF Released
    <3> QED BY <1>4, <3>2, <3>3
  <2> QED BY <2>1, <2>2 DEF Restart
<1> DEFINE w == Size(held') + Size(out') + 0
<1>8. /\ KeysOf(held') \cup KeysOf(out') \cup KeysOf(file') \subseteq Urgent
      /\ Size(held') + Size(out') + 0 <= events' /\ Total(count') <= events' /\ Size(file') <= events'
      /\ owed' \in Nat /\ w <= owed' /\ owed' <= events'
      /\ Urgent \cap Reports = {} => owed' = w
  BY <1>1, <1>4, <1>5, <1>6, <1>7
<1>9. /\ 0 = IF dead' THEN 0 ELSE Total(count')
      /\ 0 = IF dead' THEN 0 ELSE Total(Among(count', Urgent))
      /\ w = IF alive' THEN Size(held') + Size(out') + 0 ELSE Size(Clean(file'))
  BY <1>1, <1>5
<1> HIDE DEF w
<1>10. PICK c : c = 0
  OBVIOUS
<1> QED BY <1>8, <1>9, <1>10, OweAfter

-----------------------------------------------------------------------------
(* The theorems. *)

\* A pre-empted batch keeps its counts.
LEMMA TurnEndsOwe == ASSUME WakeAssumption, LineInv, OweInv, TurnEnds PROVE OweInv'
<1>1. Types /\ Lines /\ events \in Nat
  BY DEF LineInv, Types, WakeAssumption
<1>2. alive /\ phase = "turn" /\ UNCHANGED <<out, alive, events>>
  BY DEF TurnEnds
<1>3. CASE aborted
  <2>1. UNCHANGED <<count, held, out, file, dead, alive, owed>>
    BY <1>2, <1>3 DEF TurnEnds
  <2>2. events' \in Nat /\ events <= events'
    BY <1>1, <1>2
  <2> QED BY <2>1, <2>2, OthersKeepOwe
<1>4. CASE ~aborted
  <2>1. Decide(rest, {})
    BY <1>4 DEF TurnEnds
  <2>2. ~dead /\ rest \in Seq(Keys) /\ IsInjective(rest)
    BY <1>1, <1>2 DEF Types, Lines
  <2>3. {} \subseteq Urgent /\ {} \cap Range(rest) = {}
    OBVIOUS
  <2> QED BY <1>2, <2>1, <2>2, <2>3, DecideOwe
<1> QED BY <1>3, <1>4

\* An urgent head that is announced is not owed any more.
LEMMA SpokenOwe == ASSUME WakeAssumption, LineInv, OweInv, Spoken PROVE OweInv'
<1>1. Types /\ Lines
  BY DEF LineInv
<1>2. /\ alive /\ phase = "speaking" /\ rest # <<>> /\ rest[1] \in Urgent /\ ~dead
      /\ Decide(Tail(rest), {Head(rest)}) /\ UNCHANGED <<out, alive, events>>
  BY <1>1 DEF Spoken, Lines
<1>3. /\ Tail(rest) \in Seq(Keys) /\ IsInjective(Tail(rest)) /\ Head(rest) = rest[1]
      /\ rest[1] \notin Range(Tail(rest))
  BY <1>1, <1>2, Headed DEF Types, Lines
<1>4. {Head(rest)} \subseteq Urgent /\ {Head(rest)} \cap Range(Tail(rest)) = {}
  BY <1>2, <1>3
<1> QED BY <1>2, <1>3, <1>4, DecideOwe

\* OweInv is inductive, with LineInv.
LEMMA NextOwe == ASSUME WakeAssumption, LineInv, OweInv, [Next]_vars PROVE OweInv'
<1>1. events \in Nat
  BY DEF LineInv, Types, WakeAssumption
<1>2. ASSUME NEW k \in Keys, Submit(k) PROVE OweInv'
  BY <1>2, SubmitOwe
<1>3. ASSUME \/ \E k \in Keys : WindowPasses(k)
             \/ Owner \/ BatchTimerFires \/ Drain \/ QuietBegins \/ QuietEnds
             \/ UNCHANGED vars
      PROVE  UNCHANGED <<count, held, out, file, dead, alive, owed>> /\ events' = events
  BY <1>3 DEF WindowPasses, Owner, BatchTimerFires, Drain, QuietBegins, QuietEnds, vars,
              memory, bounds
<1>4. ASSUME \/ \E k \in Keys : WindowPasses(k)
             \/ Owner \/ BatchTimerFires \/ Drain \/ QuietBegins \/ QuietEnds
             \/ UNCHANGED vars
      PROVE  OweInv'
  <2>1. UNCHANGED <<count, held, out, file, dead, alive, owed>>
    BY <1>3, <1>4
  <2>2. events' \in Nat /\ events <= events'
    BY <1>1, <1>3, <1>4
  <2> QED BY <2>1, <2>2, OthersKeepOwe
<1> QED BY <1>2, <1>4, TurnEndsOwe, SpokenOwe, HeldTimerOwe, HeldSpokenOwe, CrashOwe, RestartOwe
        DEF Next

\* "An urgent event is never dropped" (wake-router.ts:16): its count is in the
\* queue, the batch, held, released or on disk, until it is announced, if the
\* payload of every urgent trigger is a file of the wake folder.
THEOREM UrgentSurvives ==
    ASSUME WakeAssumption, Urgent \cap Reports = {} PROVE Spec => []UrgentIsNeverDropped
<1>1. Init => LineInv /\ OweInv
  BY InitLines, InitOwe
<1>2. (LineInv /\ OweInv) /\ [Next]_vars => (LineInv /\ OweInv)'
  BY NextLines, NextOwe
<1>3. LineInv /\ OweInv => UrgentIsNeverDropped
  BY PromisedSays DEF OweInv, Standing
<1> QED BY <1>1, <1>2, <1>3, PTL DEF Spec

\* Counts within a total.
LEMMA CountsAreBounded ==
    ASSUME IsFiniteSet(Keys), NEW f \in Nums, NEW n \in Nat, Total(f) <= n
    PROVE  f \in [Keys -> 0..n]
<1>1. ASSUME NEW k \in Keys PROVE f[k] \in 0..n
  <2>1. f[k] <= Total(f) /\ f[k] \in Nat /\ Total(f) \in Nat
    BY TotalCoversEach, TotalIsNat DEF Nums
  <2> QED BY <2>1
<1> QED BY <1>1 DEF Nums

\* What is held is within the number of events.
LEMMA HeldIsBounded ==
    ASSUME WakeAssumption, NEW h \in HeldNums, Size(h) <= MaxEvents PROVE h \in HeldRecs
<1>1. h.by \in Nums /\ h.more \in Nat /\ MaxEvents \in Nat /\ IsFiniteSet(Keys)
      /\ h = [by |-> h.by, more |-> h.more]
  BY DEF HeldNums, WakeAssumption
<1>2. Total(h.by) \in Nat
  BY <1>1, TotalIsNat
<1>3. Total(h.by) <= MaxEvents /\ h.more \in 0..MaxEvents
  BY <1>1, <1>2 DEF Size
<1>4. h.by \in [Keys -> 0..MaxEvents]
  BY <1>1, <1>3, CountsAreBounded
<1> QED BY <1>1, <1>3, <1>4 DEF HeldRecs

\* A queue is no longer than there are keys.
LEMMA LinesAreShort ==
    ASSUME IsFiniteSet(Keys), NEW s \in Seq(Keys), IsInjective(s)
    PROVE  s \in SeqOf(Keys, Cardinality(Keys))
<1>1. Len(s) \in Nat /\ s \in [1..Len(s) -> Keys] /\ DOMAIN s = 1..Len(s)
  OBVIOUS
<1>2. s \in Injection(1..Len(s), Keys)
  BY <1>1 DEF Injection, IsInjective
<1>3. PICK n \in Nat : n = Len(s)
  BY <1>1
<1>4. Cardinality(1..n) = n
  BY FS_Interval
<1>5. Cardinality(1..Len(s)) <= Cardinality(Keys) /\ Cardinality(Keys) \in Nat
  BY <1>2, FS_Injection, FS_CardinalityType
<1>6. Len(s) \in 0..Cardinality(Keys)
  BY <1>1, <1>3, <1>4, <1>5
<1> QED BY <1>1, <1>6 DEF SeqOf

\* The invariant bounds every count by the number of events.
LEMMA TypesAre == ASSUME WakeAssumption, LineInv, OweInv PROVE TypeOK
<1>1. Types /\ Lines
  BY DEF LineInv
<1>2. IsFiniteSet(Keys) /\ MaxEvents \in Nat /\ events \in Nat /\ events <= MaxEvents
  BY <1>1 DEF Types, WakeAssumption
<1>3. /\ Size(held) \in Nat /\ Size(out) \in Nat /\ Size(file) \in Nat
      /\ Total(count) \in Nat /\ Counted \in Nat
  BY <1>1, Numbers
<1>4. /\ Size(held) + Size(out) + Counted <= events /\ Total(count) <= events
      /\ Size(file) <= events /\ owed \in Nat /\ owed <= events
  BY OweIs
<1>5. Size(held) <= MaxEvents /\ Size(out) <= MaxEvents /\ Size(file) <= MaxEvents
      /\ Total(count) <= MaxEvents /\ owed \in 0..MaxEvents
  BY <1>2, <1>3, <1>4
<1>6. held \in HeldRecs /\ out \in HeldRecs /\ file \in HeldRecs
  BY <1>1, <1>5, HeldIsBounded DEF Types
<1>7. count \in [Keys -> 0..MaxEvents]
  BY <1>1, <1>2, <1>5, CountsAreBounded DEF Types
<1>8. {queued, inflight, rest} \subseteq SeqOf(Keys, Cardinality(Keys))
  BY <1>1, <1>2, LinesAreShort DEF Types, Lines
<1> QED BY <1>1, <1>5, <1>6, <1>7, <1>8 DEF TypeOK, Types

\* Every variable keeps its type, counts bounded by the events included.
THEOREM TypeCorrect == ASSUME WakeAssumption PROVE Spec => []TypeOK
<1>1. Init => LineInv /\ OweInv
  BY InitLines, InitOwe
<1>2. (LineInv /\ OweInv) /\ [Next]_vars => (LineInv /\ OweInv)'
  BY NextLines, NextOwe
<1>3. LineInv /\ OweInv => TypeOK
  BY TypesAre
<1> QED BY <1>1, <1>2, <1>3, PTL DEF Spec
=============================================================================
