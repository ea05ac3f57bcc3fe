----------------------------- MODULE JoinerProofs -----------------------------
(***************************************************************************)
(* Proofs about Joiner, for any candidates, pages of the tools, party and  *)
(* answers of the model: the cards are about our candidates, a verdict     *)
(* made without the model has a witness, an image that a tool brought is   *)
(* the candidate's own, and every card has its type.  The invariant behind *)
(* them is PhaseInv: what the filter left is about its candidate, an image *)
(* came with what it left, and the cards are the repaired answer or, when  *)
(* nothing is left of it, the fallback's.                                  *)
(***************************************************************************)
EXTENDS Joiner, FiniteSetTheorems, FunctionTheorems, WellFoundedInduction, TLAPS

-------------------------------------------------------------------------------
(* Lists.                                                                  *)

Ahead(P, k) == {j \in P : j < k}

\* The later of two places has more places before it.
LEMMA LaterHasMore ==
  ASSUME NEW P \in SUBSET Nat, IsFiniteSet(P), NEW k \in P, NEW l \in P, k < l
  PROVE  /\ Cardinality(Ahead(P, k)) \in Nat /\ Cardinality(Ahead(P, l)) \in Nat
         /\ Cardinality(Ahead(P, k)) < Cardinality(Ahead(P, l))
  <1> DEFINE AK == Ahead(P, k)
             AL == Ahead(P, l)
  <1>1. AK \in SUBSET P /\ AL \in SUBSET P /\ AK \cup {k} \in SUBSET AL /\ k \notin AK
    <2>1. \A j \in P : j < k => j < l
      OBVIOUS
    <2>2. ~(k < k)
      OBVIOUS
    <2>3. QED BY <2>1, <2>2 DEF Ahead
  <1>2. IsFiniteSet(AK) /\ IsFiniteSet(AL)
    BY <1>1, FS_Subset
  <1>3. Cardinality(AK \cup {k}) = Cardinality(AK) + 1
    BY <1>1, <1>2, FS_AddElement
  <1>4. Cardinality(AK \cup {k}) <= Cardinality(AL)
    BY <1>1, <1>2, FS_Subset
  <1>5. Cardinality(AK) \in Nat /\ Cardinality(AL) \in Nat
    BY <1>2, FS_CardinalityType
  <1> HIDE DEF AK, AL
  <1>6. Cardinality(AK) < Cardinality(AL)
    BY <1>3, <1>4, <1>5
  <1>7. QED BY <1>5, <1>6 DEF AK, AL

\* As many places stand before one of them as its number says.
LEMMA PlacesInOrder ==
  ASSUME NEW P \in SUBSET Nat, IsFiniteSet(P)
  PROVE  /\ Cardinality(P) \in Nat
         /\ \A k \in P : Cardinality(Ahead(P, k)) \in 0..(Cardinality(P) - 1)
         /\ \A i \in 0..(Cardinality(P) - 1) : \E k \in P : Cardinality(Ahead(P, k)) = i
  <1> DEFINE n == Cardinality(P)
             f == [k \in P |-> Cardinality(Ahead(P, k))]
  <1>1. n \in Nat
    BY FS_CardinalityType
  <1>2. ASSUME NEW k \in P
        PROVE  Cardinality(Ahead(P, k)) \in 0..(n - 1)
    <2>1. Ahead(P, k) \in SUBSET (P \ {k})
      BY DEF Ahead
    <2>2. IsFiniteSet(P \ {k}) /\ Cardinality(P \ {k}) = n - 1
      BY FS_RemoveElement
    <2>3. IsFiniteSet(Ahead(P, k)) /\ Cardinality(Ahead(P, k)) <= n - 1
      BY <2>1, <2>2, FS_Subset
    <2>4. Cardinality(Ahead(P, k)) \in Nat
      BY <2>3, FS_CardinalityType
    <2> HIDE DEF n
    <2>5. QED BY <1>1, <2>3, <2>4
  <1>3. ASSUME NEW k \in P, NEW l \in P, f[k] = f[l]
        PROVE  k = l
    <2>1. ~(k < l)
      <3>1. SUFFICES ASSUME k < l PROVE FALSE
        OBVIOUS
      <3>2. QED BY <1>3, <3>1, LaterHasMore
    <2>2. ~(l < k)
      <3>1. SUFFICES ASSUME l < k PROVE FALSE
        OBVIOUS
      <3>2. QED BY <1>3, <3>1, LaterHasMore
    <2>3. QED BY <2>1, <2>2
  <1>4. f \in Injection(P, 0..(n - 1))
    BY <1>2, <1>3 DEF Injection, IsInjective
  <1>5. IsFiniteSet(0..(n - 1)) /\ Cardinality(0..(n - 1)) = n
    <2> HIDE DEF n
    <2>1. 0 \in Int /\ n - 1 \in Int
      BY <1>1
    <2>2. QED BY <1>1, <2>1, FS_Interval
  <1>6. f \in Surjection(P, 0..(n - 1))
    <2> HIDE DEF f
    <2>1. QED BY <1>4, <1>5, FS_Injection
  <1>7. QED BY <1>1, <1>2, <1>6 DEF Surjection

\* What Kept() keeps: the members at those places, each of them, and nothing else.
LEMMA KeptMembers ==
  ASSUME NEW S, NEW list \in Seq(S), NEW P \in SUBSET (DOMAIN list)
  PROVE  /\ Kept(list, P) \in Seq({list[k] : k \in P})
         /\ \A i \in DOMAIN Kept(list, P) : \E k \in P : Kept(list, P)[i] = list[k]
         /\ \A k \in P : \E i \in DOMAIN Kept(list, P) : Kept(list, P)[i] = list[k]
         /\ Kept(list, P) = <<>> <=> P = {}
  <1> DEFINE n == Cardinality(P)
             kept == Kept(list, P)
  <1>1. P \in SUBSET Nat /\ IsFiniteSet(P)
    <2>1. Len(list) \in Nat /\ DOMAIN list = 1..Len(list)
      OBVIOUS
    <2>2. IsFiniteSet(1..Len(list))
      BY <2>1, FS_Interval
    <2>3. QED BY <2>1, <2>2, FS_Subset
  <1>2. n \in Nat
    BY <1>1, PlacesInOrder
  <1> DEFINE At(i) == CHOOSE k \in P : Cardinality({j \in P : j < k}) = i - 1
  <1>3. ASSUME NEW i \in 1..n
        PROVE  At(i) \in P /\ Cardinality(Ahead(P, At(i))) = i - 1
    <2>1. i - 1 \in 0..(n - 1)
      <3> HIDE DEF n, At
      <3>1. QED BY <1>2, <1>3
    <2>2. \E k \in P : Cardinality(Ahead(P, k)) = i - 1
      BY <1>1, <2>1, PlacesInOrder
    <2>3. QED BY <2>2 DEF Ahead
  <1>4. DOMAIN kept = 1..n /\ \A i \in 1..n : kept[i] = list[At(i)]
    BY DEF Kept
  <1>5. kept \in [1..n -> {list[k] : k \in P}]
    BY <1>3 DEF Kept
  <1>6. ASSUME NEW k \in P
        PROVE  \E i \in 1..n : kept[i] = list[k]
    <2>1. PICK m \in 0..(n - 1) : Cardinality(Ahead(P, k)) = m
      BY <1>1, PlacesInOrder
    <2>2. m + 1 \in 1..n /\ (m + 1) - 1 = m
      <3> HIDE DEF n
      <3>1. QED BY <1>2, <2>1
    <2>3. At(m + 1) \in P /\ Cardinality(Ahead(P, At(m + 1))) = m
      BY <1>3, <2>2
    <2> HIDE DEF At
    <2>4. ~(k < At(m + 1)) /\ ~(At(m + 1) < k)
      <3>1. ASSUME k < At(m + 1) PROVE FALSE
        BY <1>1, <2>1, <2>3, <3>1, LaterHasMore
      <3>2. ASSUME At(m + 1) < k PROVE FALSE
        BY <1>1, <2>1, <2>3, <3>2, LaterHasMore
      <3>3. QED BY <3>1, <3>2
    <2>5. k \in Nat /\ At(m + 1) \in Nat
      BY <1>1, <2>3
    <2>6. At(m + 1) = k
      BY <2>4, <2>5
    <2>7. QED BY <1>4, <2>2, <2>6
  <1> HIDE DEF n, kept, At
  <1>7. kept \in Seq({list[k] : k \in P}) /\ Len(kept) = n
    BY <1>2, <1>5
  <1>8. kept = <<>> <=> n = 0
    BY <1>2, <1>7
  <1>9. n = 0 <=> P = {}
    BY <1>1, FS_EmptySet DEF n
  <1>10. QED BY <1>3, <1>4, <1>6, <1>7, <1>8, <1>9 DEF kept

\* A set of numbers up to n has a largest element.
LEMMA LargestNatural ==
  ASSUME NEW n \in Nat, NEW S \in SUBSET (1..n), S # {}
  PROVE  \E m \in S : \A k \in S : k <= m
  <1> DEFINE T == {n - k : k \in S}
  <1>1. T \in SUBSET Nat /\ T # {}
    <2>1. \A k \in S : n - k \in Nat
      OBVIOUS
    <2>2. QED BY <2>1
  <1>2. PICK t \in T : \A u \in T : ~(<<u, t>> \in OpToRel(<, Nat))
    BY <1>1, NatLessThanWellFounded, WFMin
  <1>3. \A u \in T : ~(u < t)
    BY <1>1, <1>2 DEF OpToRel
  <1>4. PICK m \in S : t = n - m
    OBVIOUS
  <1>5. \A k \in S : ~(n - k < n - m)
    BY <1>3, <1>4
  <1>6. QED BY <1>5

\* A name that is known has a candidate.
LEMMA KnownHasCandidate ==
  ASSUME NEW name, Known(name) # {}
  PROVE  CandidateOf(name) \in Known(name) /\ CandidateOf(name) \in Cards
  <1>1. Len(Names) \in Nat /\ Cards = 1..Len(Names)
    BY JoinerConstants DEF JoinerConstants, Cards
  <1>2. Known(name) \in SUBSET (1..Len(Names))
    BY <1>1 DEF Known
  <1>3. \E c \in Known(name) : \A d \in Known(name) : d <= c
    BY <1>1, <1>2, LargestNatural
  <1>4. CandidateOf(name) \in Known(name)
    BY <1>3 DEF CandidateOf
  <1>5. QED BY <1>4 DEF Known

\* A candidate is among those of its own name, and its image is that of the last of them.
LEMMA NamesOfCards ==
  ASSUME NEW c \in Cards
  PROVE  /\ c \in Known(Names[c]) /\ CandidateOf(Names[c]) \in Known(Names[c])
         /\ CandidateOf(Names[c]) \in Cards
         /\ ImageOf(c) = images[CandidateOf(Names[c])]
  BY KnownHasCandidate DEF Known, ImageOf

\* The verdict of some evidence has its witness.
LEMMA VerdictFits ==
  ASSUME NEW E, NEW n \in BOOLEAN
  PROVE  /\ Verdict(E, n) = "local_gem" => Gem(E)
         /\ Verdict(E, n) = "tourist_trap" => Trap(E)
         /\ E = {} => Verdict(E, n) = "insufficient"
  <1>1. E = {} => ~Gem(E) /\ ~Trap(E)
    BY DEF Gem, Trap
  <1>2. QED BY <1>1 DEF Verdict

-------------------------------------------------------------------------------
(* Evidence.                                                               *)

\* The members of a sequence.
LEMMA Members ==
  ASSUME NEW S, NEW list \in Seq(S)
  PROVE  /\ ToSet(list) \in SUBSET S /\ list \in Seq(ToSet(list))
         /\ \A i \in 1..Len(list) : list[i] \in ToSet(list)
         /\ \A x \in ToSet(list) : \E i \in 1..Len(list) : x = list[i]
         /\ ToSet(list) = {} <=> list = <<>>
  <1>1. Len(list) \in Nat /\ DOMAIN list = 1..Len(list) /\ list \in [1..Len(list) -> S]
    OBVIOUS
  <1>2. ToSet(list) = {list[i] : i \in 1..Len(list)}
    BY <1>1 DEF ToSet
  <1> DEFINE T == {list[i] : i \in 1..Len(list)}
  <1>3. T \in SUBSET S /\ \A i \in 1..Len(list) : list[i] \in T
    BY <1>1
  <1>4. list \in [1..Len(list) -> T]
    BY <1>1, <1>3
  <1>5. list \in Seq(T)
    <2> HIDE DEF T
    <2>1. QED BY <1>1, <1>4
  <1>6. T = {} <=> Len(list) = 0
    <2>1. Len(list) = 0 => T = {}
      BY <1>1
    <2>2. Len(list) # 0 => list[1] \in T
      BY <1>1, <1>3
    <2>3. QED BY <2>1, <2>2
  <1>7. Len(list) = 0 <=> list = <<>>
    OBVIOUS
  <1>8. QED BY <1>2, <1>3, <1>5, <1>6, <1>7

\* Two sequences in a row.
LEMMA Joined ==
  ASSUME NEW S, NEW a \in Seq(S), NEW b \in Seq(S)
  PROVE  a \o b \in Seq(S)
  OBVIOUS

\* What is shown of three lists comes from them, and is no more than the limit.
LEMMA ShownEvidence ==
  ASSUME NEW S, NEW a \in Seq(S), NEW b \in Seq(S), NEW d \in Seq(S)
  PROVE  /\ \A e \in ToSet(InOrder(a, b, d)) :
              \/ e.source = "reddit" /\ e.hit \in ToSet(a)
              \/ e.source = "xiaohongshu" /\ e.hit \in ToSet(b)
              \/ e.source = "foursquare" /\ e.hit \in ToSet(d)
         /\ InOrder(a, b, d) \in Seq([source : SourceSet, hit : S])
         /\ Len(InOrder(a, b, d)) <= MaxFallbackEvidence
  <1> DEFINE From(e) == \/ e.source = "reddit" /\ e.hit \in ToSet(a)
                        \/ e.source = "xiaohongshu" /\ e.hit \in ToSet(b)
                        \/ e.source = "foursquare" /\ e.hit \in ToSet(d)
             R == {e \in [source : SourceSet, hit : S] : From(e)}
             Tagged(s, hits) == [i \in DOMAIN hits |-> [source |-> s, hit |-> hits[i]]]
             ta == Tagged("reddit", a)
             tb == Tagged("xiaohongshu", b)
             td == Tagged("foursquare", d)
             all == ta \o tb \o td
             shown == InOrder(a, b, d)
  <1>1. ASSUME NEW s \in SourceSet, NEW hits \in Seq(S),
               \A h \in ToSet(hits) : [source |-> s, hit |-> h] \in R
        PROVE  Tagged(s, hits) \in Seq(R)
    <2>1. Len(hits) \in Nat /\ DOMAIN hits = 1..Len(hits)
      OBVIOUS
    <2>2. \A i \in 1..Len(hits) : [source |-> s, hit |-> hits[i]] \in R
      BY <1>1, Members
    <2> DEFINE t == Tagged(s, hits)
    <2> HIDE DEF R
    <2>3. t \in [1..Len(hits) -> R]
      BY <2>1, <2>2
    <2> HIDE DEF t
    <2>4. t \in Seq(R)
      BY <2>1, <2>3
    <2>5. QED BY <2>4 DEF t
  <1>2. "reddit" \in SourceSet /\ "xiaohongshu" \in SourceSet /\ "foursquare" \in SourceSet
    BY DEF SourceSet
  <1>3. ToSet(a) \in SUBSET S /\ ToSet(b) \in SUBSET S /\ ToSet(d) \in SUBSET S
    BY Members
  <1>4. /\ \A h \in ToSet(a) : [source |-> "reddit", hit |-> h] \in R
        /\ \A h \in ToSet(b) : [source |-> "xiaohongshu", hit |-> h] \in R
        /\ \A h \in ToSet(d) : [source |-> "foursquare", hit |-> h] \in R
    BY <1>2, <1>3
  <1>5. R \in SUBSET [source : SourceSet, hit : S] /\ \A e \in R : From(e)
    OBVIOUS
  <1>6. shown = IF Len(all) > 3 THEN SubSeq(all, 1, 3) ELSE all
    BY DEF InOrder, MaxFallbackEvidence
  <1> HIDE DEF R, From, Tagged
  <1>7. ta \in Seq(R) /\ tb \in Seq(R) /\ td \in Seq(R)
    BY <1>1, <1>2, <1>4
  <1> HIDE DEF ta, tb, td, shown
  <1>8. all \in Seq(R)
    <2> DEFINE u == ta \o tb
    <2>1. u \in Seq(R)
      BY <1>7, Joined, Zenon
    <2>2. all = u \o td
      OBVIOUS
    <2> HIDE DEF u, all
    <2>3. u \o td \in Seq(R)
      BY <1>7, <2>1, Joined, Zenon
    <2>4. QED BY <2>2, <2>3
  <1> HIDE DEF all
  <1>9. shown \in Seq(R) /\ Len(shown) <= 3
    <2>1. CASE Len(all) > 3
      <3>1. shown = SubSeq(all, 1, 3)
        BY <1>6, <2>1
      <3>2. SubSeq(all, 1, 3) \in Seq(R) /\ Len(SubSeq(all, 1, 3)) = 3
        BY <1>8, <2>1
      <3>3. QED BY <3>1, <3>2
    <2>2. CASE ~(Len(all) > 3)
      BY <1>6, <1>8, <2>2
    <2>3. QED BY <2>1, <2>2
  <1>10. \A e \in ToSet(shown) : From(e)
    BY <1>5, <1>9, Members
  <1>11. shown \in Seq([source : SourceSet, hit : S])
    <2> DEFINE Q == [source : SourceSet, hit : S]
    <2>1. R \in SUBSET Q
      BY <1>5
    <2> HIDE DEF Q
    <2>2. shown \in [1..Len(shown) -> R] /\ Len(shown) \in Nat
      BY <1>9
    <2>3. shown \in [1..Len(shown) -> Q]
      BY <2>1, <2>2
    <2>4. shown \in Seq(Q)
      BY <2>2, <2>3
    <2>5. QED BY <2>4 DEF Q
  <1>12. QED
    BY <1>9, <1>10, <1>11 DEF shown, From, MaxFallbackEvidence

\* The repaired answer depends on the answer and the images only.
LEMMA SameRepair ==
  ASSUME images' = images, answer' = answer
  PROVE  RepairedItems(answer)' = RepairedItems(answer)
  BY DEF RepairedItems, Repaired, ImageOf

\* The fallback's cards depend on the hits and the images only.
LEMMA SameFallback ==
  ASSUME images' = images, results' = results
  PROVE  FallbackItems' = FallbackItems
  BY DEF FallbackItems, FallbackEvidence, ImageOf, Hits

-------------------------------------------------------------------------------
(* The invariant.                                                          *)

HitsTyped ==
  results \in [Cards -> [SourceSet ->
    [state : {"pending", "failed", "ok"}, hits : Seq(AllHits)]]]

\* What the filter left is about its candidate.
KeptMatch ==
  pc \in {"images", "classify", "repair", "done"} =>
    \A c \in Cards, s \in SourceSet : \A h \in ToSet(Hits(c, s)) : Matches(h, s, c)

\* An image of a tool came with a hit that was kept.
ImagesOwned ==
  pc \in {"classify", "repair", "done"} =>
    \A c \in Cards : \A s \in {"xhs", "foursquare"} :
      images[c] = s =>
        \E h \in ToSet(Hits(c, IF s = "xhs" THEN "xiaohongshu" ELSE s)) : h.image

AnswerIsList == answer \in Seq(ToSet(answer))

\* The cards are the repaired answer, or those made without it when nothing is left of it.
CardsAreMade ==
  pc = "done" =>
    IF RepairedItems(answer) # <<>>
      THEN items = RepairedItems(answer) /\ made = "model"
      ELSE items = FallbackItems /\ made = "fallback"

PhaseInv == HitsTyped /\ KeptMatch /\ ImagesOwned /\ AnswerIsList /\ CardsAreMade

\* What a tool brings is a list of hits.
LEMMA PagesAreHits ==
  ASSUME NEW s \in SourceSet, NEW hits \in Pages[s]
  PROVE  hits \in Seq(AllHits)
  <1>1. hits \in Seq(ToSet(hits))
    BY JoinerConstants DEF JoinerConstants
  <1>2. ToSet(hits) \in SUBSET AllHits
    BY DEF AllHits
  <1>3. Len(hits) \in Nat /\ hits \in [1..Len(hits) -> ToSet(hits)]
    BY <1>1
  <1>4. hits \in [1..Len(hits) -> AllHits]
    BY <1>2, <1>3
  <1>5. QED BY <1>3, <1>4

\* Before the first call nothing is kept, made or answered.
LEMMA InitPhase == Init => PhaseInv
  <1> SUFFICES ASSUME Init PROVE PhaseInv
    OBVIOUS
  <1>1. HitsTyped
    <2>1. <<>> \in Seq(AllHits)
      OBVIOUS
    <2>2. QED BY <2>1 DEF Init, HitsTyped
  <1>2. answer = <<>> /\ pc = "fetch"
    BY DEF Init
  <1>3. AnswerIsList
    <2>1. <<>> \in Seq(ToSet(<<>>))
      OBVIOUS
    <2>2. QED BY <1>2, <2>1 DEF AnswerIsList
  <1>4. KeptMatch /\ ImagesOwned /\ CardsAreMade
    BY <1>2 DEF KeptMatch, ImagesOwned, CardsAreMade
  <1>5. QED BY <1>1, <1>3, <1>4 DEF PhaseInv

\* A tool returns: one candidate's result of one source, before the filter.
LEMMA ReturnStep ==
  ASSUME PhaseInv, NEW c \in Cards, NEW s \in SourceSet, NEW state \in {"failed", "ok"},
         NEW hits \in Seq(AllHits), ToolReturns(c, s, state, hits)
  PROVE  PhaseInv'
  <1>1. HitsTyped'
    <2>1. [state |-> state, hits |-> hits] \in
            [state : {"pending", "failed", "ok"}, hits : Seq(AllHits)]
      OBVIOUS
    <2>2. results' = [results EXCEPT ![c][s] = [state |-> state, hits |-> hits]]
      BY DEF ToolReturns
    <2>3. QED BY <2>1, <2>2 DEF PhaseInv, HitsTyped
  <1>2. pc' \in {"fetch", "filter"} /\ answer' = answer
    BY DEF ToolReturns
  <1>3. AnswerIsList'
    BY <1>2 DEF PhaseInv, AnswerIsList
  <1>4. KeptMatch' /\ ImagesOwned' /\ CardsAreMade'
    BY <1>2 DEF KeptMatch, ImagesOwned, CardsAreMade
  <1>5. QED BY <1>1, <1>3, <1>4 DEF PhaseInv

\* A list of the filter: hits of the candidate, each about it.
LEMMA FilteredHits ==
  ASSUME NEW c \in Cards, NEW s \in SourceSet, NEW hits \in Seq(AllHits)
  PROVE  LET kept == Kept(hits, {i \in DOMAIN hits : Matches(hits[i], s, c)})
         IN kept \in Seq(AllHits) /\ \A h \in ToSet(kept) : Matches(h, s, c)
  <1> DEFINE P == {i \in DOMAIN hits : Matches(hits[i], s, c)}
             kept == Kept(hits, P)
             M == {h \in AllHits : Matches(h, s, c)}
  <1>1. P \in SUBSET (DOMAIN hits)
    OBVIOUS
  <1>2. {hits[k] : k \in P} \in SUBSET M
    OBVIOUS
  <1> DEFINE L == {hits[k] : k \in P}
  <1>3. kept \in Seq(L)
    <2> HIDE DEF P
    <2>1. QED BY <1>1, KeptMembers
  <1> HIDE DEF P, kept, L, M
  <1>4. kept \in [1..Len(kept) -> L] /\ Len(kept) \in Nat
    BY <1>3
  <1>5. ToSet(kept) \in SUBSET L
    BY <1>3, Members
  <1>6. L \in SUBSET M
    BY <1>2 DEF L
  <1>7. kept \in Seq(AllHits)
    <2>1. L \in SUBSET AllHits
      BY <1>6 DEF M
    <2>2. kept \in [1..Len(kept) -> AllHits]
      BY <1>4, <2>1
    <2>3. QED BY <1>4, <2>2
  <1>8. \A h \in ToSet(kept) : Matches(h, s, c)
    BY <1>5, <1>6 DEF M
  <1>9. QED BY <1>7, <1>8 DEF kept, P

\* The filter leaves every list to hits about its candidate.
LEMMA FilterStep ==
  ASSUME PhaseInv, Filter
  PROVE  PhaseInv'
  <1> DEFINE KeptOf(c, s) == Kept(results[c][s].hits,
                {i \in DOMAIN results[c][s].hits : Matches(results[c][s].hits[i], s, c)})
  <1>1. \A c \in Cards, s \in SourceSet :
          results[c][s] \in [state : {"pending", "failed", "ok"}, hits : Seq(AllHits)]
    BY DEF PhaseInv, HitsTyped
  <1>2. results' = [c \in Cards |-> [s \in SourceSet |->
          [results[c][s] EXCEPT !.hits = KeptOf(c, s)]]]
    BY DEF Filter
  <1>3. \A c \in Cards, s \in SourceSet :
          KeptOf(c, s) \in Seq(AllHits) /\ \A h \in ToSet(KeptOf(c, s)) : Matches(h, s, c)
    <2>1. SUFFICES ASSUME NEW c \in Cards, NEW s \in SourceSet
                   PROVE  /\ KeptOf(c, s) \in Seq(AllHits)
                          /\ \A h \in ToSet(KeptOf(c, s)) : Matches(h, s, c)
      OBVIOUS
    <2>2. results[c][s].hits \in Seq(AllHits)
      BY <1>1
    <2>3. QED BY <2>2, FilteredHits
  <1> HIDE DEF KeptOf
  <1>4. \A c \in Cards, s \in SourceSet :
          /\ results'[c][s] \in [state : {"pending", "failed", "ok"}, hits : Seq(AllHits)]
          /\ results'[c][s].hits = KeptOf(c, s)
    BY <1>1, <1>2, <1>3
  <1>5. HitsTyped'
    BY <1>2, <1>4 DEF HitsTyped
  <1>6. KeptMatch'
    BY <1>3, <1>4 DEF KeptMatch, Hits
  <1>7. pc' = "images" /\ answer' = answer
    BY DEF Filter
  <1>8. AnswerIsList'
    BY <1>7 DEF PhaseInv, AnswerIsList
  <1>9. ImagesOwned' /\ CardsAreMade'
    BY <1>7 DEF ImagesOwned, CardsAreMade
  <1>10. QED BY <1>5, <1>6, <1>8, <1>9 DEF PhaseInv

\* The image of a tool is taken from what the filter left.
LEMMA ImagesStep ==
  ASSUME PhaseInv, NEW web \in SUBSET Cards, ResolveImages(web)
  PROVE  PhaseInv'
  <1>1. results' = results /\ pc = "images" /\ pc' = "classify" /\ answer' = answer
    BY DEF ResolveImages
  <1>2. HitsTyped' /\ AnswerIsList' /\ CardsAreMade'
    BY <1>1 DEF PhaseInv, HitsTyped, AnswerIsList, CardsAreMade
  <1>3. KeptMatch'
    BY <1>1 DEF PhaseInv, KeptMatch, Hits
  <1>4. ImagesOwned'
    <2>1. ASSUME NEW c \in Cards, images'[c] = "xhs"
          PROVE  \E h \in ToSet(Hits(c, "xiaohongshu")) : h.image
      BY <2>1 DEF ResolveImages
    <2>2. ASSUME NEW c \in Cards, images'[c] = "foursquare"
          PROVE  \E h \in ToSet(Hits(c, "foursquare")) : h.image
      <3>1. Hits(c, "foursquare") # <<>> /\ Hits(c, "foursquare")[1].image
        BY <2>2 DEF ResolveImages
      <3>2. Hits(c, "foursquare") \in Seq(AllHits)
        BY DEF PhaseInv, HitsTyped, Hits, SourceSet
      <3>3. 1 \in 1..Len(Hits(c, "foursquare"))
        BY <3>1, <3>2
      <3>4. Hits(c, "foursquare")[1] \in ToSet(Hits(c, "foursquare"))
        BY <3>2, <3>3, Members
      <3>5. QED BY <3>1, <3>4
    <2>3. QED BY <1>1, <2>1, <2>2 DEF ImagesOwned, Hits
  <1>5. QED BY <1>2, <1>3, <1>4 DEF PhaseInv

\* The model answers: only the answer changes.
LEMMA ClassifyStep ==
  ASSUME PhaseInv, NEW a \in Answers \cup {<<>>}, Classify(a)
  PROVE  PhaseInv'
  <1>1. /\ results' = results /\ images' = images /\ answer' = a
        /\ pc = "classify" /\ pc' = "repair"
    BY DEF Classify
  <1>2. AnswerIsList'
    <2>1. <<>> \in Seq(ToSet(<<>>))
      OBVIOUS
    <2>2. a \in Seq(ToSet(a))
      BY <2>1, JoinerConstants DEF JoinerConstants
    <2>3. QED BY <1>1, <2>2 DEF AnswerIsList
  <1>3. HitsTyped' /\ CardsAreMade'
    BY <1>1 DEF PhaseInv, HitsTyped, CardsAreMade
  <1>4. KeptMatch' /\ ImagesOwned'
    BY <1>1 DEF PhaseInv, KeptMatch, ImagesOwned, Hits
  <1>5. QED BY <1>2, <1>3, <1>4 DEF PhaseInv

\* The cards are made, of the repaired answer or of the evidence.
LEMMA RepairStep ==
  ASSUME PhaseInv, Repair
  PROVE  PhaseInv'
  <1>1. /\ results' = results /\ images' = images /\ answer' = answer
        /\ pc = "repair" /\ pc' = "done"
    BY DEF Repair
  <1>2. HitsTyped' /\ AnswerIsList'
    BY <1>1 DEF PhaseInv, HitsTyped, AnswerIsList
  <1>3. KeptMatch' /\ ImagesOwned'
    BY <1>1 DEF PhaseInv, KeptMatch, ImagesOwned, Hits
  <1>4. RepairedItems(answer)' = RepairedItems(answer) /\ FallbackItems' = FallbackItems
    BY <1>1, SameRepair, SameFallback
  <1>5. CardsAreMade'
    BY <1>1, <1>4 DEF CardsAreMade, Repair
  <1>6. QED BY <1>2, <1>3, <1>5 DEF PhaseInv

\* A phase that ends without cards, and a step of something else.
LEMMA OtherSteps ==
  ASSUME PhaseInv, ClassifyRaises \/ PhaseTimeout \/ UNCHANGED vars
  PROVE  PhaseInv'
  <1>1. /\ results' = results /\ images' = images /\ answer' = answer
        /\ items' = items /\ made' = made
        /\ pc' = pc \/ pc' \in {"failed", "cancelled"}
    BY DEF ClassifyRaises, PhaseTimeout, vars
  <1>2. HitsTyped' /\ AnswerIsList'
    BY <1>1 DEF PhaseInv, HitsTyped, AnswerIsList
  <1>3. KeptMatch' /\ ImagesOwned'
    BY <1>1 DEF PhaseInv, KeptMatch, ImagesOwned, Hits
  <1>4. RepairedItems(answer)' = RepairedItems(answer) /\ FallbackItems' = FallbackItems
    BY <1>1, SameRepair, SameFallback
  <1>5. CardsAreMade'
    BY <1>1, <1>4 DEF PhaseInv, CardsAreMade
  <1>6. QED BY <1>2, <1>3, <1>5 DEF PhaseInv

\* Every step keeps the invariant.
LEMMA PhaseStep ==
  ASSUME PhaseInv, [Next]_vars
  PROVE  PhaseInv'
  <1>1. ASSUME NEW c \in Cards, NEW s \in SourceSet, ToolReturns(c, s, "failed", <<>>)
        PROVE  PhaseInv'
    <2>1. <<>> \in Seq(AllHits)
      OBVIOUS
    <2>2. QED BY <1>1, <2>1, ReturnStep
  <1>2. ASSUME NEW c \in Cards, NEW s \in SourceSet, NEW hits \in Pages[s],
               ToolReturns(c, s, "ok", hits)
        PROVE  PhaseInv'
    BY <1>2, PagesAreHits, ReturnStep
  <1>3. CASE Filter
    BY <1>3, FilterStep
  <1>4. ASSUME NEW web \in SUBSET Cards, ResolveImages(web)
        PROVE  PhaseInv'
    BY <1>4, ImagesStep
  <1>5. ASSUME NEW a \in Answers \cup {<<>>}, Classify(a)
        PROVE  PhaseInv'
    BY <1>5, ClassifyStep
  <1>6. CASE Repair
    BY <1>6, RepairStep
  <1>7. CASE ClassifyRaises \/ PhaseTimeout \/ UNCHANGED vars
    BY <1>7, OtherSteps
  <1>8. QED
    BY <1>1, <1>2, <1>3, <1>4, <1>5, <1>6, <1>7 DEF Next, Step

\* The invariant holds in every phase.
LEMMA PhaseHolds == Spec => []PhaseInv
  BY InitPhase, PhaseStep, PTL DEF Spec

-------------------------------------------------------------------------------
(* The cards of the model.                                                 *)

\* What Kept() keeps of the answer.
LEMMA KeptOfAnswer ==
  ASSUME AnswerIsList
  PROVE  \A Q \in SUBSET (DOMAIN answer) :
           /\ Kept(answer, Q) \in Seq({answer[k] : k \in Q})
           /\ \A j \in DOMAIN Kept(answer, Q) : \E k \in Q : Kept(answer, Q)[j] = answer[k]
           /\ \A k \in Q : \E j \in DOMAIN Kept(answer, Q) : Kept(answer, Q)[j] = answer[k]
           /\ Kept(answer, Q) = <<>> <=> Q = {}
  BY KeptMembers, Zenon DEF AnswerIsList

\* A repaired card comes from an item that validates and names a candidate.
LEMMA RepairedFromAnswer ==
  ASSUME AnswerIsList, NEW i \in DOMAIN RepairedItems(answer)
  PROVE  \E k \in Coerced(answer) :
           Known(answer[k].name) # {} /\ RepairedItems(answer)[i] = Repaired(answer[k])
  <1> DEFINE P == {k \in Coerced(answer) : Known(answer[k].name) # {}}
             kept == Kept(answer, P)
  <1>1. P \in SUBSET (DOMAIN answer) /\ P \in SUBSET Coerced(answer)
    BY DEF Coerced
  <1>2. i \in DOMAIN kept /\ RepairedItems(answer)[i] = Repaired(kept[i])
    BY DEF RepairedItems
  <1>3. \A j \in DOMAIN kept : \E k \in P : kept[j] = answer[k]
    <2> HIDE DEF P
    <2>1. QED BY <1>1, KeptOfAnswer
  <1> HIDE DEF kept
  <1>4. PICK k \in P : kept[i] = answer[k]
    BY <1>2, <1>3
  <1>5. QED BY <1>1, <1>2, <1>4

\* Nothing is left of an answer only when none of its items is about a candidate.
LEMMA NothingToRepair ==
  ASSUME AnswerIsList, RepairedItems(answer) = <<>>
  PROVE  \A k \in Coerced(answer) : Known(answer[k].name) = {}
  <1> DEFINE P == {k \in Coerced(answer) : Known(answer[k].name) # {}}
             kept == Kept(answer, P)
  <1>1. P \in SUBSET (DOMAIN answer)
    BY DEF Coerced
  <1>2. DOMAIN RepairedItems(answer) = DOMAIN kept
    BY DEF RepairedItems
  <1>3. DOMAIN kept = {}
    BY <1>2
  <1>4. \A k \in P : \E j \in DOMAIN kept : kept[j] = answer[k]
    <2> HIDE DEF P
    <2>1. QED BY <1>1, KeptOfAnswer
  <1>5. P = {}
    BY <1>3, <1>4
  <1>6. QED BY <1>5

\* Who made the cards says what they are.
LEMMA DoneMaker ==
  ASSUME PhaseInv, pc = "done"
  PROVE  /\ made = "model" =>
              items = RepairedItems(answer) /\ RepairedItems(answer) # <<>>
         /\ made = "fallback" => items = FallbackItems /\ RepairedItems(answer) = <<>>
         /\ made \in {"model", "fallback"}
  BY DEF PhaseInv, CardsAreMade

\* The fallback makes one card for each candidate, with the image of its name.
LEMMA FallbackCards ==
  /\ DOMAIN FallbackItems = Cards /\ FallbackItems # <<>>
  /\ \A c \in Cards : FallbackItems[c].candidate = c /\ FallbackItems[c].image = ImageOf(c)
  <1>1. Len(Names) \in Nat /\ Cards = 1..Len(Names) /\ Len(Names) # 0
    BY JoinerConstants DEF JoinerConstants, Cards
  <1>2. 1 \in Cards
    BY <1>1
  <1>3. DOMAIN FallbackItems = Cards
    BY DEF FallbackItems
  <1>4. FallbackItems # <<>>
    <2>1. DOMAIN <<>> = {}
      OBVIOUS
    <2>2. QED BY <1>2, <1>3, <2>1
  <1>5. \A c \in Cards : FallbackItems[c].candidate = c /\ FallbackItems[c].image = ImageOf(c)
    BY DEF FallbackItems
  <1>6. QED BY <1>3, <1>4, <1>5

-------------------------------------------------------------------------------

\* A repaired card carries the last candidate of a name of the answer; the fallback makes one
\* for each candidate, and there is one at least.
LEMMA PhaseGivesCards == PhaseInv => CardsAreOurs
  <1> SUFFICES ASSUME PhaseInv, pc = "done"
               PROVE  /\ items # <<>>
                      /\ \A i \in DOMAIN items : items[i].candidate \in Cards
                      /\ made = "model" =>
                           {Fold[Names[items[i].candidate]] : i \in DOMAIN items} \subseteq
                             {Fold[answer[i].name] :
                                i \in {j \in DOMAIN answer : answer[j].name # "none"}}
                      /\ made = "fallback" =>
                           \A i \in DOMAIN answer :
                             answer[i].ids => Known(answer[i].name) = {}
    BY DEF CardsAreOurs
  <1>1. AnswerIsList
    BY DEF PhaseInv
  <1>2. CASE made = "model"
    <2>1. items = RepairedItems(answer) /\ items # <<>>
      BY <1>2, DoneMaker
    <2>2. ASSUME NEW i \in DOMAIN items
          PROVE  /\ items[i].candidate \in Cards
                 /\ \E k \in DOMAIN answer :
                      /\ answer[k].name # "none"
                      /\ Fold[Names[items[i].candidate]] = Fold[answer[k].name]
      <3>1. PICK k \in Coerced(answer) :
              Known(answer[k].name) # {} /\ items[i] = Repaired(answer[k])
        BY <1>1, <2>1, <2>2, RepairedFromAnswer
      <3>2. items[i].candidate = CandidateOf(answer[k].name)
        BY <3>1 DEF Repaired
      <3>3. CandidateOf(answer[k].name) \in Known(answer[k].name)
        BY <3>1, KnownHasCandidate
      <3>4. k \in DOMAIN answer /\ answer[k].name # "none"
        BY DEF Coerced
      <3>5. QED BY <3>2, <3>3, <3>4 DEF Known
    <2>3. QED BY <1>2, <2>1, <2>2
  <1>3. CASE made = "fallback"
    <2>1. items = FallbackItems /\ RepairedItems(answer) = <<>>
      BY <1>3, DoneMaker
    <2>2. \A i \in DOMAIN items : items[i].candidate \in Cards
      BY <2>1, FallbackCards
    <2>3. ASSUME NEW k \in DOMAIN answer, answer[k].ids
          PROVE  Known(answer[k].name) = {}
      <3>1. CASE answer[k].name = "none"
        <4>1. \A c \in Cards : Fold[Names[c]] # Fold["none"]
          BY JoinerConstants DEF JoinerConstants, Cards
        <4>2. QED BY <3>1, <4>1 DEF Known
      <3>2. CASE answer[k].name # "none"
        <4>1. k \in Coerced(answer)
          BY <2>3, <3>2 DEF Coerced
        <4>2. QED BY <1>1, <2>1, <4>1, NothingToRepair
      <3>3. QED BY <3>1, <3>2
    <2>4. QED BY <1>3, <2>1, <2>2, <2>3, FallbackCards
  <1>4. QED BY <1>2, <1>3, DoneMaker

\* Every card has the image of its candidate or one of the model's.
LEMMA CardImages ==
  ASSUME PhaseInv, pc = "done", NEW i \in DOMAIN items
  PROVE  /\ items[i].candidate \in Cards
         /\ items[i].image = "model" \/ items[i].image = ImageOf(items[i].candidate)
  <1>1. items[i].candidate \in Cards
    BY PhaseGivesCards DEF CardsAreOurs
  <1>2. CASE made = "model"
    <2>1. items = RepairedItems(answer)
      BY <1>2, DoneMaker
    <2>2. PICK k \in Coerced(answer) : items[i] = Repaired(answer[k])
      BY <2>1, RepairedFromAnswer DEF PhaseInv
    <2>3. QED BY <1>1, <2>2 DEF Repaired
  <1>3. CASE made = "fallback"
    <2>1. items = FallbackItems
      BY <1>3, DoneMaker
    <2>2. i \in Cards
      BY <2>1, FallbackCards
    <2>3. QED BY <1>1, <2>1, <2>2, FallbackCards
  <1>4. QED BY <1>2, <1>3, DoneMaker

\* The image of a card is that of the last candidate of its name, and came with a hit that
\* the filter left to that candidate.
LEMMA PhaseGivesImages == PhaseInv => ImageIsOwn
  <1> SUFFICES ASSUME PhaseInv, pc = "done", NEW i \in DOMAIN items,
                      NEW s \in {"xhs", "foursquare"}, items[i].image = s
               PROVE  \E c \in Known(Names[items[i].candidate]) :
                        \E h \in ToSet(Hits(c, IF s = "xhs" THEN "xiaohongshu" ELSE s)) :
                          h.image /\ Matches(h, IF s = "xhs" THEN "xiaohongshu" ELSE s, c)
    BY DEF ImageIsOwn
  <1> DEFINE d == items[i].candidate
             c == CandidateOf(Names[d])
             src == IF s = "xhs" THEN "xiaohongshu" ELSE s
  <1>1. d \in Cards /\ images[c] = s
    BY CardImages, NamesOfCards
  <1>2. c \in Known(Names[d]) /\ c \in Cards
    BY <1>1, NamesOfCards
  <1>3. PICK h \in ToSet(Hits(c, src)) : h.image
    BY <1>1, <1>2 DEF PhaseInv, ImagesOwned
  <1>4. src \in SourceSet
    BY DEF SourceSet
  <1>5. Matches(h, src, c)
    BY <1>2, <1>3, <1>4 DEF PhaseInv, KeptMatch
  <1>6. QED BY <1>2, <1>3, <1>5

-------------------------------------------------------------------------------
(* The cards without the model.                                            *)

\* All evidence of a card is a witness of its source.
LEMMA EvidenceHasWitness ==
  ASSUME HitsTyped, KeptMatch, pc = "done", NEW c \in Cards
  PROVE  /\ \A e \in ToSet(FallbackEvidence(c)) :
              /\ e.source \in SourceSet
              /\ e.hit \in Witnesses(c, {e.source}) /\ e.hit \in Witnesses(c, SourceSet)
         /\ FallbackEvidence(c) \in Seq([source : SourceSet, hit : AllHits])
         /\ Len(FallbackEvidence(c)) <= MaxFallbackEvidence
  <1> DEFINE posts == Hits(c, "xiaohongshu")
             P == {k \in DOMAIN posts : posts[k].reliable}
             reliable == Kept(posts, P)
             Usable(s) == {h \in ToSet(Hits(c, s)) :
                             Matches(h, s, c) /\ (s = "xiaohongshu" => h.reliable)}
  <1>1. \A s \in SourceSet : Hits(c, s) \in Seq(AllHits)
    BY DEF HitsTyped, Hits
  <1>2. "reddit" \in SourceSet /\ "xiaohongshu" \in SourceSet /\ "foursquare" \in SourceSet
    BY DEF SourceSet
  <1>3. \A s \in SourceSet : \A h \in ToSet(Hits(c, s)) : Matches(h, s, c)
    BY DEF KeptMatch
  <1>4. reliable \in Seq(AllHits) /\ ToSet(reliable) \in SUBSET Usable("xiaohongshu")
    <2> DEFINE L == {posts[k] : k \in P}
    <2>1. posts \in Seq(AllHits)
      BY <1>1, <1>2
    <2>2. P \in SUBSET (DOMAIN posts)
      OBVIOUS
    <2>3. \A k \in P : posts[k] \in ToSet(posts) /\ posts[k].reliable
      BY DEF ToSet
    <2>4. L \in SUBSET AllHits
      BY <2>1, <2>2
    <2>5. L \in SUBSET Usable("xiaohongshu")
      BY <1>2, <1>3, <2>3
    <2>6. reliable \in Seq(L)
      <3> HIDE DEF P, posts
      <3>1. QED BY <2>1, <2>2, KeptMembers
    <2> HIDE DEF L, reliable, P, posts, Usable
    <2>7. reliable \in [1..Len(reliable) -> L] /\ Len(reliable) \in Nat
      BY <2>6
    <2>8. reliable \in [1..Len(reliable) -> AllHits]
      BY <2>4, <2>7
    <2>9. reliable \in Seq(AllHits)
      BY <2>7, <2>8
    <2>10. ToSet(reliable) \in SUBSET L
      BY <2>6, Members
    <2>11. QED BY <2>5, <2>9, <2>10
  <1>5. /\ ToSet(Hits(c, "reddit")) \in SUBSET Usable("reddit")
        /\ ToSet(Hits(c, "foursquare")) \in SUBSET Usable("foursquare")
    BY <1>2, <1>3
  <1>6. FallbackEvidence(c) = InOrder(Hits(c, "reddit"), reliable, Hits(c, "foursquare"))
    BY DEF FallbackEvidence
  <1> HIDE DEF reliable, P, posts, Usable
  <1>7. /\ \A e \in ToSet(FallbackEvidence(c)) :
             e.source \in SourceSet /\ e.hit \in Usable(e.source)
        /\ FallbackEvidence(c) \in Seq([source : SourceSet, hit : AllHits])
        /\ Len(FallbackEvidence(c)) <= MaxFallbackEvidence
    <2> DEFINE r == Hits(c, "reddit")
               f == Hits(c, "foursquare")
    <2>1. r \in Seq(AllHits) /\ f \in Seq(AllHits)
      BY <1>1, <1>2
    <2> HIDE DEF r, f
    <2>2. /\ \A e \in ToSet(InOrder(r, reliable, f)) :
               \/ e.source = "reddit" /\ e.hit \in ToSet(r)
               \/ e.source = "xiaohongshu" /\ e.hit \in ToSet(reliable)
               \/ e.source = "foursquare" /\ e.hit \in ToSet(f)
          /\ InOrder(r, reliable, f) \in Seq([source : SourceSet, hit : AllHits])
          /\ Len(InOrder(r, reliable, f)) <= MaxFallbackEvidence
      BY <1>4, <2>1, ShownEvidence
    <2>3. QED BY <1>2, <1>4, <1>5, <1>6, <2>2 DEF r, f
  <1>8. /\ Witnesses(c, SourceSet) = UNION {Usable(s) : s \in SourceSet}
        /\ \A t \in SourceSet : Witnesses(c, {t}) = UNION {Usable(s) : s \in {t}}
    BY DEF Witnesses, Usable
  <1>9. QED BY <1>7, <1>8

\* The verdict of one language is that of its own evidence.
LEMMA LanguageFits ==
  ASSUME NEW E, NEW s
  PROVE  /\ LanguageVerdict(E, s) = "local_gem" => \E e \in E : e.source = s /\ e.hit.gem
         /\ LanguageVerdict(E, s) = "tourist_trap" => \E e \in E : e.source = s /\ e.hit.trap
  <1> DEFINE own == {e \in E : e.source = s}
  <1>1. /\ Verdict(own, FALSE) = "local_gem" => Gem(own)
        /\ Verdict(own, FALSE) = "tourist_trap" => Trap(own)
    BY VerdictFits
  <1>2. LanguageVerdict(E, s) \in {Verdict(own, FALSE), "none"}
    BY DEF LanguageVerdict
  <1>3. QED BY <1>1, <1>2 DEF Gem, Trap

\* A clamped number is in its range.
LEMMA Clamped ==
  ASSUME NEW x \in Int, NEW high \in Nat
  PROVE  Clamp(x, high) \in 0..high
  BY DEF Clamp

\* Mixed evidence makes no card confident, and none makes no confidence at all.
LEMMA ConfidenceFits ==
  ASSUME NEW list \in Seq([source : SourceSet, hit : AllHits]),
         Len(list) <= MaxFallbackEvidence
  PROVE  /\ ToSet(list) = {} => Confidence(list) = 0
         /\ Gem(ToSet(list)) /\ Trap(ToSet(list)) => Confidence(list) <= 62
         /\ Confidence(list) \in 0..100
  <1> DEFINE E == ToSet(list)
             srcs == {e.source : e \in E}
             sum == 50 + Clamp(6 * Len(list) + 4 * (Cardinality(srcs) - 1), 25)
  <1>1. E \in SUBSET [source : SourceSet, hit : AllHits]
    BY Members
  <1>2. srcs \in SUBSET SourceSet
    BY <1>1
  <1>3. IsFiniteSet(SourceSet)
    <2>1. SourceSet = {"reddit"} \cup {"xiaohongshu"} \cup {"foursquare"}
      BY DEF SourceSet
    <2>2. QED BY <2>1, FS_Singleton, FS_Union
  <1>4. Cardinality(srcs) \in Nat
    BY <1>2, <1>3, FS_Subset, FS_CardinalityType
  <1>5. Len(list) \in Nat
    OBVIOUS
  <1>6. sum \in 50..75
    <2> DEFINE n == Cardinality(srcs)
               m == Len(list)
    <2>1. n \in Nat /\ m \in Nat
      BY <1>4, <1>5
    <2> HIDE DEF n, m
    <2>2. 6 * m + 4 * (n - 1) \in Int
      BY <2>1
    <2>3. Clamp(6 * m + 4 * (n - 1), 25) \in 0..25
      BY <2>2, Clamped
    <2> DEFINE y == Clamp(6 * m + 4 * (n - 1), 25)
    <2> HIDE DEF y
    <2>4. y \in 0..25
      BY <2>3 DEF y
    <2>5. 50 + y \in 50..75
      BY <2>4
    <2>6. QED BY <2>5 DEF y, n, m
  <1>7. Confidence(list) = IF Verdict(E, TRUE) = "insufficient" THEN 0
                           ELSE IF Gem(E) /\ Trap(E) THEN Clamp(sum, 62) ELSE sum
    BY DEF Confidence
  <1>8. Gem(E) /\ Trap(E) => Verdict(E, TRUE) = "neutral"
    BY DEF Verdict
  <1>9. E = {} => Verdict(E, TRUE) = "insufficient"
    BY VerdictFits
  <1> HIDE DEF sum, E
  <1>10. Clamp(sum, 62) \in 0..62
    <2>1. sum \in Int /\ 62 \in Nat
      BY <1>6
    <2>2. QED BY <2>1, Clamped
  <1> DEFINE low == Clamp(sum, 62)
  <1> HIDE DEF low
  <1>11. low \in 0..62
    BY <1>10 DEF low
  <1>12. /\ Verdict(E, TRUE) # "insufficient" /\ Gem(E) /\ Trap(E) => Confidence(list) = low
         /\ Confidence(list) \in {0, low, sum}
    BY <1>7 DEF low
  <1>13. Gem(E) /\ Trap(E) => Confidence(list) <= 62
    <2>1. Gem(E) /\ Trap(E) => Confidence(list) = low
      BY <1>8, <1>12
    <2>2. low <= 62
      BY <1>11
    <2>3. QED BY <2>1, <2>2
  <1>14. Confidence(list) \in 0..100
    <2>1. 0 \in 0..100 /\ low \in 0..100 /\ sum \in 0..100
      BY <1>6, <1>11
    <2>2. QED BY <1>12, <2>1
  <1>15. E = {} => Confidence(list) = 0
    BY <1>7, <1>9
  <1>16. QED BY <1>13, <1>14, <1>15 DEF E

\* What the fallback says of a candidate is read off the evidence, and that is of witnesses.
LEMMA PhaseGivesWitness == PhaseInv => VerdictHasWitness
  <1> SUFFICES ASSUME PhaseInv, pc = "done", made = "fallback", NEW i \in DOMAIN items
               PROVE  LET card == items[i]
                          c == card.candidate
                      IN /\ card.classification = "local_gem" =>
                              \E h \in Witnesses(c, SourceSet) : h.gem
                         /\ card.classification = "tourist_trap" =>
                              \E h \in Witnesses(c, SourceSet) : h.trap
                         /\ card.en = "local_gem" => \E h \in Witnesses(c, {"reddit"}) : h.gem
                         /\ card.zh = "local_gem" =>
                              \E h \in Witnesses(c, {"xiaohongshu"}) : h.gem
                         /\ card.zh = "tourist_trap" =>
                              \E h \in Witnesses(c, {"xiaohongshu"}) : h.trap
                         /\ Witnesses(c, SourceSet) = {} =>
                              card.classification = "insufficient" /\ card.confidence = 0
                         /\ {"local_gem", "tourist_trap"} = {card.en, card.zh} =>
                              card.confidence <= 62
    BY DEF VerdictHasWitness
  <1>1. items = FallbackItems /\ i \in Cards
    BY DoneMaker, FallbackCards
  <1> DEFINE list == FallbackEvidence(i)
             E == ToSet(list)
  <1>2. /\ items[i].candidate = i
        /\ items[i].classification = Verdict(E, TRUE)
        /\ items[i].en = LanguageVerdict(E, "reddit")
        /\ items[i].zh = LanguageVerdict(E, "xiaohongshu")
        /\ items[i].confidence = Confidence(list)
    BY <1>1 DEF FallbackItems
  <1>3. /\ \A e \in E : /\ e.source \in SourceSet
                        /\ e.hit \in Witnesses(i, {e.source})
                        /\ e.hit \in Witnesses(i, SourceSet)
        /\ list \in Seq([source : SourceSet, hit : AllHits])
        /\ Len(list) <= MaxFallbackEvidence
    BY <1>1, EvidenceHasWitness DEF PhaseInv
  <1> HIDE DEF list
  <1>4. /\ E = {} => Confidence(list) = 0
        /\ Gem(E) /\ Trap(E) => Confidence(list) <= 62
    BY <1>3, ConfidenceFits
  <1> HIDE DEF E
  <1>5. /\ Verdict(E, TRUE) = "local_gem" => \E e \in E : e.hit.gem
        /\ Verdict(E, TRUE) = "tourist_trap" => \E e \in E : e.hit.trap
        /\ E = {} => Verdict(E, TRUE) = "insufficient"
    BY VerdictFits DEF Gem, Trap
  <1>6. \A s \in {"reddit", "xiaohongshu"} :
          /\ LanguageVerdict(E, s) = "local_gem" => \E e \in E : e.source = s /\ e.hit.gem
          /\ LanguageVerdict(E, s) = "tourist_trap" => \E e \in E : e.source = s /\ e.hit.trap
    BY LanguageFits
  <1>7. /\ items[i].classification = "local_gem" =>
             \E h \in Witnesses(i, SourceSet) : h.gem
        /\ items[i].classification = "tourist_trap" =>
             \E h \in Witnesses(i, SourceSet) : h.trap
    BY <1>2, <1>3, <1>5
  <1>8. /\ items[i].en = "local_gem" => \E h \in Witnesses(i, {"reddit"}) : h.gem
        /\ items[i].zh = "local_gem" => \E h \in Witnesses(i, {"xiaohongshu"}) : h.gem
        /\ items[i].zh = "tourist_trap" => \E h \in Witnesses(i, {"xiaohongshu"}) : h.trap
    BY <1>2, <1>3, <1>6
  <1>9. Witnesses(i, SourceSet) = {} =>
          items[i].classification = "insufficient" /\ items[i].confidence = 0
    BY <1>2, <1>3, <1>4, <1>5
  <1>10. {"local_gem", "tourist_trap"} = {items[i].en, items[i].zh} =>
           items[i].confidence <= 62
    <2>1. SUFFICES ASSUME {"local_gem", "tourist_trap"} = {items[i].en, items[i].zh}
                   PROVE  Gem(E) /\ Trap(E)
      BY <1>2, <1>4
    <2>2. \/ items[i].en = "local_gem" /\ items[i].zh = "tourist_trap"
          \/ items[i].en = "tourist_trap" /\ items[i].zh = "local_gem"
      BY <2>1
    <2>3. QED BY <1>2, <1>6, <2>2 DEF Gem, Trap
  <1>11. QED BY <1>2, <1>7, <1>8, <1>9, <1>10

-------------------------------------------------------------------------------
(* The types of the cards.                                                 *)

\* A divergence is in its range.
LEMMA DivergenceFits ==
  ASSUME NEW en, NEW zh
  PROVE  Divergence(en, zh) \in 0..10
  BY DEF Divergence

\* Scores of anyone become scores of the party.
LEMMA ScoresFit ==
  ASSUME NEW scores, \A p \in DOMAIN scores : scores[p] \in Int
  PROVE  PartyScores(scores) \in [Party -> 0..10]
  <1>1. \A p \in DOMAIN scores : Clamp(scores[p], 10) \in 0..10
    <2>1. 10 \in Nat
      OBVIOUS
    <2>2. QED BY <2>1, Clamped
  <1>2. 5 \in 0..10
    OBVIOUS
  <1>3. \A p \in Party :
          (IF p \in DOMAIN scores THEN Clamp(scores[p], 10) ELSE 5) \in 0..10
    BY <1>1, <1>2
  <1>4. QED BY <1>3 DEF PartyScores

\* A verdict is a class, that of one language may be missing.
LEMMA VerdictTypes ==
  ASSUME NEW E, NEW n, NEW s
  PROVE  Verdict(E, n) \in Classes /\ LanguageVerdict(E, s) \in Classes \cup {"none"}
  <1>1. \A F, m : Verdict(F, m) \in Classes
    BY DEF Verdict, Classes
  <1>2. QED BY <1>1 DEF LanguageVerdict

\* An image comes from one of the places it can come from.
LEMMA ImageFits ==
  ASSUME images \in [Cards -> ImageSources], NEW c \in Cards
  PROVE  ImageOf(c) \in ImageSources
  BY NamesOfCards

\* A repaired item is a card: whatever the numbers of the model are.
LEMMA RepairedIsCard ==
  ASSUME images \in [Cards -> ImageSources], NEW raw, IsNormal(raw), Known(raw.name) # {}
  PROVE  Repaired(raw) \in Card
  <1> DEFINE c == CandidateOf(raw.name)
  <1>1. c \in Cards
    BY KnownHasCandidate
  <1>2. /\ raw.classification \in Classes
        /\ raw.en \in Classes \cup {"none"} /\ raw.zh \in Classes \cup {"none"}
        /\ raw.confidence \in Int /\ \A p \in DOMAIN raw.scores : raw.scores[p] \in Int
    BY DEF IsNormal
  <1>3. Divergence(raw.en, raw.zh) \in 0..10
    BY DivergenceFits
  <1>4. PartyScores(raw.scores) \in [Party -> 0..10]
    BY <1>2, ScoresFit
  <1>5. Clamp(raw.confidence, 100) \in 0..100
    <2>1. 100 \in Nat
      OBVIOUS
    <2>2. QED BY <1>2, <2>1, Clamped
  <1> DEFINE image == IF raw.image THEN "model" ELSE ImageOf(c)
  <1>6. image \in ImageSources
    BY <1>1, ImageFits DEF ImageSources
  <1> HIDE DEF c, image
  <1>7. [candidate |-> c, classification |-> raw.classification, en |-> raw.en,
         zh |-> raw.zh, divergence |-> Divergence(raw.en, raw.zh),
         scores |-> PartyScores(raw.scores), confidence |-> Clamp(raw.confidence, 100),
         image |-> image] \in Card
    BY <1>1, <1>2, <1>3, <1>4, <1>5, <1>6 DEF Card
  <1>8. QED BY <1>7 DEF Repaired, c, image

\* What the repair leaves of an answer is a sequence of cards.
LEMMA RepairedAreCards ==
  ASSUME images \in [Cards -> ImageSources], answer \in Answers \cup {<<>>}, AnswerIsList
  PROVE  RepairedItems(answer) \in Seq(Card)
  <1> DEFINE P == {k \in Coerced(answer) : Known(answer[k].name) # {}}
             kept == Kept(answer, P)
             cards == RepairedItems(answer)
  <1>1. \A k \in DOMAIN answer : IsNormal(answer[k])
    <2>1. CASE answer \in Answers
      BY <2>1, JoinerConstants DEF JoinerConstants
    <2>2. CASE answer = <<>>
      BY <2>2
    <2>3. QED BY <2>1, <2>2
  <1>2. P \in SUBSET (DOMAIN answer)
    BY DEF Coerced
  <1>3. kept \in Seq({answer[k] : k \in P})
    <2> HIDE DEF P
    <2>1. QED BY <1>2, KeptOfAnswer
  <1>4. cards = [i \in DOMAIN kept |-> Repaired(kept[i])]
    BY DEF RepairedItems
  <1>5. \A i \in DOMAIN cards : cards[i] \in Card
    <2>1. SUFFICES ASSUME NEW i \in DOMAIN cards PROVE cards[i] \in Card
      OBVIOUS
    <2>2. PICK k \in Coerced(answer) :
            Known(answer[k].name) # {} /\ cards[i] = Repaired(answer[k])
      BY RepairedFromAnswer
    <2>3. k \in DOMAIN answer
      BY DEF Coerced
    <2> HIDE DEF cards
    <2>4. QED BY <1>1, <2>2, <2>3, RepairedIsCard
  <1> HIDE DEF P, kept, cards
  <1>6. DOMAIN kept = 1..Len(kept) /\ Len(kept) \in Nat
    BY <1>3
  <1>7. cards \in [1..Len(kept) -> Card]
    BY <1>4, <1>5, <1>6
  <1>8. cards \in Seq(Card)
    BY <1>6, <1>7
  <1>9. QED BY <1>8 DEF cards

\* The fallback makes a sequence of cards.
LEMMA FallbackAreCards ==
  ASSUME images \in [Cards -> ImageSources], HitsTyped, KeptMatch, pc = "done"
  PROVE  FallbackItems \in Seq(Card)
  <1>1. Len(Names) \in Nat /\ Cards = 1..Len(Names)
    BY JoinerConstants DEF JoinerConstants, Cards
  <1>2. ASSUME NEW c \in Cards
        PROVE  FallbackItems[c] \in Card
    <2> DEFINE list == FallbackEvidence(c)
               E == ToSet(list)
    <2>1. /\ Verdict(E, TRUE) \in Classes
          /\ LanguageVerdict(E, "reddit") \in Classes \cup {"none"}
          /\ LanguageVerdict(E, "xiaohongshu") \in Classes \cup {"none"}
      BY VerdictTypes
    <2>2. Confidence(list) \in 0..100
      BY EvidenceHasWitness, ConfidenceFits
    <2>3. PartyScores(<<>>) \in [Party -> 0..10]
      BY ScoresFit
    <2>4. ImageOf(c) \in ImageSources
      BY ImageFits
    <2> DEFINE v == Verdict(E, TRUE)
               en == LanguageVerdict(E, "reddit")
               zh == LanguageVerdict(E, "xiaohongshu")
               sure == Confidence(list)
               scores == PartyScores(<<>>)
               image == ImageOf(c)
    <2>5. 0 \in 0..10
      OBVIOUS
    <2> HIDE DEF list, E, v, en, zh, sure, scores, image
    <2>6. /\ v \in Classes /\ en \in Classes \cup {"none"} /\ zh \in Classes \cup {"none"}
          /\ sure \in 0..100 /\ scores \in [Party -> 0..10] /\ image \in ImageSources
      BY <2>1, <2>2, <2>3, <2>4 DEF v, en, zh, sure, scores, image
    <2>7. [candidate |-> c, classification |-> v, en |-> en, zh |-> zh,
           divergence |-> 0, scores |-> scores, confidence |-> sure,
           image |-> image] \in Card
      BY <2>5, <2>6 DEF Card
    <2>8. QED BY <2>7 DEF FallbackItems, list, E, v, en, zh, sure, scores, image
  <1>3. FallbackItems \in [Cards -> Card]
    <2>1. DOMAIN FallbackItems = Cards /\ FallbackItems = [c \in Cards |-> FallbackItems[c]]
      BY DEF FallbackItems
    <2>2. QED BY <1>2, <2>1
  <1>4. QED BY <1>1, <1>3

\* The state of the phase keeps its types.
LEMMA TypesStep ==
  ASSUME JoinerTypeOK, PhaseInv, PhaseInv', [Next]_vars
  PROVE  JoinerTypeOK'
  <1> USE DEF JoinerTypeOK
  <1>1. results' \in [Cards -> [SourceSet ->
          [state : {"pending", "failed", "ok"}, hits : Seq(AllHits)]]]
    BY DEF PhaseInv, HitsTyped
  <1>2. CASE Repair
    <2>1. pc' = "done" /\ images' = images /\ answer' = answer /\ results' = results
      BY <1>2 DEF Repair
    <2>2. RepairedItems(answer)' = RepairedItems(answer) /\ FallbackItems' = FallbackItems
      BY <2>1, SameRepair, SameFallback
    <2>3. items' \in {RepairedItems(answer), FallbackItems}
      BY <1>2 DEF Repair
    <2>4. RepairedItems(answer) \in Seq(Card)
      BY RepairedAreCards DEF PhaseInv
    <2>5. made' \in {"model", "fallback"}
      BY <1>2 DEF Repair
    <2>6. (images \in [Cards -> ImageSources] /\ HitsTyped /\ KeptMatch /\ pc = "done"
             => FallbackItems \in Seq(Card))'
      BY FallbackAreCards, PTL
    <2>7. FallbackItems \in Seq(Card)
      BY <2>1, <2>2, <2>6 DEF PhaseInv
    <2>8. QED BY <1>1, <2>1, <2>3, <2>4, <2>5, <2>7
  <1>3. ASSUME NEW web \in SUBSET Cards, ResolveImages(web)
        PROVE  JoinerTypeOK'
    <2>1. images' \in [Cards -> ImageSources]
      BY <1>3 DEF ResolveImages, ImageSources
    <2>2. pc' = "classify" /\ UNCHANGED <<answer, items, made>>
      BY <1>3 DEF ResolveImages
    <2>3. QED BY <1>1, <2>1, <2>2
  <1>4. ASSUME NEW c \in Cards, NEW s \in SourceSet, NEW state, NEW hits,
               ToolReturns(c, s, state, hits)
        PROVE  JoinerTypeOK'
    <2>1. pc' \in {"filter", "fetch"} /\ UNCHANGED <<images, answer, items, made>>
      BY <1>4 DEF ToolReturns
    <2>2. QED BY <1>1, <2>1
  <1>5. ASSUME NEW a \in Answers \cup {<<>>}, Classify(a)
        PROVE  JoinerTypeOK'
    BY <1>1, <1>5 DEF Classify
  <1>6. CASE Filter \/ ClassifyRaises \/ PhaseTimeout \/ UNCHANGED vars
    <2>1. /\ pc' \in {pc, "images", "failed", "cancelled"}
          /\ UNCHANGED <<images, answer, items, made>>
      BY <1>6 DEF Filter, ClassifyRaises, PhaseTimeout, vars
    <2>2. QED BY <1>1, <2>1
  <1>7. QED
    BY <1>2, <1>3, <1>4, <1>5, <1>6 DEF Next, Step

\* The types hold at first.
LEMMA InitTypes == Init => JoinerTypeOK
  <1>1. <<>> \in Seq(AllHits) /\ <<>> \in Seq(Card)
    OBVIOUS
  <1>2. QED BY <1>1 DEF Init, JoinerTypeOK, ImageSources

-------------------------------------------------------------------------------
(* The theorems.                                                           *)

\* Whatever the model answers, each card has its type: one score for each of the party and
\* for nobody else, each number in its range (_clamp_float(), validate_match_scores()).
THEOREM JoinerTyped == Spec => []JoinerTypeOK
  <1>1. JoinerTypeOK /\ PhaseInv /\ PhaseInv' /\ [Next]_vars => JoinerTypeOK'
    BY TypesStep
  <1>2. QED BY <1>1, InitTypes, PhaseHolds, PTL DEF Spec

\* The cards are about our candidates, there is one at least, and the fallback makes them
\* only when nothing of the answer is about a candidate (_repair_items()).
THEOREM CardsStayOurs == Spec => []CardsAreOurs
  BY PhaseHolds, PhaseGivesCards, PTL

\* A verdict made without the model has a hit about the candidate for a witness, and no
\* advertisement; without any it is insufficient (_fallback_verdict()).
THEOREM VerdictsAreWitnessed == Spec => []VerdictHasWitness
  BY PhaseHolds, PhaseGivesWitness, PTL

\* An image that a tool brought belongs to a hit about the candidate of its card, or of one
\* whose name differs in case only (_resolve_candidate_image(), image_by_name).
THEOREM ImagesAreOwn == Spec => []ImageIsOwn
  BY PhaseHolds, PhaseGivesImages, PTL
===============================================================================
