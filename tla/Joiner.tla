-------------------------------- MODULE Joiner --------------------------------
(***************************************************************************)
(* The joiner phase (agents/joiner.py): three tool calls for each          *)
(* candidate at once (core/agents/framework/tools.py), a filter that keeps *)
(* the hits about the candidate, an image for each card, one answer of a   *)
(* language model that is not trusted, its repair, and the cards that are  *)
(* made without the model when nothing of its answer is left.              *)
(*                                                                         *)
(* A hit is a record of what the matching and the verdict look for:        *)
(*   strong, weak   the candidates its text names, well or in part         *)
(*   city     here, away (another destination, alone or too) or none       *)
(*   gem, trap      it has praising terms, tourist terms                   *)
(*   reliable a post of Xiaohongshu that passes the authenticity test      *)
(*   image    it comes with an image                                       *)
(* Scores are in tenths, confidence in hundredths.                         *)
(***************************************************************************)
EXTENDS Integers, FiniteSets, SequencesExt

CONSTANTS
  Names,       \* the names of the candidates, in order
  Fold,        \* name -> its lower case form
  Party,       \* ids of the user and of the companions on the trip
  Pages,       \* source -> what its tool can bring for a candidate
  Answers      \* what the model can answer: sequences of raw items

\* The tools of _build_tool_calls().
SourceSet == {"reddit", "xiaohongshu", "foursquare"}

Classes == {"local_gem", "tourist_trap", "neutral", "insufficient"}

\* What the normalising of _coerce_joined_item() leaves of any item.
IsNormal(raw) ==
  /\ raw.classification \in Classes /\ {raw.en, raw.zh} \subseteq Classes \cup {"none"}
  /\ raw.confidence \in Int /\ \A p \in DOMAIN raw.scores : raw.scores[p] \in Int

\* "none" is the name of an item that names no place.
ASSUME JoinerConstants ==
  /\ Names # <<>> /\ Names \in Seq(ToSet(Names)) /\ Party # {}
  /\ \A c \in DOMAIN Names : Fold[Names[c]] # Fold["none"]
  /\ \A s \in SourceSet : \A hits \in Pages[s] : hits \in Seq(ToSet(hits))
  /\ \A a \in Answers : a \in Seq(ToSet(a)) /\ \A i \in DOMAIN a : IsNormal(a[i])

Cards == DOMAIN Names

VARIABLES
  pc,       \* what joiner() does next
  results,  \* candidate -> source -> [state, hits]
  images,   \* candidate -> where the image of its card comes from
  answer,   \* the raw items of the model
  items,    \* the cards of the phase
  made      \* who made them: model or fallback

vars == <<pc, results, images, answer, items, made>>

AllHits == UNION {ToSet(hits) : hits \in UNION {Pages[s] : s \in SourceSet}}
ImageSources == {"none", "model", "foursquare", "xhs", "web"}

Card == [candidate : Cards, classification : Classes, en : Classes \cup {"none"},
         zh : Classes \cup {"none"}, divergence : 0..10, scores : [Party -> 0..10],
         confidence : 0..100, image : ImageSources]

JoinerTypeOK ==
  /\ pc \in {"fetch", "filter", "images", "classify", "repair", "done", "failed",
             "cancelled"}
  /\ results \in [Cards -> [SourceSet ->
       [state : {"pending", "failed", "ok"}, hits : Seq(AllHits)]]]
  /\ images \in [Cards -> ImageSources]
  /\ answer \in Answers \cup {<<>>}
  /\ items \in Seq(Card)
  /\ made \in {"nobody", "model", "fallback"}

Init ==
  /\ pc = "fetch"
  /\ results = [c \in Cards |-> [s \in SourceSet |-> [state |-> "pending", hits |-> <<>>]]]
  /\ images = [c \in Cards |-> "none"]
  /\ answer = <<>>
  /\ items = <<>>
  /\ made = "nobody"

-------------------------------------------------------------------------------
(* The tools.                                                              *)

\* dispatch(): an unknown tool, arguments that do not validate and an exception are the
\* same failed result.  The calls return in any order, each into its own place.
ToolReturns(c, s, state, hits) ==
  /\ pc = "fetch"
  /\ results[c][s].state = "pending"
  /\ results' = [results EXCEPT ![c][s] = [state |-> state, hits |-> hits]]
  /\ pc' = IF \A d \in Cards, t \in SourceSet : results'[d][t].state # "pending"
           THEN "filter" ELSE "fetch"
  /\ UNCHANGED <<images, answer, items, made>>

\* _hit_matches_candidate()
Matches(hit, s, c) ==
  /\ hit.city # "away"
  /\ \/ Names[c] \in hit.strong
     \/ s # "foursquare" /\ Names[c] \in hit.weak /\ hit.city = "here"

\* The members of a list at the places P, in their order.
Kept(list, P) ==
  [i \in 1..Cardinality(P) |->
     list[CHOOSE k \in P : Cardinality({j \in P : j < k}) = i - 1]]

\* Mutation of Filter: every hit is kept.
FilterNothing ==
  /\ pc = "filter"
  /\ pc' = "images"
  /\ UNCHANGED <<results, images, answer, items, made>>

\* _filter_results_for_candidate(), for every candidate.
Filter ==
  /\ pc = "filter"
  /\ results' = [c \in Cards |-> [s \in SourceSet |->
       [results[c][s] EXCEPT !.hits = Kept(@, {i \in DOMAIN @ : Matches(@[i], s, c)})]]]
  /\ pc' = "images"
  /\ UNCHANGED <<images, answer, items, made>>

Hits(c, s) == results[c][s].hits

\* _resolve_candidate_image(): the photo of the first place, the first image of a post, or
\* what the image search brings for those that are left.
ResolveImages(web) ==
  LET OwnImage(c) ==
        IF Hits(c, "foursquare") # <<>> /\ Hits(c, "foursquare")[1].image THEN "foursquare"
        ELSE IF \E h \in ToSet(Hits(c, "xiaohongshu")) : h.image THEN "xhs"
        ELSE IF c \in web THEN "web" ELSE "none"
  IN /\ pc = "images"
     /\ images' = [c \in Cards |-> OwnImage(c)]
     /\ pc' = "classify"
     /\ UNCHANGED <<results, answer, items, made>>

-------------------------------------------------------------------------------
(* The model.                                                              *)

\* A timeout, or an answer that does not parse, is an empty answer.
Classify(a) ==
  /\ pc = "classify"
  /\ answer' = a
  /\ pc' = "repair"
  /\ UNCHANGED <<results, images, items, made>>

\* Any other exception of the provider leaves the phase.
ClassifyRaises ==
  /\ pc = "classify"
  /\ pc' = "failed"
  /\ UNCHANGED <<results, images, answer, items, made>>

-------------------------------------------------------------------------------
(* The repair of its answer.                                               *)

Clamp(x, high) == IF x < 0 THEN 0 ELSE IF x > high THEN high ELSE x

\* _divergence.divergence_score()
Divergence(en, zh) ==
  LET pair == {en, zh}
      strong == {"local_gem", "tourist_trap"}
  IN IF "none" \in pair \/ en = zh THEN 0
     ELSE IF pair = strong THEN 10
     ELSE IF pair \cap strong = {} THEN 3
     ELSE IF "insufficient" \in pair THEN 6 ELSE 5

\* _scoring.validate_match_scores(): ids that were never sent are dropped, the others
\* clamped, and those without a score get the neutral one.
PartyScores(scores) ==
  [p \in Party |-> IF p \in DOMAIN scores THEN Clamp(scores[p], 10) ELSE 5]

\* _coerce_joined_items(): the places of items that name a place and validate.  A score
\* under something that is not an id fails the validation of its item.
Coerced(a) == {i \in DOMAIN a : a[i].name # "none" /\ a[i].ids}

\* The candidate of a name: the last of those that differ in case only.
Known(name) == {c \in Cards : Fold[Names[c]] = Fold[name]}
CandidateOf(name) == CHOOSE c \in Known(name) : \A d \in Known(name) : d <= c

\* image_by_name has one entry for such names.
ImageOf(c) == images[CandidateOf(Names[c])]

\* _repair_item_updates()
Repaired(raw) ==
  LET c == CandidateOf(raw.name)
  IN [candidate |-> c,
      classification |-> raw.classification, en |-> raw.en, zh |-> raw.zh,
      divergence |-> Divergence(raw.en, raw.zh),
      scores |-> PartyScores(raw.scores),
      confidence |-> Clamp(raw.confidence, 100),
      image |-> IF raw.image THEN "model" ELSE ImageOf(c)]

\* _repair_items()
RepairedItems(a) ==
  LET known == Kept(a, {i \in Coerced(a) : Known(a[i].name) # {}})
  IN [i \in DOMAIN known |-> Repaired(known[i])]

-------------------------------------------------------------------------------
(* The cards without the model.                                            *)

MaxFallbackEvidence == 3

\* What each tool brought, in the order of the tools, without what is over the limit.
InOrder(reddit, xiaohongshu, foursquare) ==
  LET Tagged(s, hits) == [i \in DOMAIN hits |-> [source |-> s, hit |-> hits[i]]]
      all == Tagged("reddit", reddit) \o Tagged("xiaohongshu", xiaohongshu)
               \o Tagged("foursquare", foursquare)
  IN IF Len(all) > MaxFallbackEvidence THEN SubSeq(all, 1, MaxFallbackEvidence) ELSE all

\* Mutation of FallbackEvidence: advertisements count.
AnyEvidence(c) ==
  InOrder(Hits(c, "reddit"), Hits(c, "xiaohongshu"), Hits(c, "foursquare"))

\* _fallback_evidence(): the first hits, without posts that cannot be relied on.
FallbackEvidence(c) ==
  LET posts == Hits(c, "xiaohongshu")
      reliable == Kept(posts, {i \in DOMAIN posts : posts[i].reliable})
  IN InOrder(Hits(c, "reddit"), reliable, Hits(c, "foursquare"))

Gem(evidence) == \E e \in evidence : e.hit.gem
Trap(evidence) == \E e \in evidence : e.hit.trap

\* _verdict_from_evidence()
Verdict(evidence, neutral) ==
  IF Trap(evidence)
    THEN IF neutral /\ Gem(evidence) THEN "neutral" ELSE "tourist_trap"
  ELSE IF Gem(evidence) THEN "local_gem"
  ELSE IF neutral /\ \E e \in evidence : e.source = "foursquare" THEN "neutral"
  ELSE "insufficient"

\* The verdict of one language, None without a signal.
LanguageVerdict(evidence, s) ==
  LET v == Verdict({e \in evidence : e.source = s}, FALSE)
  IN IF v = "insufficient" THEN "none" ELSE v

\* _fallback_verdict(): mixed signals keep the confidence low.
Confidence(list) ==
  LET evidence == ToSet(list)
      sources == Cardinality({e.source : e \in evidence})
      sum == 50 + Clamp(6 * Len(list) + 4 * (sources - 1), 25)
      mixed == Gem(evidence) /\ Trap(evidence)
  IN IF Verdict(evidence, TRUE) = "insufficient" THEN 0
     ELSE IF mixed THEN Clamp(sum, 62) ELSE sum

\* _fallback_items(): no divergence is computed here.
FallbackItems ==
  [c \in Cards |->
     LET list == FallbackEvidence(c)
         evidence == ToSet(list)
     IN [candidate |-> c,
         classification |-> Verdict(evidence, TRUE),
         en |-> LanguageVerdict(evidence, "reddit"),
         zh |-> LanguageVerdict(evidence, "xiaohongshu"),
         divergence |-> 0,
         scores |-> PartyScores(<<>>),
         confidence |-> Confidence(list),
         image |-> ImageOf(c)]]

\* Mutation of Repair: no fallback.
RepairOnly ==
  /\ pc = "repair"
  /\ items' = RepairedItems(answer) /\ made' = "model"
  /\ pc' = "done"
  /\ UNCHANGED <<results, images, answer>>

Repair ==
  /\ pc = "repair"
  /\ IF RepairedItems(answer) # <<>>
       THEN items' = RepairedItems(answer) /\ made' = "model"
       ELSE items' = FallbackItems /\ made' = "fallback"
  /\ pc' = "done"
  /\ UNCHANGED <<results, images, answer>>

-------------------------------------------------------------------------------
\* The timeout of the phase cancels whatever is awaited.
PhaseTimeout ==
  /\ pc \in {"fetch", "images", "classify"}
  /\ pc' = "cancelled"
  /\ UNCHANGED <<results, images, answer, items, made>>

Step ==
  \/ \E c \in Cards, s \in SourceSet :
       \/ ToolReturns(c, s, "failed", <<>>)
       \/ \E hits \in Pages[s] : ToolReturns(c, s, "ok", hits)
  \/ Filter
  \/ \E web \in SUBSET Cards : ResolveImages(web)
  \/ \E a \in Answers \cup {<<>>} : Classify(a)
  \/ ClassifyRaises
  \/ Repair

Next == Step \/ PhaseTimeout

Spec == Init /\ [][Next]_vars

-------------------------------------------------------------------------------
(* Properties.                                                             *)

\* Whatever the model answers, the cards are about our candidates, there is one at least,
\* and no card of the model is thrown away for one of the fallback.
CardsAreOurs ==
  pc = "done" =>
    /\ items # <<>>
    /\ \A i \in DOMAIN items : items[i].candidate \in Cards
    /\ made = "model" =>
         {Fold[Names[items[i].candidate]] : i \in DOMAIN items} \subseteq
           {Fold[answer[i].name] : i \in {j \in DOMAIN answer : answer[j].name # "none"}}
    /\ made = "fallback" =>
         \A i \in DOMAIN answer : answer[i].ids => Known(answer[i].name) = {}

\* What reached the candidate about itself, and can be relied on.
Witnesses(c, sources) ==
  UNION {{h \in ToSet(Hits(c, s)) : Matches(h, s, c) /\ (s = "xiaohongshu" => h.reliable)} :
           s \in sources}

\* A verdict made without the model has a witness: a hit about the candidate itself, in
\* its city, from a source of the language it speaks for, and no advertisement.  Without
\* any the card says insufficient, and nothing is confident of a mixture.
VerdictHasWitness ==
  pc = "done" /\ made = "fallback" => \A i \in DOMAIN items :
    LET card == items[i]
        c == card.candidate
    IN /\ card.classification = "local_gem" =>
            \E h \in Witnesses(c, SourceSet) : h.gem
       /\ card.classification = "tourist_trap" =>
            \E h \in Witnesses(c, SourceSet) : h.trap
       /\ card.en = "local_gem" => \E h \in Witnesses(c, {"reddit"}) : h.gem
       /\ card.zh = "local_gem" => \E h \in Witnesses(c, {"xiaohongshu"}) : h.gem
       /\ card.zh = "tourist_trap" => \E h \in Witnesses(c, {"xiaohongshu"}) : h.trap
       /\ Witnesses(c, SourceSet) = {} =>
            card.classification = "insufficient" /\ card.confidence = 0
       /\ {"local_gem", "tourist_trap"} = {card.en, card.zh} => card.confidence <= 62

\* The image of a card that a tool brought belongs to a hit about that candidate, or about
\* one whose name differs in case only, for which there is one image.
ImageIsOwn ==
  pc = "done" => \A i \in DOMAIN items :
    LET Has(s) == \E c \in Known(Names[items[i].candidate]) :
                    \E h \in ToSet(Hits(c, s)) : h.image /\ Matches(h, s, c)
    IN /\ items[i].image = "xhs" => Has("xiaohongshu")
       /\ items[i].image = "foursquare" => Has("foursquare")
===============================================================================
