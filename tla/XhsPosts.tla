------------------------------- MODULE XhsPosts -------------------------------
(***************************************************************************)
(* What the pipeline sees of one Xiaohongshu post, and the tests it must   *)
(* pass (core/tools/xiaohongshu.py, scripts/xhs_prewarm.py).  A post is a  *)
(* record of features; the regular expressions and word lists that find    *)
(* them in its text are abstracted to the numbers they find:               *)
(*   title    the title is not blank                                       *)
(*   body     its length: none, thin (under 15 characters), plain,         *)
(*            medium (from 60) or long (from 120)                          *)
(*   image    none, remote (a URL of the site) or local (under /media/)    *)
(*   hard, soft, local   matched promotion and local-advice terms          *)
(*   merchant, contact, detail   merchant author, contact data, prices     *)
(*   about    the terms of queries and place names its text mentions       *)
(*   city     the city its title names, "none" if it names none            *)
(*   stub     a hit of a search engine that was never opened: none, a      *)
(*            link of a web search, or an image of an image search         *)
(***************************************************************************)
EXTENDS Integers, FiniteSets

PostType ==
  [title : BOOLEAN, body : {"none", "thin", "plain", "medium", "long"},
   image : {"none", "remote", "local"}, hard : Nat, soft : Nat, local : Nat,
   merchant : BOOLEAN, contact : BOOLEAN, detail : BOOLEAN,
   about : SUBSET STRING, city : STRING, stub : {"none", "link", "image"}]

LOCAL Least(a, b) == IF a < b THEN a ELSE b
LOCAL Bit(b) == IF b THEN 1 ELSE 0

-------------------------------------------------------------------------------
(* Authenticity.  Scores are in hundredths.                                *)

MinAuthenticity == 35

\* _body_length_signal()
LengthScore(p) ==
  CASE p.body = "long" -> 8
    [] p.body = "medium" -> 4
    [] p.body = "plain" -> 0
    [] OTHER -> -12

\* Three soft terms and nothing a visitor would write.
Pileup(p) == p.soft >= 3 /\ p.local = 0 /\ ~p.detail

\* The score of assess_xhs_authenticity(), before it is clamped to 0..100.
Score(p) ==
  50 - Least(45, 18 * p.hard) - 30 * Bit(p.contact) - Least(24, 6 * p.soft)
     - 25 * Bit(p.merchant) + Least(30, 6 * p.local) + 12 * Bit(p.detail)
     + LengthScore(p) + (IF p.image = "none" THEN -5 ELSE 5) - 12 * Bit(Pileup(p))

Promotional(p) == p.hard > 0 \/ p.merchant \/ p.contact \/ Score(p) < MinAuthenticity

\* filter_authentic_xhs_posts()
Authentic(posts) == {p \in posts : Score(p) >= MinAuthenticity /\ ~Promotional(p)}

-------------------------------------------------------------------------------
(* Relevance.  `terms` are the specific terms of the query or candidate.   *)

\* A post whose title names another city, and not the city of the query.
CityConflict(p, city) == p.title /\ p.city \notin {"none", city}

Mentions(p, terms) == p.about \cap terms # {}

\* filter_relevant_posts(): every weight of a matched term reaches the minimum, and
\* a post stored by this filter carries the score that let it pass.
ForCandidate(posts, terms, city) ==
  {p \in posts : ~CityConflict(p, city) /\ (terms = {} \/ Mentions(p, terms))}

\* filter_query_relevant_xhs_posts(): a stored post was checked when it was stored.
ForQuery(posts, terms, checked) ==
  {p \in posts : p.stub # "link" /\ (terms = {} \/ checked \/ Mentions(p, terms))}

-------------------------------------------------------------------------------
(* Text and images.                                                        *)

\* usable_posts(.., require_images=False)
TextUsable(posts) == {p \in posts : p.title /\ (p.body # "none" \/ p.image # "none")}

\* post_has_required_images(.., require_local=True)
WithLocalImages(posts) == {p \in posts : p.image = "local"}

\* _public_index_post_needs_detail_enrichment(): not an image hit with its text, and
\* not a link without any.
NeedsDetail(p) ==
  /\ ~(p.stub = "image" /\ p.title /\ (p.body # "none" \/ p.image = "local"))
  /\ ~(p.stub = "link" /\ ~p.title /\ p.body = "none" /\ p.image = "none")

\* _has_more_images(): images are counted over the whole list.
Images(posts) == Cardinality({p \in posts : p.image # "none"})
===============================================================================
