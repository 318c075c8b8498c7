------------------------------ MODULE Articles ------------------------------
(* What the crawler reads: RSS entries (shared/rss_reader.py), posts pasted   *)
(* by hand (shared/linkedin_embed.py) and the language model's replies about  *)
(* them (shared/claim_extractor.py, shared/event_extractor.py).  Pure          *)
(* operators; the processes that call them are in Crawler.                     *)
(*                                                                             *)
(* A text is abstracted to whether it is there.  A URL is a triple <<site,     *)
(* name, date>> so that a synthetic one, hashed from an entry's title and      *)
(* date, is a value of the same kind as a link.                                *)
EXTENDS Integers, Sequences, FiniteSets

CONSTANTS
    None,       \* Python's None: a missing field, a failed call
    NaN,        \* JSON's NaN, which Python reads as a float
    Today       \* the day on which the modelled crawls run

ArticleRef(url, tier, source, published) ==
    [url |-> url, tier |-> tier, source |-> source, published |-> published]

----------------------------------------------------------------------------
(* Feeds. *)

\* The item's own id, else its title and date: never anything that changes
\* from one crawl to the next.
SyntheticUrl(feed, entry) ==
    IF entry.id # None THEN <<feed.name, entry.id, None>>
                       ELSE <<feed.name, entry.title, entry.published>>

Usable(feed, entry) ==
    IF feed.self_contained THEN entry.body # None ELSE entry.link # None

EntryUrl(feed, entry) ==
    IF entry.link # None THEN entry.link ELSE SyntheticUrl(feed, entry)

FeedArticles(feed) ==
    LET usable == SelectSeq(feed.entries, LAMBDA e : Usable(feed, e))
    IN  [i \in DOMAIN usable |->
            ArticleRef(EntryUrl(feed, usable[i]), feed.tier, feed.name,
                       usable[i].published)]

\* The day from which an event of the article counts as known: the date the
\* feed gives, or the crawl's own day when it gives none or one that does not
\* parse.
KnownAt(article) ==
    IF article.published \in Int THEN article.published ELSE Today

----------------------------------------------------------------------------
(* Posts submitted by hand.  "shape" is what the pasted text looks like,      *)
(* "page" the embed page LinkedIn answers with, None when the fetch fails.     *)

EmbedShapes == {"iframe", "embed", "post"}

ParseEmbed(page) ==
    IF page.description /\ page.canonical # None
    THEN [url |-> page.canonical, author |-> page.author]
    ELSE None

ResolveLinkedIn(shape, page) ==
    IF shape \in EmbedShapes /\ page # None THEN ParseEmbed(page) ELSE None

\* The resolved post's canonical URL replaces the one typed into the form, and
\* so becomes the key under which the post is stored.
ManualArticle(submission, page) ==
    LET post == ResolveLinkedIn(submission.shape, page)
    IN  ArticleRef(IF post = None THEN submission.url ELSE post.url,
                   "tier2", "LinkedIn", None)

----------------------------------------------------------------------------
(* The model's replies.  A reply is what each reading of its text parses to:   *)
(* the whole, the inside of a code fence, the outermost braces; None where     *)
(* that reading is no JSON object.  A call that fails, or is not made for want  *)
(* of a key, is the reply None.                                                *)

JsonObject(reply) ==
    IF reply.whole # None THEN reply.whole
    ELSE IF reply.fence # None THEN reply.fence
    ELSE reply.braces

ClaimTypes == {"fact", "theory", "forecast"}

\* Tier 2 never states a fact, whatever the model says.
TrustedType(tier, type) ==
    IF type \notin ClaimTypes \/ (tier = "tier2" /\ type = "fact")
    THEN "theory" ELSE type

ExtractClaims(reply, article) ==
    IF reply = None \/ JsonObject(reply) = None THEN None
    ELSE LET said == SelectSeq(JsonObject(reply), LAMBDA c : c.text)
         IN  [i \in DOMAIN said |-> TrustedType(article.tier, said[i].type)]

EventTypes == {"prequalification", "capacity_commissioning",
               "capacity_retirement", "demand_volume_change", "outage",
               "regime_change", "other"}

(* Confidence in tenths. *)
Tier2ConfidenceCap == 5
Certain == 10

\* Clamped to [0, 1]; what does not parse is 0.  NaN does parse, and
\* min(1.0, nan) is 1.0 in Python.
Confidence(raw) ==
    IF raw = None THEN 0
    ELSE IF raw = NaN \/ raw > Certain THEN Certain
    ELSE IF raw < 0 THEN 0 ELSE raw

CappedConfidence(tier, raw) ==
    IF tier = "tier2" /\ Confidence(raw) > Tier2ConfidenceCap
    THEN Tier2ConfidenceCap ELSE Confidence(raw)

Direction(raw) == IF raw \in {"up", "down"} THEN raw ELSE None

\* A number of megawatts or nothing: a bool or a string is never read as one.
Magnitude(raw) == IF raw.kind = "number" THEN raw.value ELSE None

\* Only a strict ISO date is a date.
EffectiveFrom(raw) == IF raw.kind = "iso" THEN raw.value ELSE None

ExtractEvents(reply, article) ==
    IF reply = None \/ JsonObject(reply) = None THEN None
    ELSE LET list == JsonObject(reply)
             traceable == SelectSeq(list, LAMBDA e : e.excerpt)
             Read(e) ==
                [type |-> IF e.type \in EventTypes THEN e.type ELSE "other",
                 direction  |-> Direction(e.direction),
                 magnitude  |-> Magnitude(e.magnitude),
                 effective  |-> EffectiveFrom(e.effective),
                 confidence |-> CappedConfidence(article.tier, e.confidence)]
         IN  [i \in 1 .. Cardinality({j \in DOMAIN list : list[j].excerpt}) |->
                Read(traceable[i])]
=============================================================================
