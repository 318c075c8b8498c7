------------------------------ MODULE MCCrawler ------------------------------
(***************************************************************************)
(* Crawler with an official feed that publishes bodies without links, a     *)
(* media feed of ordinary links and one post pasted by hand, which LinkedIn *)
(* may or may not resolve.  The media article is also the post's canonical  *)
(* page, so the two ways into the store meet on it.                        *)
(***************************************************************************)
EXTENDS Crawler

Entry(link, id, title, published, body) ==
    [link |-> link, id |-> id, title |-> title, published |-> published, body |-> body]

Official == [name |-> "entsoe", tier |-> "tier1", self_contained |-> TRUE,
             entries |-> <<Entry(None, None, "maintenance", 3, "body"),
                           Entry(None, "e2", "empty", 3, None)>>]

Story == <<"web", "story", None>>
Media == [name |-> "media", tier |-> "tier2", self_contained |-> FALSE,
          entries |-> <<Entry(None, "m1", "dead", None, None),
                        Entry(Story, None, "story", None, None)>>]

MCFeeds == <<Official, Media>>

MCSubmissions == {[shape |-> "iframe", url |-> <<"web", "typed", None>>]}
MCPages == {None, [description |-> TRUE, canonical |-> Story, author |-> None]}

Bare(payload) == [whole |-> payload, fence |-> None, braces |-> None]
Fenced(payload) == [whole |-> None, fence |-> payload, braces |-> payload]
Garbage == [whole |-> None, fence |-> None, braces |-> None]

Claim(text, type) == [text |-> text, type |-> type]
MCClaimReplies ==
    {None, Bare(<<>>),
     Fenced(<<Claim(TRUE, "fact"), Claim(FALSE, "fact"), Claim(TRUE, "rumour")>>)}

Event(excerpt, type, confidence) ==
    [excerpt |-> excerpt, type |-> type, confidence |-> confidence,
     direction |-> "sideways", magnitude |-> [kind |-> "text", value |-> None],
     effective |-> [kind |-> "iso", value |-> 5]]
MCEventReplies ==
    {Garbage, Fenced(<<Event(TRUE, "strike", NaN), Event(FALSE, "outage", 2),
                       Event(TRUE, "outage", None)>>)}
=============================================================================
