------------------------------ MODULE FeedParser ------------------------------
(***************************************************************************)
(* What parse_feed of backend/src/fetch_rss.c makes of one item or entry   *)
(* of a feed: its children one after the other, each of which may set a    *)
(* field.  A child has a local name, a text or none, and perhaps an href.  *)
(***************************************************************************)
EXTENDS Integers, Sequences

CONSTANT DateOf    \* the texts that parse_rfc822 understands, with their time

ASSUME DatesAssumption == "" \notin DOMAIN DateOf

NoText == "(no text)"
NoHref == "(no href)"
Child(name, text, href) == [name |-> name, text |-> text, href |-> href]

BlankStory == [title |-> "", url |-> "", summary |-> "", at |-> 0, region |-> "", score |-> 0]

parse_rfc822(text) == IF text \in DOMAIN DateOf THEN DateOf[text] ELSE 0

Summaries == {"description", "summary", "content"}
Dates == {"pubDate", "published", "updated"}

(* A child without text is passed over before its name is looked at.       *)
ReadChild(e, child) ==
  IF child.text = NoText THEN e
  ELSE CASE child.name = "title"      -> [e EXCEPT !.title = child.text]
         [] child.name = "link"       -> [e EXCEPT !.url = IF child.href # NoHref THEN child.href
                                                           ELSE child.text]
         [] child.name \in Summaries -> [e EXCEPT !.summary = child.text]
         [] child.name \in Dates     -> [e EXCEPT !.at = parse_rfc822(child.text)]
         [] OTHER                     -> e

TierScore(tier) == CASE tier = 1 -> 100 [] tier = 2 -> 75 [] OTHER -> 50

(* What the slot is after so many children.                                *)
After(e, children) ==
  LET after[n \in 0..Len(children)] ==
        IF n = 0 THEN e ELSE ReadChild(after[n - 1], children[n])
  IN  after
FeedItem(e, c, children) ==
  After([e EXCEPT !.region = c.region, !.score = TierScore(c.tier)], children)[Len(children)]
FeedItemCounts(e) == e.title # ""

(* The entries of an Atom feed are looked for when there are no items.     *)
(* The name `entry' in an XPath expression is one of no namespace.         *)
FeedItems(doc) ==
  IF doc.items # <<>> THEN doc.items ELSE IF doc.xmlns THEN <<>> ELSE doc.entries
=============================================================================
