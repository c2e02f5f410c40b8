------------------------------- MODULE Sources -------------------------------
(***************************************************************************)
(* What a link given as source of a token stands for: the key the          *)
(* anti-vamp server makes of it, under which the source is locked.         *)
(*                                                                         *)
(* A link is a record: where it leads and how it is spelled.  A tweet has  *)
(* several sites and paths; an article has one site and one path, and what *)
(* follows the path, or whether a letter of it is capital, may lead to     *)
(* another page.  The behaviours write links one after the other, so that  *)
(* a step is a pair of links.                                              *)
(***************************************************************************)
EXTENDS Naturals

CONSTANTS
  Ids,        \* of tweets, of articles on a site and of what a query names
  Articles,   \* sites that are not Twitter
  Spellings,  \* what may differ and leads to the same page
  NoKey

TwitterSites == {"x.com", "twitter.com", "mobile.twitter.com"}

\* netflix.com/...: the server looks for "x.com/" anywhere.
EndsInX == {"netflix.com"}

\* Before the number: /user/status/, /i/status/, /i/web/status/; and with
\* /photo/1 after it.
TweetPaths == {"user", "other", "i", "web", "photo"}

\* After the path, with a question mark or a number sign: what only tracks or
\* mentions x.com, what selects one of the pages of a path, and what quotes
\* the link of a tweet.
Query ==
  [kind : {"none", "tracks", "mentions"}]
  \cup [kind : {"selects", "quotes"}, id : Ids]

\* Other sites may have paths like Twitter's, and letters that matter.
Links ==
  [site : TwitterSites, path : TweetPaths \cup {"profile"}, id : Ids,
   letters : {"small"}, query : Query, spelling : Spellings]
  \cup
  [site : Articles, path : {"article", "user"}, id : Ids,
   letters : {"small", "capital"}, query : Query, spelling : Spellings]

IsTweet(u) == u.site \in TwitterSites /\ u.path \in TweetPaths

Selected(u) == IF u.query.kind = "selects" THEN u.query ELSE [kind |-> "none"]

\* Where the link leads.
Page(u) ==
  IF IsTweet(u) THEN <<"tweet", u.id>>
  ELSE <<u.site, u.path, u.id, u.letters, Selected(u)>>

\* That there is no key is told from every key.  A link may have or not have
\* the protocol, www, the site in capitals and a slash at the end.
ASSUME SourcesAssumption ==
  /\ Articles \cap TwitterSites = {}
  /\ NoKey \notin {<<"x", i>> : i \in Ids}
  /\ NoKey \notin {<<"article", site, path, i>> :
                     site \in Articles, path \in {"article", "user"}, i \in Ids}
  /\ Spellings \subseteq SUBSET {"https", "www", "caps", "slash"}

VARIABLE link

-----------------------------------------------------------------------------
(***************************************************************************)
(* The server.                                                             *)
(***************************************************************************)
HasTweetSite(u) == u.site \in TwitterSites \cup EndsInX

\* The first expression finds the first number after "x.com/" or "twitter.com/"
\* and "/status/", whatever is between them, before them and after it.
canonicalizeTweet(u) ==
  IF HasTweetSite(u) /\ u.path \in TweetPaths THEN <<"x", u.id>>
  ELSE IF u.query.kind = "quotes" THEN <<"x", u.query.id>>
  ELSE NoKey

\* Host without www, path without a slash at its end, no query.
canonicalizeArticle_WithWww(u) ==
  <<"article", u.site, u.path, u.id, "www" \in u.spelling>>

canonicalizeArticle(u) == <<"article", u.site, u.path, u.id>>

\* Letters are small from here on; "x.com/" anywhere makes it a tweet or nothing.
canonicalizeUrl(u) ==
  IF HasTweetSite(u) \/ u.query.kind \in {"mentions", "quotes"}
  THEN canonicalizeTweet(u)
  ELSE canonicalizeArticle(u)

-----------------------------------------------------------------------------
SourcesInit == link \in Links

SourcesNext == link' \in Links

SourcesSpec == SourcesInit /\ [][SourcesNext]_<<link>>

-----------------------------------------------------------------------------
Key == canonicalizeUrl(link)

\* Not a tweet, but the server finds Twitter's name in it.
Borrowed(u) ==
  ~IsTweet(u) /\ (u.site \in EndsInX \/ u.query.kind = "quotes")

\* The same tweet, or the same path of a site.
Alike(u, v) ==
  \/ Page(u) = Page(v)
  \/ /\ ~IsTweet(u) /\ ~IsTweet(v)
     /\ <<u.site, u.path, u.id>> = <<v.site, v.path, v.id>>

\* Links to one page have one key, however they are spelled, so that another
\* spelling gets no second token.  Links that have one key lead to one tweet,
\* or to pages of a site with one path: what the key leaves out is the query
\* and which letters are capital.  A link in which the server finds Twitter's
\* name though it leads elsewhere has the key of a tweet or none.  Besides,
\* only profiles and links that mention x.com have none.
OneKeyAPage ==
  [][/\ Key = NoKey =>
          link.path = "profile" \/ link.query.kind = "mentions" \/ Borrowed(link)
     /\ Borrowed(link) => Key \in {NoKey} \cup {<<"x", i>> : i \in Ids}
     /\ Key # NoKey /\ Key' # NoKey /\ ~Borrowed(link) /\ ~Borrowed(link)' =>
          /\ Page(link) = Page(link)' => Key = Key'
          /\ Key = Key' => Alike(link, link')]_<<link>>
=============================================================================
