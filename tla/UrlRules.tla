------------------------------ MODULE UrlRules ------------------------------
(***************************************************************************)
(* Which pages are one page: how an address found in a page or a Location  *)
(* header becomes the URL that is fetched and the key of its row.          *)
(*                                                                         *)
(* A URL is what the WHATWG parser makes of a string: port 0 is a port     *)
(* that is not written, or that is the default of the scheme; the path is  *)
(* a sequence of names and the number of slashes after them; query is the  *)
(* sequence of parameters; fragment 0 is none. A text, the name or value   *)
(* of a parameter, is its place in the order of localeCompare and its      *)
(* spelling: that order does not tell all texts apart.  The user, the      *)
(* percent encoding and the case of the host, which the parser folds, are  *)
(* left out.                                                               *)
(***************************************************************************)
EXTENDS Integers, Sequences, TLC, Functions

Text == Nat \X Nat         \* a place and a spelling
Place(text) == text[1]
Param == Text \X Text      \* a name and a value
Params == Seq(Param)

IsUrl(u) ==
    /\ u = [scheme |-> u.scheme, host |-> u.host, port |-> u.port, path |-> u.path,
            slashes |-> u.slashes, query |-> u.query, fragment |-> u.fragment]
    /\ u.scheme \in {"https", "http"}
    /\ u.query \in Params

DefaultPort == [https |-> 443, http |-> 80]

\* Parsing: a port that is the scheme's default is not kept; a path is never
\* empty.
Parsed(u) ==
    [u EXCEPT !.port = IF @ = DefaultPort[u.scheme] THEN 0 ELSE @,
              !.slashes = IF u.path = <<>> /\ @ = 0 THEN 1 ELSE @]

\* The scheme of a URL is set; a port that is the new default is dropped.
SetScheme(u, scheme) == Parsed([u EXCEPT !.scheme = scheme])

NoFragment(u) == [u EXCEPT !.fragment = 0]

-----------------------------------------------------------------------------
(* Addresses: an absolute URL, a path with its query, a fragment, an empty *)
(* one, another scheme such as mailto, or no URL at all.                   *)

IsHref(href) ==
    /\ href.kind = "absolute" => IsUrl(href.url)
    /\ href.kind = "path" => href.query \in Params

\* new URL(rawHref, basePageUrl), fragment cleared; no URL when it is rejected.
Resolve(href, base) ==
    CASE href.kind = "absolute" -> {NoFragment(Parsed(href.url))}
      [] href.kind = "path" ->
            {Parsed([base EXCEPT !.path = href.path, !.slashes = href.slashes,
                                 !.query = href.query, !.fragment = 0])}
      [] href.kind = "fragment" -> {NoFragment(base)}
      [] OTHER -> {}

\* Bug: parameters are ordered by their names only.
BugBefore(p, q) == Place(p[1]) < Place(q[1])

\* The comparison of the sort: by name, then by value.
Before(p, q) ==
    \/ Place(p[1]) < Place(q[1])
    \/ Place(p[1]) = Place(q[1]) /\ Place(p[2]) < Place(q[2])

\* Does perm put the parameters in order?  The sort is stable: those that compare
\* equal stay in the order in which they were.
Arranges(perm, query) ==
    \A i, j \in DOMAIN query : i < j =>
        /\ ~Before(query[perm[j]], query[perm[i]])
        /\ Before(query[perm[i]], query[perm[j]]) \/ perm[i] < perm[j]

SortedParams(query) ==
    LET perm == CHOOSE p \in Bijection(DOMAIN query, DOMAIN query) : Arranges(p, query)
    IN  [i \in DOMAIN query |-> query[perm[i]]]

StripSlashes(u) == [u EXCEPT !.slashes = IF u.path = <<>> THEN 1 ELSE 0]

SortQuery(u) == [u EXCEPT !.query = SortedParams(@)]

\* normalize: the key of the row.
Normalize(u) == SortQuery(StripSlashes(NoFragment(SetScheme(u, "https"))))

-----------------------------------------------------------------------------
(* What the key is to be: two URLs name one page if they have the same     *)
(* host, the same port once both are https, the same path but for the      *)
(* slashes at its end, and the same parameters in whatever order.          *)

PortOf(u) == IF u.port = 0 THEN 443 ELSE u.port

SameParams(q, r) ==
    \E match \in Bijection(DOMAIN q, DOMAIN r) : \A i \in DOMAIN q : q[i] = r[match[i]]

SamePage(u, v) ==
    /\ u.host = v.host /\ PortOf(u) = PortOf(v)
    /\ u.path = v.path
    /\ SameParams(u.query, v.query)

\* No two different parameters have the same places in the order.
ToldApart(q) ==
    \A i, j \in DOMAIN q :
        Place(q[i][1]) = Place(q[j][1]) /\ Place(q[i][2]) = Place(q[j][2]) => q[i] = q[j]

-----------------------------------------------------------------------------
(* Scope.                                                                  *)

\* isInScope for the two policies; a host is a domain and the name within it.
InScope(u, seed, policy) ==
    IF policy = "registrable_domain" THEN u.host.domain = seed.host.domain
    ELSE u.host = seed.host

=============================================================================
