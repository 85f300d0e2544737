--------------------------- MODULE MCContentStore ---------------------------
(* A page that a site answers as HTML or as an image, found by links that  *)
(* differ in scheme, port, slashes, fragment and the order of parameters.  *)
EXTENDS ContentStore

Home == [domain |-> 1, name |-> 0]
Sub == [domain |-> 1, name |-> 1]
Elsewhere == [domain |-> 2, name |-> 0]

Url(scheme, host, port, path, slashes, query) ==
    [scheme |-> scheme, host |-> host, port |-> port, path |-> path,
     slashes |-> slashes, query |-> query, fragment |-> 0]

SeedUrl == Url("http", Home, 0, <<>>, 1, <<>>)

Absolute(u) == [kind |-> "absolute", url |-> u]
Path(path, slashes, query) ==
    [kind |-> "path", path |-> path, slashes |-> slashes, query |-> query]

\* A parameter with texts of the first spelling, and one that compares equal to
\* Par(1, 2) and is another.
Par(name, value) == << <<name, 0>>, <<value, 0>> >>
Twin == << <<1, 0>>, <<2, 1>> >>

SomeParams == <<Par(2, 1), Par(1, 2), Par(1, 1)>>

SomeHrefs == {
    Absolute(Url("http", Home, 80, <<1>>, 0, SomeParams)),
    Absolute([Url("https", Home, 443, <<1>>, 2, <<Par(1, 2), Par(1, 1), Par(2, 1)>>)
                  EXCEPT !.fragment = 1]),
    Absolute(Url("https", Home, 80, <<1>>, 0, SomeParams)),
    Absolute(Url("https", Elsewhere, 0, <<1>>, 0, SomeParams)),
    Path(<<1>>, 1, SomeParams), Path(<<1>>, 0, <<>>),
    Path(<<1>>, 0, <<Par(2, 1), Twin, Par(1, 2)>>),
    [kind |-> "fragment"], [kind |-> "mailto"]}

\* Every URL over two hosts, three ports, two paths and a few queries.
Queries == {<<>>, <<Par(1, 1)>>, SomeParams,
            <<Par(1, 1), Par(1, 2), Par(2, 1)>>, <<Par(1, 2), Par(1, 1), Par(2, 1)>>,
            <<Par(1, 1), Par(1, 1), Par(2, 1)>>, <<Par(1, 2), Par(2, 1), Par(2, 1)>>,
            <<Twin, Par(1, 2), Par(2, 1)>>, <<Twin, Par(2, 1), Par(1, 2)>>,
            <<Par(1, 2), Twin, Par(2, 1)>>}
SomeUrls == {Parsed(Url(scheme, host, port, path, slashes, query)) :
    scheme \in {"http", "https"}, host \in {Home, Sub}, port \in {0, 80, 443},
    path \in {<<>>, <<1>>}, slashes \in 0 .. 2, query \in Queries}

\* A page that changes, is an image for a time, or a text.
SomeAnswers ==
    [type : {"text/html", "image/png", "text/plain"}, body : {"v1", "v2"}]

=============================================================================
