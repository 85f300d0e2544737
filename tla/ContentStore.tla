---------------------------- MODULE ContentStore ----------------------------
(***************************************************************************)
(* One page from the link that finds it to its file: its row with the URL  *)
(* to fetch and the key it is known by, the redirects to itself, the file, *)
(* and its row in `contents`, over attempts that fail at any step and      *)
(* processes that die between any two.                                     *)
(*                                                                         *)
(* Simplifications                                                         *)
(*  - the row has one worker at a time (Pool!ClaimExclusive), and every    *)
(*    session stores in one directory: a resume that names another one is  *)
(*    refused;                                                             *)
(*  - retries come due at once; links and other pages are Pool's: here     *)
(*    their failure is the failure of MarkDone;                            *)
(*  - a redirect to another page only ends this one;                       *)
(*  - a content hash is the body it is made of, and the body stands for    *)
(*    size and hash; what a handler extracts is left out.                  *)
(***************************************************************************)
EXTENDS UrlRules

CONSTANTS
    Seed,           \* the seed URL, as parsed
    Hrefs,          \* addresses in pages and Location headers
    Urls,           \* URLs a link may lead to, for OneRowPerPage
    Policy,         \* the scope policy
    Answers,        \* answers with a page: its content type and its body
    MaxAttempts,    \* crawl_urls.max_attempts
    MaxRedirects    \* MAX_REDIRECTS

ASSUME ContentStoreAssumption ==
    /\ {MaxAttempts, MaxRedirects} \subseteq Nat \ {0}
    /\ Policy \in {"registrable_domain", "exact_hostname"}
    /\ \A a \in Answers : a = [type |-> a.type, body |-> a.body]
    /\ IsUrl(Seed) /\ \A u \in Urls : IsUrl(u)
    /\ \A href \in Hrefs : IsHref(href)

VARIABLES
    row,        \* the page's row in crawl_urls: status, url, key, attempts, redirects
    pc,         \* what its worker does next
    got,        \* the answer the worker holds
    files,      \* the files on disk, by path
    content,    \* the page's row in contents
    served,     \* history: the answers with a page of a type that is stored
    last        \* history: the latest of them

history == <<served, last>>
vars == <<row, pc, got, files, content, history>>

-----------------------------------------------------------------------------
(* Types and paths.                                                        *)

\* The handlers' supports(), and the directory and extension of each type.
Directory ==
    [t \in {"text/html", "application/xhtml+xml"} |-> <<"html", "html">>]
    @@ [t \in {"application/pdf"} |-> <<"pdfs", "pdf">>]
    @@ "image/jpeg" :> <<"images", "jpg">> @@ "image/png" :> <<"images", "png">>
    @@ "image/gif" :> <<"images", "gif">> @@ "image/webp" :> <<"images", "webp">>
    @@ "video/mp4" :> <<"videos", "mp4">> @@ "video/webm" :> <<"videos", "webm">>
    @@ "video/quicktime" :> <<"videos", "mov">>
    @@ "video/other" :> <<"videos", "bin">>     \* any other video type

Supported(type) == type \in DOMAIN Directory

\* buildOutputPath: the key names the file, the type its directory and extension.
PathOf(type) == <<row.key, Directory[type]>>

FileAt(path) == IF path \in DOMAIN files THEN files[path] ELSE "absent"

PutFile(path, what) ==
    files' = [p \in DOMAIN files \cup {path} |-> IF p = path THEN what ELSE files[p]]

NoRow == [status |-> "absent", url |-> Seed, key |-> Seed, attempts |-> 0, redirects |-> 0]
Nothing == [type |-> "none", body |-> "none"]
NoContent == [type |-> "none", path |-> <<>>, hash |-> "none"]

Init ==
    /\ row = NoRow /\ pc = "idle" /\ got = Nothing
    /\ files = <<>> /\ content = NoContent /\ served = {} /\ last = Nothing

-----------------------------------------------------------------------------
(* The row.                                                                *)

\* The first link to the page, in scope, admits it.
Admit(href) ==
    /\ row.status = "absent"
    /\ \E url \in Resolve(href, Seed) :
           /\ InScope(Normalize(url), Normalize(Seed), Policy)
           /\ row' = [NoRow EXCEPT !.status = "queued", !.url = url, !.key = Normalize(url)]
    /\ UNCHANGED <<pc, got, files, content, history>>

Claim ==
    /\ row.status \in {"queued", "retryable_failed"} /\ pc = "idle"
    /\ row' = [row EXCEPT !.status = "in_progress"]
    /\ pc' = "fetch"
    /\ UNCHANGED <<got, files, content, history>>

\* The worker writes an outcome and lets go of the row.
Settle(newRow) ==
    /\ row' = newRow /\ pc' = "idle" /\ got' = Nothing
    /\ UNCHANGED <<content, history>>

\* Bug: one attempt too many.
BugRetried ==
    IF row.attempts >= MaxAttempts
    THEN [row EXCEPT !.status = "permanent_failed"]
    ELSE [row EXCEPT !.status = "retryable_failed", !.attempts = @ + 1]

\* handleRetryableOutcome.
Retried ==
    IF row.attempts + 1 >= MaxAttempts
    THEN [row EXCEPT !.status = "permanent_failed"]
    ELSE [row EXCEPT !.status = "retryable_failed", !.attempts = @ + 1]

Retry == Settle(Retried) /\ UNCHANGED files

FetchFails == pc = "fetch" /\ Retry

\* Bug: the parameters are not compared.
BugIsSelf(url) == url.host = row.key.host /\ url.path = row.key.path

\* Does a redirect lead to the page itself?
IsSelf(url) == Normalize(url) = row.key

\* handleRedirect: to itself, the row is fetched again from the new URL.
FetchRedirect(href) ==
    /\ pc = "fetch"
    /\ UNCHANGED files
    /\ LET to == Resolve(href, row.url)
       IN  IF row.redirects >= MaxRedirects \/ to = {}
           THEN Settle([row EXCEPT !.status = "permanent_failed"])
           ELSE \E url \in to :
                    IF IsSelf(url)
                    THEN Settle([row EXCEPT !.status = "queued", !.url = url,
                                            !.redirects = @ + 1])
                    ELSE Settle([row EXCEPT !.status = "redirected"])

\* A page; an answer of a type without a handler is not stored.
FetchPage(answer) ==
    /\ pc = "fetch"
    /\ IF ~Supported(answer.type)
       THEN Settle([row EXCEPT !.status = "skipped_unsupported"])
       ELSE /\ pc' = "save" /\ got' = answer
            /\ served' = served \cup {answer} /\ last' = answer
            /\ UNCHANGED <<row, content>>
    /\ UNCHANGED files

-----------------------------------------------------------------------------
(* Storing: file, contents row, links and status, byte counter.            *)

\* Bug: a file that is there already is left as it is.
BugOpenFile ==
    /\ pc = "save"
    /\ IF FileAt(PathOf(got.type)) = "absent"
       THEN pc' = "write" /\ PutFile(PathOf(got.type), "partial")
       ELSE pc' = "insert" /\ UNCHANGED files
    /\ UNCHANGED <<row, got, content, history>>

\* writeFile truncates what was there ...
OpenFile ==
    /\ pc = "save"
    /\ pc' = "write"
    /\ PutFile(PathOf(got.type), "partial")
    /\ UNCHANGED <<row, got, content, history>>

\* ... and writes; before or after it has truncated, it may fail.
WriteFile ==
    /\ pc = "write"
    /\ pc' = "insert"
    /\ PutFile(PathOf(got.type), got.body)
    /\ UNCHANGED <<row, got, content, history>>

\* Bug: a failure to write the file is left to the log.
BugSaveFails ==
    /\ pc \in {"save", "write"}
    /\ pc' = "insert"
    /\ UNCHANGED <<row, got, files, content, history>>

SaveFails == pc \in {"save", "write"} /\ Retry

\* contentRepository.create: ON CONFLICT DO NOTHING.
InsertContent ==
    /\ pc = "insert"
    /\ pc' = "mark"
    /\ content' = IF content # NoContent THEN content
                  ELSE [type |-> got.type, path |-> PathOf(got.type), hash |-> got.body]
    /\ UNCHANGED <<row, got, files, history>>

InsertFails == pc = "insert" /\ Retry

\* The links are enqueued and the page is done ...
MarkDone ==
    /\ pc = "mark"
    /\ row' = [row EXCEPT !.status = "done"]
    /\ pc' = "bytes"
    /\ UNCHANGED <<got, files, content, history>>

MarkFails == pc = "mark" /\ Retry

\* ... and its bytes are counted; if they cannot be, the page is tried again.
AddBytes == pc = "bytes" /\ Settle(row) /\ UNCHANGED files

AddBytesFails == pc = "bytes" /\ Retry

\* The process dies, and the next session reclaims the row.
Crash ==
    /\ pc # "idle"
    /\ Settle([row EXCEPT !.status = IF @ = "in_progress" THEN "queued" ELSE @])
    /\ UNCHANGED files

-----------------------------------------------------------------------------

Next ==
    \/ \E href \in Hrefs : Admit(href) \/ FetchRedirect(href)
    \/ \E answer \in Answers : FetchPage(answer)
    \/ Claim \/ FetchFails
    \/ OpenFile \/ WriteFile \/ SaveFails
    \/ InsertContent \/ InsertFails
    \/ MarkDone \/ MarkFails
    \/ AddBytes \/ AddBytesFails
    \/ Crash

Spec == Init /\ [][Next]_vars

-----------------------------------------------------------------------------
(* Properties.                                                             *)

Status == {"absent", "queued", "in_progress", "done", "retryable_failed",
           "permanent_failed", "skipped_unsupported", "redirected"}

\* Every variable has its type; a row has a worker only in progress, or done
\* with its bytes not yet counted.
TypeOK ==
    /\ row.status \in Status
    /\ row.attempts \in 0 .. MaxAttempts - 1
    /\ row.redirects \in 0 .. MaxRedirects
    /\ pc \in {"idle", "fetch", "save", "write", "insert", "mark", "bytes"}
    /\ got \in Answers \cup {Nothing}
    /\ \A path \in DOMAIN files : files[path] \in {"partial"} \cup {a.body : a \in Answers}
    /\ content = NoContent \/ [type |-> content.type, body |-> content.hash] \in Answers
    /\ served \subseteq Answers
    /\ IF served = {} THEN last = Nothing ELSE last \in served
    /\ (pc \in {"fetch", "save", "write", "insert", "mark"}) <=> (row.status = "in_progress")

\* "uniqueness gives dedup": the row, unique by its key, is the row of no other
\* page, and of every spelling of its page whose parameters localeCompare tells
\* apart; and the key that is read back from the database and normalized again is
\* the key that was stored.  Different parameters that compare equal, as two
\* encodings of one accented letter do, keep the order they have in the URL, and
\* a page that is found with them in two orders has two keys.
OneRowPerPage ==
    row.status = "queued" /\ served = {} =>
        /\ \A u \in Urls :
               /\ Normalize(u) = row.key => SamePage(u, row.key)
               /\ SamePage(u, row.key) /\ ToldApart(u.query) => Normalize(u) = row.key
        /\ Normalize(row.key) = row.key /\ Parsed(row.key) = row.key

\* The URL that is fetched stays one of those the row's key stands for, over
\* any number of redirects: the row that is unique by its key is the page.
KeyIsNormal == row.status # "absent" => row.key = Normalize(row.url)
FetchedIsKey ==
    /\ KeyIsNormal
    /\ row.status # "absent" => SamePage(row.key, row.url)

\* "If bytes are fetched and persisted, the URL is done": and conversely, a page
\* that is done has a row in contents, and its last answer is whole on disk.
DoneStored ==
    row.status = "done" =>
        /\ content # NoContent
        /\ FileAt(PathOf(last.type)) = last.body

\* The contents row of a page that is done describes the file it names, if the
\* site has answered the same page every time, however many attempts failed or
\* died in the middle of a file.
TrueIfUnchanged ==
    row.status = "done" /\ served = {last} =>
        /\ FileAt(content.path) = content.hash
        /\ content.path = PathOf(last.type)

\* "content_hash [...] sha256 of bytes: change detection + dedup signal": the
\* contents row of a page that is done describes the file it names.
RowDescribesFile == row.status = "done" => FileAt(content.path) = content.hash

=============================================================================
