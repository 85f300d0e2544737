------------------------- MODULE ContentStoreProofs -------------------------
(***************************************************************************)
(* Proofs about ContentStore, for any addresses, answers and limits: a     *)
(* page that is done is stored, its contents row is true of it if the site *)
(* did not change it, and the URL that is fetched stays one that           *)
(* normalizes to the key of its row.                                       *)
(***************************************************************************)
EXTENDS ContentStore, UrlRulesProofs

-----------------------------------------------------------------------------
(* The inductive invariant.                                                *)

RowOf(status, url, key, attempts, redirects) ==
    [status |-> status, url |-> url, key |-> key, attempts |-> attempts,
     redirects |-> redirects]
IsRow(r) == r = RowOf(r.status, r.url, r.key, r.attempts, r.redirects)

ContentOf(a) == [type |-> a.type, path |-> PathOf(a.type), hash |-> a.body]

\* The answer in hand is the last one, and is whole on disk once it is written.
InHand ==
    /\ pc \in {"save", "write", "insert", "mark"} => got = last /\ last \in served
    /\ pc \in {"insert", "mark"} => FileAt(PathOf(last.type)) = last.body
    /\ pc = "mark" => content # NoContent
    /\ pc = "bytes" => row.status = "done"

\* The contents row is that of one of the answers, whichever came first.
ContentServed == content # NoContent => \E a \in served : content = ContentOf(a)

\* Before the page has a row there is nothing of it.
NothingYet == row.status = "absent" => content = NoContent /\ served = {}

StoreInv ==
    /\ TypeOK /\ IsRow(row)
    /\ KeyIsNormal /\ InHand /\ ContentServed /\ NothingYet /\ DoneStored

-----------------------------------------------------------------------------
(* Rows.                                                                   *)

LEMMA RowFields ==
    ASSUME NEW s, NEW u, NEW k, NEW m, NEW n
    PROVE  LET r == RowOf(s, u, k, m, n) IN
           /\ IsRow(r)
           /\ r.status = s /\ r.url = u /\ r.key = k /\ r.attempts = m /\ r.redirects = n
BY DEF RowOf, IsRow

\* One field at a time, for the provers' sake.
LEMMA RedirectedRow ==
    ASSUME NEW r, IsRow(r), NEW s, NEW u
    PROVE  [r EXCEPT !.status = s, !.url = u, !.redirects = @ + 1]
             = RowOf(s, u, r.key, r.attempts, r.redirects + 1)
<1>1. \A n : [r EXCEPT !.status = s, !.url = u, !.redirects = n]
                = [[[r EXCEPT !.status = s] EXCEPT !.url = u] EXCEPT !.redirects = n]
    OBVIOUS
<1>2. PICK k, m : k = r.key /\ m = r.attempts
    OBVIOUS
<1>3. [r EXCEPT !.status = s] = RowOf(s, r.url, k, m, r.redirects)
    BY <1>2 DEF IsRow, RowOf
<1>4. [RowOf(s, r.url, k, m, r.redirects) EXCEPT !.url = u] = RowOf(s, u, k, m, r.redirects)
    BY DEF RowOf
<1>5. \A n : [RowOf(s, u, k, m, r.redirects) EXCEPT !.redirects = n] = RowOf(s, u, k, m, n)
    BY DEF RowOf
<1>6. \A n : [r EXCEPT !.status = s, !.url = u, !.redirects = n] = RowOf(s, u, k, m, n)
    BY <1>1, <1>3, <1>4, <1>5
<1>7. QED  BY <1>2, <1>6

\* A worker that lets go of its row leaves what is stored, and the row's key.
LEMMA SettleInv ==
    ASSUME StoreInv, NEW s \in Status \ {"absent", "in_progress"}, NEW u,
           NEW m \in 0 .. MaxAttempts - 1, NEW n \in 0 .. MaxRedirects,
           row.status # "absent",
           Normalize(u) = row.key, s = "done" => row.status = "done",
           Settle(RowOf(s, u, row.key, m, n)), files' = files
    PROVE  StoreInv'
<1>1. /\ IsRow(row') /\ row'.status = s /\ row'.url = u /\ row'.key = row.key
      /\ row'.attempts = m /\ row'.redirects = n
    BY RowFields DEF Settle
<1>2. /\ pc' = "idle" /\ got' = Nothing /\ content' = content /\ served' = served
      /\ last' = last
    BY DEF Settle, history
<1>3. TypeOK'
    BY <1>1, <1>2 DEF StoreInv, TypeOK
<1>4. KeyIsNormal' /\ InHand' /\ NothingYet'
    BY <1>1, <1>2 DEF KeyIsNormal, InHand, NothingYet
<1>5. ContentServed' /\ DoneStored'
    BY <1>1, <1>2 DEF StoreInv, ContentServed, ContentOf, DoneStored, PathOf, FileAt
<1>6. QED  BY <1>1, <1>3, <1>4, <1>5 DEF StoreInv

\* A retry, or the last failure, of an attempt.
LEMMA RetryInv ==
    ASSUME StoreInv, pc # "idle", Retry
    PROVE  StoreInv'
<1>1. /\ row.status \in {"in_progress", "done"} /\ row.key = Normalize(row.url)
      /\ row.attempts \in 0 .. MaxAttempts - 1 /\ row.redirects \in 0 .. MaxRedirects
    BY DEF StoreInv, TypeOK, InHand, KeyIsNormal
<1>2. MaxAttempts \in Nat \ {0}
    BY ContentStoreAssumption
<1>3. CASE row.attempts + 1 >= MaxAttempts
    <2>1. Retried = RowOf("permanent_failed", row.url, row.key, row.attempts, row.redirects)
        BY <1>3 DEF Retried, StoreInv, IsRow, RowOf
    <2>2. QED  BY <1>1, <2>1, SettleInv DEF Retry, Status
<1>4. CASE ~(row.attempts + 1 >= MaxAttempts)
    <2>1. Retried = RowOf("retryable_failed", row.url, row.key, row.attempts + 1, row.redirects)
        BY <1>4 DEF Retried, StoreInv, IsRow, RowOf
    <2>2. row.attempts + 1 \in 0 .. MaxAttempts - 1
        BY <1>1, <1>2, <1>4
    <2>3. QED  BY <1>1, <2>1, <2>2, SettleInv DEF Retry, Status
<1>5. QED  BY <1>3, <1>4

-----------------------------------------------------------------------------
(* The steps.                                                              *)

LEMMA AdmitInv ==
    ASSUME StoreInv, NEW href, Admit(href)
    PROVE  StoreInv'
<1>1. PICK url : row' = [NoRow EXCEPT !.status = "queued", !.url = url,
                                      !.key = Normalize(url)]
    BY DEF Admit
<1>2. row' = RowOf("queued", url, Normalize(url), 0, 0)
    BY <1>1 DEF NoRow, RowOf
<1>3. /\ IsRow(row') /\ row'.status = "queued" /\ row'.url = url /\ row'.key = Normalize(url)
      /\ row'.attempts = 0 /\ row'.redirects = 0
    BY <1>2, RowFields
<1>4. /\ UNCHANGED <<pc, got, files, content, served, last>>
      /\ row.status = "absent" /\ content = NoContent /\ served = {}
      /\ pc = "idle"
    BY DEF Admit, history, StoreInv, NothingYet, TypeOK, InHand
<1>5. TypeOK'
    BY <1>3, <1>4, ContentStoreAssumption DEF StoreInv, TypeOK, Status
<1>6. KeyIsNormal' /\ InHand' /\ ContentServed' /\ NothingYet' /\ DoneStored'
    BY <1>3, <1>4 DEF KeyIsNormal, InHand, ContentServed, NothingYet, DoneStored
<1>7. QED  BY <1>3, <1>5, <1>6 DEF StoreInv

LEMMA ClaimInv ==
    ASSUME StoreInv, Claim
    PROVE  StoreInv'
<1>1. row' = RowOf("in_progress", row.url, row.key, row.attempts, row.redirects)
    BY DEF Claim, StoreInv, IsRow, RowOf
<1>2. /\ IsRow(row') /\ row'.status = "in_progress" /\ row'.url = row.url
      /\ row'.key = row.key /\ row'.attempts = row.attempts /\ row'.redirects = row.redirects
    BY <1>1, RowFields
<1>3. /\ UNCHANGED <<got, files, content, served, last>> /\ pc' = "fetch"
      /\ row.status \in {"queued", "retryable_failed"}
    BY DEF Claim, history
<1>4. TypeOK'
    BY <1>2, <1>3 DEF StoreInv, TypeOK, Status
<1>5. KeyIsNormal' /\ InHand' /\ ContentServed' /\ NothingYet' /\ DoneStored'
    BY <1>2, <1>3 DEF StoreInv, KeyIsNormal, InHand, ContentServed, ContentOf, PathOf,
       NothingYet, DoneStored
<1>6. QED  BY <1>2, <1>4, <1>5 DEF StoreInv

LEMMA FetchRedirectInv ==
    ASSUME StoreInv, NEW href, FetchRedirect(href)
    PROVE  StoreInv'
<1>1. /\ row.status = "in_progress" /\ row.key = Normalize(row.url)
      /\ row.attempts \in 0 .. MaxAttempts - 1 /\ row.redirects \in 0 .. MaxRedirects
      /\ MaxRedirects \in Nat /\ files' = files
    BY ContentStoreAssumption DEF FetchRedirect, StoreInv, TypeOK, KeyIsNormal
<1>2. CASE row.redirects >= MaxRedirects \/ Resolve(href, row.url) = {}
    <2>1. Settle([row EXCEPT !.status = "permanent_failed"])
        BY <1>2 DEF FetchRedirect
    <2>2. [row EXCEPT !.status = "permanent_failed"]
            = RowOf("permanent_failed", row.url, row.key, row.attempts, row.redirects)
        BY DEF StoreInv, IsRow, RowOf
    <2>3. QED  BY <1>1, <2>1, <2>2, SettleInv DEF Status
<1>3. CASE ~(row.redirects >= MaxRedirects) /\ Resolve(href, row.url) # {}
    <2>1. PICK url : IF IsSelf(url)
                     THEN Settle([row EXCEPT !.status = "queued", !.url = url,
                                             !.redirects = @ + 1])
                     ELSE Settle([row EXCEPT !.status = "redirected"])
        BY <1>3 DEF FetchRedirect
    <2>2. CASE IsSelf(url)
        <3>1. [row EXCEPT !.status = "queued", !.url = url, !.redirects = @ + 1]
                = RowOf("queued", url, row.key, row.attempts, row.redirects + 1)
            BY RedirectedRow DEF StoreInv
        <3>2. Normalize(url) = row.key /\ row.redirects + 1 \in 0 .. MaxRedirects
            BY <1>1, <1>3, <2>2 DEF IsSelf
        <3>3. QED  BY <1>1, <2>1, <2>2, <3>1, <3>2, SettleInv DEF Status
    <2>3. CASE ~IsSelf(url)
        <3>1. [row EXCEPT !.status = "redirected"]
                = RowOf("redirected", row.url, row.key, row.attempts, row.redirects)
            BY DEF StoreInv, IsRow, RowOf
        <3>2. QED  BY <1>1, <2>1, <2>3, <3>1, SettleInv DEF Status
    <2>4. QED  BY <2>2, <2>3
<1>4. QED  BY <1>2, <1>3

LEMMA FetchPageInv ==
    ASSUME StoreInv, NEW answer \in Answers, FetchPage(answer)
    PROVE  StoreInv'
<1>1. /\ row.status = "in_progress" /\ row.key = Normalize(row.url)
      /\ row.attempts \in 0 .. MaxAttempts - 1 /\ row.redirects \in 0 .. MaxRedirects
      /\ files' = files
    BY DEF FetchPage, StoreInv, TypeOK, KeyIsNormal
<1>2. CASE ~Supported(answer.type)
    <2>1. [row EXCEPT !.status = "skipped_unsupported"]
            = RowOf("skipped_unsupported", row.url, row.key, row.attempts, row.redirects)
        BY DEF StoreInv, IsRow, RowOf
    <2>2. QED  BY <1>1, <1>2, <2>1, SettleInv DEF FetchPage, Status
<1>3. CASE Supported(answer.type)
    <2>1. /\ UNCHANGED <<row, content, files>> /\ pc' = "save" /\ got' = answer
          /\ served' = served \cup {answer} /\ last' = answer
        BY <1>3 DEF FetchPage
    <2>2. TypeOK'
        BY <1>1, <2>1 DEF StoreInv, TypeOK
    <2>3. KeyIsNormal' /\ InHand' /\ ContentServed' /\ NothingYet' /\ DoneStored' /\ IsRow(row')
        BY <1>1, <2>1 DEF StoreInv, KeyIsNormal, InHand, ContentServed, ContentOf, PathOf,
           NothingYet, DoneStored
    <2>4. QED  BY <2>2, <2>3 DEF StoreInv
<1>4. QED  BY <1>2, <1>3

\* Only a worker in the middle of a page writes its file.
LEMMA PutFileInv ==
    ASSUME StoreInv, OpenFile \/ WriteFile
    PROVE  StoreInv'
<1>1. /\ row.status = "in_progress" /\ got = last /\ last \in Answers
      /\ UNCHANGED <<row, got, content, served, last>>
      /\ pc' \in {"write", "insert"}
    BY DEF OpenFile, WriteFile, StoreInv, TypeOK, InHand, history
<1>2. \A path \in DOMAIN files' :
          files'[path] \in {"partial"} \cup {a.body : a \in Answers}
    <2>1. CASE OpenFile
        BY <2>1 DEF OpenFile, PutFile, StoreInv, TypeOK
    <2>2. CASE WriteFile
        BY <1>1, <2>2 DEF WriteFile, PutFile, StoreInv, TypeOK
    <2>3. QED  BY <2>1, <2>2
<1>3. pc' = "insert" => FileAt(PathOf(last.type))' = last'.body
    <2>1. CASE OpenFile
        BY <2>1 DEF OpenFile
    <2>2. CASE WriteFile
        BY <1>1, <2>2 DEF WriteFile, PutFile, FileAt, PathOf
    <2>3. QED  BY <2>1, <2>2
<1>4. TypeOK'
    BY <1>1, <1>2 DEF StoreInv, TypeOK
<1>5. KeyIsNormal' /\ InHand' /\ ContentServed' /\ NothingYet' /\ DoneStored' /\ IsRow(row')
    BY <1>1, <1>3 DEF StoreInv, KeyIsNormal, InHand, ContentServed, ContentOf, PathOf,
       NothingYet, DoneStored, OpenFile, WriteFile
<1>6. QED  BY <1>4, <1>5 DEF StoreInv

LEMMA InsertContentInv ==
    ASSUME StoreInv, InsertContent
    PROVE  StoreInv'
<1>1. /\ UNCHANGED <<row, got, files, served, last>> /\ pc = "insert" /\ pc' = "mark"
      /\ row.status = "in_progress" /\ got = last /\ last \in served /\ last \in Answers
    BY DEF InsertContent, history, StoreInv, TypeOK, InHand
<1>2. content' = IF content # NoContent THEN content ELSE ContentOf(last)
    BY <1>1 DEF InsertContent, ContentOf
<1>3. content' # NoContent
    <2>1. PathOf(last.type) # <<>>
        BY DEF PathOf
    <2>2. QED  BY <1>2, <2>1 DEF ContentOf, NoContent
<1>4. TypeOK'
    BY <1>1, <1>2, ContentStoreAssumption DEF StoreInv, TypeOK, ContentOf
<1>5. KeyIsNormal' /\ InHand' /\ ContentServed' /\ NothingYet' /\ DoneStored' /\ IsRow(row')
    BY <1>1, <1>2, <1>3 DEF StoreInv, KeyIsNormal, InHand, ContentServed, ContentOf, PathOf,
       NothingYet, DoneStored, FileAt
<1>6. QED  BY <1>4, <1>5 DEF StoreInv

LEMMA MarkDoneInv ==
    ASSUME StoreInv, MarkDone
    PROVE  StoreInv'
<1>1. row' = RowOf("done", row.url, row.key, row.attempts, row.redirects)
    BY DEF MarkDone, StoreInv, IsRow, RowOf
<1>2. /\ IsRow(row') /\ row'.status = "done" /\ row'.url = row.url
      /\ row'.key = row.key /\ row'.attempts = row.attempts /\ row'.redirects = row.redirects
    BY <1>1, RowFields
<1>3. /\ UNCHANGED <<got, files, content, served, last>> /\ pc = "mark" /\ pc' = "bytes"
      /\ row.status = "in_progress"
    BY DEF MarkDone, history, StoreInv, TypeOK
<1>4. TypeOK'
    BY <1>2, <1>3 DEF StoreInv, TypeOK, Status
<1>5. KeyIsNormal' /\ InHand' /\ ContentServed' /\ NothingYet' /\ DoneStored'
    BY <1>2, <1>3 DEF StoreInv, KeyIsNormal, InHand, ContentServed, ContentOf, PathOf,
       NothingYet, DoneStored, FileAt
<1>6. QED  BY <1>2, <1>4, <1>5 DEF StoreInv

LEMMA AddBytesInv ==
    ASSUME StoreInv, AddBytes
    PROVE  StoreInv'
<1>1. /\ row.status = "done" /\ row.key = Normalize(row.url)
      /\ row.attempts \in 0 .. MaxAttempts - 1 /\ row.redirects \in 0 .. MaxRedirects
    BY DEF AddBytes, StoreInv, TypeOK, InHand, KeyIsNormal
<1>2. row = RowOf("done", row.url, row.key, row.attempts, row.redirects)
    BY <1>1 DEF StoreInv, IsRow
<1>3. Settle(row) /\ files' = files
    BY DEF AddBytes
<1>4. QED  BY <1>1, <1>2, <1>3, SettleInv DEF Status

LEMMA CrashInv ==
    ASSUME StoreInv, Crash
    PROVE  StoreInv'
<1>1. /\ row.status \in {"in_progress", "done"} /\ row.key = Normalize(row.url)
      /\ row.attempts \in 0 .. MaxAttempts - 1 /\ row.redirects \in 0 .. MaxRedirects
    BY DEF Crash, StoreInv, TypeOK, InHand, KeyIsNormal
<1>2. PICK s \in {"queued", "done"} :
          /\ s = (IF row.status = "in_progress" THEN "queued" ELSE row.status)
          /\ s = "done" => row.status = "done"
    BY <1>1
<1>3. [row EXCEPT !.status = IF @ = "in_progress" THEN "queued" ELSE @]
        = RowOf(s, row.url, row.key, row.attempts, row.redirects)
    BY <1>2 DEF StoreInv, IsRow, RowOf
<1>4. Settle(RowOf(s, row.url, row.key, row.attempts, row.redirects)) /\ files' = files
    BY <1>3 DEF Crash
<1>5. QED  BY <1>1, <1>2, <1>4, SettleInv DEF Status

-----------------------------------------------------------------------------
(* The theorems.                                                           *)

LEMMA StoreInit == Init => StoreInv
<1>1. SUFFICES ASSUME Init PROVE StoreInv
    OBVIOUS
<1>2. NoRow = RowOf("absent", Seed, Seed, 0, 0)
    BY DEF NoRow, RowOf
<1>3. IsRow(row) /\ row.status = "absent" /\ row.attempts = 0 /\ row.redirects = 0
    BY <1>1, <1>2, RowFields DEF Init
<1>4. TypeOK
    BY <1>1, <1>3, ContentStoreAssumption DEF Init, TypeOK, Status
<1>5. KeyIsNormal /\ InHand /\ ContentServed /\ NothingYet /\ DoneStored
    BY <1>1, <1>3 DEF Init, KeyIsNormal, InHand, ContentServed, NothingYet, DoneStored
<1>6. QED  BY <1>3, <1>4, <1>5 DEF StoreInv

LEMMA StoreStep == StoreInv /\ [Next]_vars => StoreInv'
<1>1. SUFFICES ASSUME StoreInv, [Next]_vars PROVE StoreInv'
    OBVIOUS
<1>2. ASSUME NEW href \in Hrefs, Admit(href) PROVE StoreInv'
    BY <1>1, <1>2, AdmitInv
<1>3. ASSUME NEW href \in Hrefs, FetchRedirect(href) PROVE StoreInv'
    BY <1>1, <1>3, FetchRedirectInv
<1>4. ASSUME NEW answer \in Answers, FetchPage(answer) PROVE StoreInv'
    BY <1>1, <1>4, FetchPageInv
<1>5. CASE Claim
    BY <1>1, <1>5, ClaimInv
<1>6. CASE FetchFails \/ SaveFails \/ InsertFails \/ MarkFails \/ AddBytesFails
    BY <1>1, <1>6, RetryInv DEF FetchFails, SaveFails, InsertFails, MarkFails, AddBytesFails
<1>7. CASE OpenFile \/ WriteFile
    BY <1>1, <1>7, PutFileInv
<1>8. CASE InsertContent
    BY <1>1, <1>8, InsertContentInv
<1>9. CASE MarkDone
    BY <1>1, <1>9, MarkDoneInv
<1>10. CASE AddBytes
    BY <1>1, <1>10, AddBytesInv
<1>11. CASE Crash
    BY <1>1, <1>11, CrashInv
<1>12. CASE UNCHANGED vars
    BY <1>1, <1>12 DEF vars, history, StoreInv, TypeOK, KeyIsNormal, InHand, ContentServed,
       ContentOf, PathOf, NothingYet, DoneStored, FileAt
<1>13. QED
    BY <1>1, <1>2, <1>3, <1>4, <1>5, <1>6, <1>7, <1>8, <1>9, <1>10, <1>11, <1>12 DEF Next

LEMMA StoreInvariant == Spec => []StoreInv
BY StoreInit, StoreStep, PTL DEF Spec

\* The types, and the limits on attempts and redirects: retries that fail at
\* any step, redirects of a page to itself and crashes never take a row past
\* its max_attempts - 1 counted failures or MAX_REDIRECTS.
THEOREM TypeTheorem == Spec => []TypeOK
<1>1. StoreInv => TypeOK
    BY DEF StoreInv
<1>2. QED  BY <1>1, StoreInvariant, PTL

\* A page that is done has its row in contents and its last answer whole on
\* disk: no failure or crash between opening the file and the status loses it.
THEOREM DoneStoredTheorem == Spec => []DoneStored
<1>1. StoreInv => DoneStored
    BY DEF StoreInv
<1>2. QED  BY <1>1, StoreInvariant, PTL

\* While the site answers the page the same, its contents row, which ON CONFLICT
\* DO NOTHING leaves as the first attempt wrote it, describes its file.
THEOREM TrueIfUnchangedTheorem == Spec => []TrueIfUnchanged
<1>1. StoreInv => TrueIfUnchanged
    BY DEF StoreInv, DoneStored, ContentServed, ContentOf, TrueIfUnchanged
<1>2. QED  BY <1>1, StoreInvariant, PTL

-----------------------------------------------------------------------------
(* The row and its page.                                                   *)

\* The URL of the row is one, whatever the addresses that redirects name.
RowIsUrl == IsUrl(row.url)

\* Of all the steps, only admission and a redirect write the URL.
LEMMA UrlKept ==
    ASSUME StoreInv
    PROVE  /\ \A s : [row EXCEPT !.status = s].url = row.url
           /\ Retried.url = row.url
<1>1. \A s : [row EXCEPT !.status = s].url = row.url
    BY DEF StoreInv, IsRow, RowOf
<1>2. CASE row.attempts + 1 >= MaxAttempts
    BY <1>1, <1>2 DEF Retried
<1>3. CASE ~(row.attempts + 1 >= MaxAttempts)
    <2>1. Retried = RowOf("retryable_failed", row.url, row.key, row.attempts + 1, row.redirects)
        BY <1>3 DEF Retried, StoreInv, IsRow, RowOf
    <2>2. QED  BY <1>1, <2>1, RowFields
<1>4. QED  BY <1>1, <1>2, <1>3

LEMMA RowIsUrlStep ==
    ASSUME StoreInv, RowIsUrl, [Next]_vars
    PROVE  RowIsUrl'
<1>1. ASSUME NEW href \in Hrefs, Admit(href) PROVE RowIsUrl'
    <2>1. PICK url \in Resolve(href, Seed) :
              row' = [NoRow EXCEPT !.status = "queued", !.url = url, !.key = Normalize(url)]
        BY <1>1 DEF Admit
    <2>2. row' = RowOf("queued", url, Normalize(url), 0, 0)
        BY <2>1 DEF NoRow, RowOf
    <2>3. IsUrl(url)
        BY <2>1, ResolveIsUrl, ContentStoreAssumption
    <2>4. QED  BY <2>2, <2>3, RowFields DEF RowIsUrl
<1>2. ASSUME NEW href \in Hrefs, FetchRedirect(href) PROVE RowIsUrl'
    <2>1. CASE \E s : row' = [row EXCEPT !.status = s]
        BY <2>1, UrlKept DEF RowIsUrl
    <2>2. CASE \E url \in Resolve(href, row.url) :
                   row' = [row EXCEPT !.status = "queued", !.url = url, !.redirects = @ + 1]
        <3>1. PICK url \in Resolve(href, row.url) :
                  row' = [row EXCEPT !.status = "queued", !.url = url, !.redirects = @ + 1]
            BY <2>2
        <3>2. row' = RowOf("queued", url, row.key, row.attempts, row.redirects + 1)
            BY <3>1, RedirectedRow DEF StoreInv
        <3>3. IsUrl(url)
            BY ResolveIsUrl, ContentStoreAssumption DEF RowIsUrl
        <3>4. QED  BY <3>2, <3>3, RowFields DEF RowIsUrl
    <2>3. QED  BY <1>2, <2>1, <2>2 DEF FetchRedirect, Settle
<1>3. ASSUME NEW answer \in Answers, FetchPage(answer) PROVE RowIsUrl'
    <2>1. row' = row \/ row' = [row EXCEPT !.status = "skipped_unsupported"]
        BY <1>3 DEF FetchPage, Settle
    <2>2. QED  BY <2>1, UrlKept DEF RowIsUrl
<1>4. CASE Claim \/ MarkDone \/ Crash
    <2>1. \E s : row' = [row EXCEPT !.status = s]
        BY <1>4 DEF Claim, MarkDone, Crash, Settle
    <2>2. QED  BY <2>1, UrlKept DEF RowIsUrl
<1>5. CASE FetchFails \/ SaveFails \/ InsertFails \/ MarkFails \/ AddBytesFails
    <2>1. row' = Retried
        BY <1>5 DEF FetchFails, SaveFails, InsertFails, MarkFails, AddBytesFails, Retry, Settle
    <2>2. QED  BY <2>1, UrlKept DEF RowIsUrl
<1>6. CASE OpenFile \/ WriteFile \/ InsertContent \/ AddBytes \/ UNCHANGED vars
    BY <1>6 DEF RowIsUrl, OpenFile, WriteFile, InsertContent, AddBytes, Settle, vars
<1>7. QED  BY <1>1, <1>2, <1>3, <1>4, <1>5, <1>6 DEF Next

LEMMA RowIsUrlInvariant == Spec => []RowIsUrl
<1>1. Init => RowIsUrl
    BY ContentStoreAssumption DEF Init, NoRow, RowIsUrl
<1>2. StoreInv /\ RowIsUrl /\ [Next]_vars => RowIsUrl'
    BY RowIsUrlStep
<1>3. QED  BY <1>1, <1>2, StoreInvariant, PTL DEF Spec

\* The URL that is fetched normalizes to the row's key, after any redirects of
\* the page to itself: it names the page that the key names.
THEOREM FetchedIsKeyTheorem == Spec => []FetchedIsKey
<1>1. StoreInv /\ RowIsUrl => FetchedIsKey
    BY KeyIsUrl DEF StoreInv, RowIsUrl, KeyIsNormal, FetchedIsKey
<1>2. QED  BY <1>1, StoreInvariant, RowIsUrlInvariant, PTL

\* The row, unique by its key, is the row of no other page, and of every spelling
\* of its page whose parameters localeCompare tells apart; and its key is stable.
THEOREM OneRowPerPageTheorem == Spec => []OneRowPerPage
<1>1. StoreInv /\ RowIsUrl => OneRowPerPage
    <2>1. SUFFICES ASSUME StoreInv, RowIsUrl, row.status = "queued"
                   PROVE  /\ \A u \in Urls :
                                 /\ Normalize(u) = row.key => SamePage(u, row.key)
                                 /\ SamePage(u, row.key) /\ ToldApart(u.query)
                                       => Normalize(u) = row.key
                          /\ Normalize(row.key) = row.key /\ Parsed(row.key) = row.key
        BY DEF OneRowPerPage
    <2>2. row.key = Normalize(row.url)
        BY <2>1 DEF StoreInv, KeyIsNormal
    <2>3. IsUrl(row.key) /\ Normalize(row.key) = row.key /\ Parsed(row.key) = row.key
        BY <2>1, <2>2, KeyIsUrl, KeyIsStableTheorem DEF RowIsUrl
    <2>4. ASSUME NEW u \in Urls
          PROVE  /\ Normalize(u) = row.key => SamePage(u, row.key)
                 /\ SamePage(u, row.key) /\ ToldApart(u.query) => Normalize(u) = row.key
        <3>1. IsUrl(u)
            BY ContentStoreAssumption
        <3>2. /\ Normalize(u) = Normalize(row.key) => SamePage(u, row.key)
              /\ SamePage(u, row.key) /\ ToldApart(u.query)
                    => Normalize(u) = Normalize(row.key)
            BY <2>3, <3>1, OneKeyPerPageTheorem
        <3>3. QED  BY <2>3, <3>2
    <2>5. QED  BY <2>3, <2>4
<1>2. QED  BY <1>1, StoreInvariant, RowIsUrlInvariant, PTL

=============================================================================
