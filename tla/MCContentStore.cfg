SPECIFICATION Spec
CONSTANTS
  Seed <- SeedUrl  Hrefs <- SomeHrefs  Urls <- SomeUrls  Policy = "registrable_domain"
  Answers <- SomeAnswers
  MaxAttempts = 3  MaxRedirects = 2
INVARIANTS TypeOK OneRowPerPage FetchedIsKey DoneStored TrueIfUnchanged
CHECK_DEADLOCK FALSE
