SPECIFICATION Spec
CONSTANTS
  Seed <- SeedUrl  Hrefs <- SomeHrefs  Urls <- SomeUrls  Policy = "registrable_domain"
  Answers <- SomeAnswers
  MaxAttempts = 3  MaxRedirects = 2
INVARIANT RowDescribesFile
CHECK_DEADLOCK FALSE
