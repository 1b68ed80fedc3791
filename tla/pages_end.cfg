SPECIFICATION PageSpec
CONSTANTS
  NoPage = NoPage
  MirrorCount = 2
  ProviderCount = 2
  RetryLimit = 2
  PageModes = {TRUE, FALSE}
  PageWays = {"strict", "soft", "hard"}
PROPERTIES PagesEnd
CHECK_DEADLOCK FALSE
