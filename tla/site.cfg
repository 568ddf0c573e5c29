SPECIFICATION Spec
CONSTANTS
  cat = cat
  dog = dog
  t1 = t1
  t2 = t2
  None = None
  Sample = icon
  Response <- MCResponse
  MaxRuns = 2
  Payloads = {"a", "b"}
  Default = "a"
  MaxPlays = 3
  Files <- TwoFiles
  MaxTries = 4
  Tabs <- TwoTabs
  Paths = {"home", "blog"}
  Options = {0}
  Earlier <- MCEarlier
  MaxAnswers = 3
  MaxResets = 1
  Queries <- MCQueries
  Versions <- MCVersions
CHECK_DEADLOCK FALSE
SYMMETRY Symmetry
INVARIANTS
  ShowsOneRun
  PanelsMatchLog
  ImagesAgree
  AnsweredOnce
  LinksLeadToPages
