CONSTANTS
  my = my
  other = other
  js = js
  beams = beams
  missing = missing
  channels = channels
  push = push
  Channels = {my, other}
  DefaultChannel = my
  Nothing = Nothing
  HistoryLimit = 1
  Articles = {js, beams}
  Docs = {js, beams, missing}
  Quickstart = js
  Categories = {channels, push}
  CategoryOf <- ByCategory
  Sections <- Listed
  FirstCategory = channels
  MaxCalls = 3
  MaxGrowth = 2
  MaxTimers = 2
  MaxEntries = 4
SPECIFICATION Spec
CHECK_DEADLOCK FALSE
INVARIANTS
  CopiedFades
  SearchShowsWhatItFound
  UrlShowsItsArticle
  SidebarListsTheArticle
PROPERTIES
  StatsCatchUp
