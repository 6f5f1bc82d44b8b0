SPECIFICATION FairSpec
CONSTANTS
  Instance = {p1, p2}
  Absent = absent
  Torn = torn
  Garbled = garbled
  NoNumber = nonumber
  NoUrl = nourl
  OldFiles <- MCOldFiles
  Suffix <- MCSuffix
  Opening <- MCOpening
  Rest <- MCRest
  Alphabet <- MCAlphabet
  Builds <- MCBuilds
  Lists <- MCLists
INVARIANTS OneInstance SettingsSurvive FileMatchesEngine
  UrlMatchesStatus BestRelease
PROPERTY CheckEnds
