SPECIFICATION Spec
CONSTANTS
  Main = main
  Refs = {main, dev}
  r1 = r1
  r2 = r2
  r3 = r3
  Readmes = {r1, r2, r3}
  Sensitive = {r1}
  task = task
  slur = slur
  apache = apache
  mit = mit
  Tags = {task, slur, apache, mit}
  Unparsed = {r3}
  BadTags = {slur}
  library = library
  extra = extra
  other = other
  Files = {library, extra}
  TagsOf <- SomeTags
  LicenseTags = {apache, mit}
  BuiltIn = {apache, mit}
  LinksOf <- SomeLinks
  None = None
  MaxTries = 3
  Loads <- SomeLoads
INVARIANT LatestInfos
INVARIANT LibraryCounted
INVARIANT SensitiveIsHidden
PROPERTY PushHandled
CHECK_DEADLOCK FALSE
