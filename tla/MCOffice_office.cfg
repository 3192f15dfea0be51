CONSTANTS
  p1 = p1  p2 = p2  x1 = x1  x2 = x2   a1 = a1  f1 = f1
  Requests = {p1, p2}
  Links = {x1, x2}
  NoLink = NoLink
  Window = 1
  MaxStep = 2
  MaxSecrets = 1
  MaxEras = 2
  Desk = {p1, p2}
  Vacancies = {x1, x2}
  NoVacancy = NoVacancy
  Applications = {a1}
  NoApplication = NoApplication
  MaxAttempts = 2
  Replicas = {p1, p2}
  Records = {x1, x2}
  Drafts = {f1}
  Batch = 1
  Floor = 1
  Ceiling = 2
  Rest = 1
  MaxYear = 2
  NightlyKeep = 2
  MonthlyKeep = 1
  MaxAge = 1
  TestMaxAge = 2
  MonthLength = 2
  LastNight = 4
SPECIFICATION OfficeSpec
SYMMETRY Symmetry
INVARIANTS
  OfficeTypeOK SignInEnds PostsSucceed PeriodsKept BackupsSound
PROPERTY AddressStays
CHECK_DEADLOCK FALSE
