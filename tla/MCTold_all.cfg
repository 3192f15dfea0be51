CONSTANTS
  b1 = b1 b2 = b2 v1 = v1 x1 = x1 x2 = x2
  Bookings = {b1, b2} AtDesk = {b1} Options = {"zip", "quad"} Asked <- MCAsked Amounts = {1}
  MonthLength = 1 LastDay = 1 MaxEntries = 2 MaxEdits = 1
  Parties = {x1, x2} Unbooked = Unbooked Wants <- MCWants Activities = {"zip", "buggy"} flat = {"buggy"}
  Times = {10, 14} noon = 12 Calendars <- MCCalendars DefaultSlotCapacity = 2 None = None
  Senders = {x1, x2} Terms <- MCTerms Contacts <- MCContacts NoPhone = NoPhone MaxSends = 2 MaxEvents = 3
  Visitors = {v1} Threads = {x1, x2} Calls = {x1, x2} MaxTexts = 2 MaxCalls = 4
  Entries = {1, 2, 3} Rows <- MCRows Queries <- MCQueries NoFilter = NoFilter
  PageSizes = {0, 5} DefaultPageSize = 1 MaxPageSize = 2 ExportSize = 2 MaxTerms = 2 MaxChanges = 2
  Documents <- MCDocuments Products <- MCProducts Prices <- MCPrices NoPrice = NoPrice
  CAT_ORDER <- MCCategories RESTO_ORDER <- MCRestaurants Families = 2 Texts <- MCTexts MaxReprices = 1
  Migrations = 2 MaxRuns = 3 MaxBooked = 1 Variables <- MCVariables
  Clerks = {x1, x2} Couples = {1, 2} Benefits <- MCOffers NoLimit = NoLimit LastCouponDay = 1 MaxClerkCalls = 3
  Uploads = {x1, x2} Shots = {1, 2, 3, 4} PHOTOS_PER_BOOKING = 2
  Waiters = {x1, x2} Requests = {1, 2} Askings <- MCAskings ListLimit = 1 MaxDecisions = 2 LastTableDay = 1
  KeepDays = 2 LastCopyNight = 4
SPECIFICATION ToldSpec
INVARIANTS ToldTypeOK ReportsBalance OffersHonest GuestsTold BoardTold PagesWhole CatalogFaithful ScriptsSafe
SYMMETRY Symmetry
CHECK_DEADLOCK FALSE
