\* Programme, staff, patrons, check-in, speakers, figures,
\* vouchers and places, one at a time.
SPECIFICATION MCSpec
CONSTANTS
  Country = {"ID"}
  State = {"Jawa", "Bali"}
  City = {"Depok", "Bogor", "Ubud"}
  CountryOf <- MCCountryOf
  StateOf <- MCStateOf
  Person = {u1}
  Importer = {j1}
  Batch = 2
  MaxRuns = 3
  MaxSaves = 1
  Request = {r1, r2}
  Process = {w1, w2}
  w1 = w1
  w2 = w2
  Absent = Absent
  Gone = Gone
  Null = Null
  Schedule = {s1, s2}
  s1 = s1
  x1 = x1
  Speaker = {x1, x2}
  Order = {1, 2}
  MaxTime = 1
  Entry = {e1, e2}
  User = {u1, u2}
  Type = {"design", "finance"}
  Patron = {p1, p2}
  File = {f1, f2, f3}
  Clerk = {u1}
  Land = {"ID", "SG"}
  Province = {"East"}
  LandOf <- MCLandOf
  Kind = {"Non Participant", "In Person Participant"}
  OnList = {i1, i2, i3}
  PageSize = 2
  Began = 3
  MaxTouches = 2
  Session = {x1, x2}
  Payment = {n1, n2}
  Talk = {h1, h2}
  Region <- MCRegion
  RegionOf <- MCRegionOf
  Qualifies = 2
  Minute = 3
  MaxSeconds = 3
  MaxRows = 4
  Form <- MCForm
  Ticket = {t1, t2}
  Address = {a1}
  t1 = t1
  t2 = t2
  a1 = a1
  MaxSales = 2
  MaxEdits = 2
INVARIANTS
  TypesOK
  ListIsOneRequests
  OneEntryPerUser
  ImageExists
  UserRowIsWhole
  ListIsRead
  FiguresAgree
  VoucherIsKept
  ImportIsComplete
  PlacesStand
PROPERTIES
  EveryRequestEnds
  DeletedForGood
  ClearIsWhole
\* A reader of pages has come to the last one; keys and files are used up.
CHECK_DEADLOCK FALSE
