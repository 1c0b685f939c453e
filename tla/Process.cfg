SPECIFICATION AllSpec
CONSTANTS
  Part = {"ledger", "list", "proxy", "feed", "logins"}
  Procs = {p1, p2}
  Nobody = nobody
  Absent = absent
  PerProcess = 2
  FlushEvery = 1
  MaxPending = 1
  DayWindow = 1
  LastDay = 2
  MaxFaults = 1
  MaxDeaths = 1
  Pool = {a1, a2}
  Askers = {k1, k2}
  Catalog = catalog
  NoList = nolist
  ListLife = 2
  Clock = 3
  MaxSwitches = 2
  Fetches = {f1, f2}
  HealthyTtl = 3
  UnhealthyTtl = 1
  CheckTimeout = 1
  ProxyClock = 9
  LatestRelease = 2
  Fallback = 3
  VersionLife = 1
  Callbacks = {c1, c2}
  Emails = {e1}
  NoEmail = noemail
  LastLogin = 3
  LoginBound = 1
  LoginTtl = 2
INVARIANTS AllTypesOK EveryRecordCountsOnce WindowsAreComplete QuietSwitchesDropTheList AdvertisedIsTheNewestSeen LoginsWorkOnce
PROPERTIES RecordsAreSettled VerdictsAreRecent
CHECK_DEADLOCK FALSE
