SPECIFICATION MCSpec
CONSTANTS
  Clocks = {0, 1, 3}
  StartClock = 1
  DayLength = 3
  MaxWire = 1
  MaxMishaps = 1
  Calls = {c1, c2, c3}
  Channels = {ch1, ch2}
  ChannelOf <- MCChannelOf
  Queues = {q1, q2}
  Companies = {t1, t2}
  CompanyOf <- MCCompanyOf
  Operators = {o1}
  OperatorCompany <- MCOperatorCompany
  MaxWaiting = 2
  MaxPerQueue = 1
  MaxCounted = 2
  MaxAge = 1
  MaxStays = 2
  NoId = NoId
  SlaQueues = {q1, q2}
  SlaIds = {k1, k2, NoId}
  NoUniqueid = NoId
  AnyChannel = ch1
  Threshold = 20
  Holds = {20, 21}
  MaxIds = 2
  MaxRows = 3
  MaxOffers = 3
  Agents = {a1, a2}
  AgentQueues = {q1, q2}
  Allowed <- MCAllowed
  Reasons = {lunch, meeting}
  MaxSeats = 2
  Hints <- MCHints
  HintStates = {"idle", "busy"}
  MaxHints = 1
  Statuses = {"away"}
  PresenceThreads = {h1, h2}
  MaxAgentEvents = 3
  MaxPresence = 3
  Legs = {l1, l2}
  Accounts = {t1, t2}
  NoCompany = NoId
  Speakers = {a1, a2}
  SpeakerCompany <- MCSpeakerCompany
  Dispositions = {"ANSWERED", "BUSY", "UNKNOWN"}
  Talks = {60}
  MaxCdrIds = 2
  MaxListed = 2
  MaxRates = 2
  MaxTracked = 2
  MaxTenants = 2
  Rate = 1
  RateWindow = 1
  SpendLimit = 60
  Horizon = 2
  NotifyCompany = t1
  AutoBlock = TRUE
  Scores = {5}
  QualityLimits <- MCQualityLimits
  QualityReports <- MCQualityReports
  QueueCompany <- MCCompanyOf
  MaxRecordEvents = 3
  SupervisedCompanies = {t1, t2}
  WaitLimit = 20
  None = None
  Bad = Bad
  InsightCompanies = {t1, t2}
  AgentCompany <- MCAgentCompany
  QueueOwner <- MCQueueOwner
  DaySeconds = 86400
  MonthDays = 30
  AsOf = 700000
  u1 = t1 u2 = t2
  Audio = {w1, w2}
  Recorded <- MCRecorded
  CallKey <- MCCallKey
  Tag <- MCTag
  NoTag = NoTag
  Evidence <- MCEvidence
  ReviewedRows <- MCReviewedRows
  CompanyOfOwner <- MCSpeakerCompany
  Tokens = {r1, r2}
  Grants <- MCGrants
  Tools = {p1, p2}
  Viewers = {v1}
  Nobody = Nobody
  MaxCredentials = 1
  MaxEntries = 2
  ListLimit = 1
  MaxToolRuns = 3
  w1=w1 w2=w2 r1=r1 r2=r2 p1=p1 p2=p2 v1=v1
  Parts = {"reuse", "limits", "sla", "agents", "presence", "records", "calls", "cockpit", "reports", "access"}
  c1=c1 c2=c2 c3=c3 ch1=ch1 ch2=ch2 q1=q1 q2=q2 t1=t1 t2=t2 o1=o1 a1=a1 a2=a2 h1=h1 h2=h2 k1=k1 k2=k2 l1=l1 l2=l2
INVARIANTS MirrorFollowsQueue CountersBalance HistoryIsTrue BoardFollowsAsterisk PauseTimeIsTrue ReportsAgree PanelsConcur LocalReportsConcur DecisionsStay
PROPERTIES RowsEndWithTheirCall VolumeIsNoticed
CHECK_DEADLOCK FALSE
