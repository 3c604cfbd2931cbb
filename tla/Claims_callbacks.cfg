SPECIFICATION Spec
CONSTANTS
  Callbacks = {1, 2}
  Contacts = {}
  Tenants = {t1}
  Campaigns = {c1}
  CampaignOf <- MCCampaignOf
  CallbackMax = 2
  ContactMax = 3
  Attempts = {a1, a2, a3, a4}
  Sources = {s1}
  Threads = {h1, h2}
  EventQueueCap = 2
  MaxEvents = 3
  MaxRestarts = 1
  None = None
SYMMETRY Symmetry
INVARIANTS
  SentClaimsAreCurrent
  ReviewIsAudited
  RequestsAreUnique
CHECK_DEADLOCK FALSE
