SPECIFICATION FairSpec
CONSTANTS
  Callbacks = {1}
  Contacts = {2}
  Tenants = {t1}
  Campaigns = {c1}
  CampaignOf <- MCCampaignOf
  CallbackMax = 1
  ContactMax = 1
  Attempts = {a1, a2}
  Sources = {s1}
  Threads = {h1, h2}
  EventQueueCap = 1
  MaxEvents = 1
  MaxRestarts = 0
  None = None
PROPERTIES
  RequestsAreAnswered
  LocksAreReleased
CHECK_DEADLOCK FALSE
