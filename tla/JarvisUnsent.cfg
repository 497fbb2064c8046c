SPECIFICATION MCSpec
CONSTANTS
  Requests = {r1, r2}
  Workspaces = {w1, w2}
  Types = {"message_lead", "remind_staff"}
  MaxActions = 2
  MaxSent = 1
  First = w1
  MemoryRows = 2
  NoWs = NoWs
  Tasks = {t1, t2}
  Runs = {r1, r2}
  Hooks = {r1, r2}
  MaxNow = 2
  MaxTold = 2
  MaxOdd = 2
  Contacts = {c1, c2}
  MaxAttempts = 3
  MaxLeads = 4
  Moments = {20, 25, 300, 335}
  Hours = {0, 1, 3, 7, 8, 11, 12, 15, 23, 24}
INVARIANT ExecutedMessageWasSent
