\* A client and one web session, two events, pages of one event, one lost poll.
SPECIFICATION SpecForja
CHECK_DEADLOCK FALSE
CONSTANTS
  platform = platform
  Client <- TheClients
  Grants <- TheGrants
  Hooked <- TheClients
  Wants <- TheWants
  Web = {web}
  WebTypes = {"task_created", "approval_decided"}
  Person = {kasper}
  Approval = {ap}
  Nobody = nobody
  Limit = 1
  MaxEvents = 2
  MaxLost = 1
INVARIANT TypeOKForja
 
PROPERTY NoEventIsForgotten
