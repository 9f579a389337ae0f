\* Two senders, two attempts: two emails, three writes, or a reply and two requests.
SPECIFICATION FairSpecOutboxes
CONSTANTS
  Sender = {sweep, page}
  Traffic <- OneOutbox
  MaxAttempts = 2
  MaxRetries = 1
  MaxRows = 3
  MaxToggles = 1
CHECK_DEADLOCK FALSE
INVARIANT TypeOKOutboxes
INVARIANT MailCopiesAccounted
 
