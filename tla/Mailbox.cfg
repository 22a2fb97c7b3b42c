CONSTANTS
  Callers = {k1}
  Filters = {{"worker_done", "escalation"}, {"status", "escalation", "worker_done", "heartbeat"}}
  NoEnter = {TRUE, FALSE}
  Exits = TRUE
  MaxMessages = 2
  MaxTimers = 2
  MaxBreaks = 1
SPECIFICATION FairMailboxSpec
INVARIANTS MailboxTypeOK NoLostWakeup DeliveredWasShown NoHeartbeatAfterDone
PROPERTIES AskTimesOutUnanswered EveryMessageSurfaces
