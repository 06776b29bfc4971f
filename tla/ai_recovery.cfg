SPECIFICATION FairSpec
CONSTANTS
  Task = {t1, t2}
  MaxAudit = 2
  MaxRequest = 2
  MaxEvents = 3
INVARIANTS TypeOK NoStrayIndexEntry OneWinner AnswerWrittenOnce
PROPERTY RecoveryEnds
CHECK_DEADLOCK FALSE
