CONSTANTS
  MaxLate = 1
  Watchdog = 1
SPECIFICATION FairSpec
PROPERTY FeedbackResumes
