SPECIFICATION FairSpec
PROPERTIES
    
    ReadyTasksRun
    AttemptsEnd
CHECK_DEADLOCK FALSE
