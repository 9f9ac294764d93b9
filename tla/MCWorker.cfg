CONSTANTS
    j1 = j1
    Jobs = {j1}
    Zero = Zero
    NoJob = NoJob
SPECIFICATION FairSpec
INVARIANTS WorkerTypeOK ResultsTrue LossExplained
PROPERTY EndsOrMute
CHECK_DEADLOCK FALSE
