SPECIFICATION FairSpec
CONSTANTS
    Processes = {p1, p2}
    InitArgs = {"none", "plain", "query", "unusable"}
    ConfigArgs = {"none", "good", "config", "material"}
    MaxStarts = 2
    MaxFaults = 2
INVARIANTS SetupMeansWhole HubBeforeJobs
PROPERTIES StartsOrEnds SettingUpAgainWorks
CHECK_DEADLOCK FALSE
