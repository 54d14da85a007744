SPECIFICATION MCSpec
CONSTANTS
    SCKeys <- MCKeys
    SCIntMax = 4
    SCIntMin <- MCIntMin
    SCTop = 50
    SCBottom <- MCBottom
    SCFiles <- Confs
    SCVdbs <- NewVdbs
    SCTables <- NewTables
    SCSingles <- NewSingles
    SCSteps = 3
    SRInputs <- MCStatements
    RMShards <- MCShards
    RMInputs <- MCMerges
    AGShards <- MCShards
    AGInputs <- MCAggregates
    SNSize = 6
    WMixes <- MCStreams
    SAMixes <- MCSessions
    SAGroups <- MCGroups
    SADefault = ""
CHECK_DEADLOCK FALSE
INVARIANTS SelectRight WriteRight    
  
