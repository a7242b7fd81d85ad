CONSTANTS
  PAGE_SIZE = 2
  Segments <- MCSegments
  Addresses <- MCAddresses
  MaxFaults = 6
SPECIFICATION FairLoaderSpec
INVARIANTS ImageUnlessBssFirst StatisticsExact
PROPERTIES WritesSurvive InstructionCompletes
