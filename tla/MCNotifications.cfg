SPECIFICATION FairSpec
CONSTANTS
  Situations = {s1}
  Threshold = 1
  MaxCommits = 2
  MaxGaps = 2
  MaxFaults = 1
  MaxOutages = 1
  MaxRejects = 1
INVARIANTS ThreadInOrder NothingTwice
 
