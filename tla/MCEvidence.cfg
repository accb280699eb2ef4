CONSTANTS
  v1 = v1
  v2 = v2
  v3 = v3
  v4 = v4
  r1 = r1
  r2 = r2
  r3 = r3
  d1 = d1
  t1 = t1
  t2 = t2
  Voters = {v1, v2, v3, v4}
  Subjects = {"f", "c"}
  Chosen <- MCChosen
  Passes <- MCPasses
  Policy <- MCPolicy
  Ballots <- MCBallots
  NoReport = NoReport
  Validators = {r1, r2, r3}
  Drafters = {d1}
  Findings = {"f"}
  Severe = {}
  Patches = {"p", "q"}
  Texts = {t1, t2}
  Touches <- MCTouches
  Inside = {"src", "test", "git"}
  Metadata = {"git"}
  Applicable = {t1, t2}
  MaxPaths = 2
  Asked <- MCAsked
  Everything = "all"
  Drafts <- MCDrafts
  Given <- MCGiven
  NoPatch = NoPatch
  NoDir = NoDir
  MaxDeaths = 1
  Chains = {"c"}
  Materials <- MCMaterials
  NoGraph = NoGraph
SPECIFICATION MCSpec
INVARIANTS
  EvidenceIsAccepted
  ValidatedIsEarned
CHECK_DEADLOCK FALSE
