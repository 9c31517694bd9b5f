SPECIFICATION Spec
CONSTANTS
  Forms = {f1, f2}
  Drafts <- MCDrafts
  Wirings <- MCWirings
  MaxSubmits = 3
  MaxEdits = 1
  NoForm = NoForm
  NoTenant = NoTenant
  MaxDepth = 2
  Unreadable = Unreadable
  MaxCauseDepth = 8
  Null = Null
  RequiredGates = {"g1", "g2"}
  SafeActions = {"read"}
  Prose = Prose
  Hidden = Hidden
  Offers <- MCOffers
  Versions = {v1, v2}
  MaxMeddles = 3
  MaxMakes = 1
  NoReason = NoReason
  UuidForm = {"u1", "u2", "nil"}
  NilUuid = "nil"
  ActorForm = {"ann", "bob", "on", "off", "--audit", "--policy"}
  Missing = Missing
  NoArgs = NoArgs
INVARIANTS SavedIsRecorded RetryRepeats DataIsCanonical ValuesAreGenuine ToolsFailClosed LaunchIsExplicit HealthyMeansWhole
PROPERTY SubmitEnds
CHECK_DEADLOCK FALSE
