\* One run of the delivery workflow, and an operator who deploys meanwhile.
CONSTANTS
  c1 = c1  c2 = c2  own = own  foreign = foreign
  Null = Null  None = None
  Own = own
  Foreign = foreign
  Attempts = 3
  Lag = 2
  Commits = {c1, c2}
  Manifest <- CommitManifest
  VerifyAttempts = 2
  SmokeAttempts = 2
  MaxDeployments = 5
SPECIFICATION PipelineSpec
INVARIANTS
  CleanupIsTruthful
  ContractVerdictIsSound
  RecoveryPointPrecedesMigrations
  VerifiedSmokeLeavesNoSession
  SeenSessionsAreEnded
PROPERTIES
  OtherDatabasesStay
  VerifiedDeploymentNeverChanged
  EveryPipelineEnds
CHECK_DEADLOCK FALSE
