SPECIFICATION Spec
CONSTANTS
  None = None
  Odd = Odd
  Opaque = Opaque
  WordMax <- WordMaxDef
  MaxPermits <- MaxPermitsDef
  Envs <- EnvsDef
  Requests <- RequestsDef
  FrameSizes = {1, 2, 3}
  Answers <- AnswersDef
CONSTRAINT Explored
INVARIANTS
  TypeOK
  ToldOnce
  FailedStartHarmless
  ServesSafely
  LimitExact
  WireHeaders
  SecretsStayOut
  RecordCovers
  MetadataKept
