\* Every bounded call of every primitive, one state each.
SPECIFICATION Spec
CONSTANTS
  Limb = 16
  FOLD = 5
  Lefts <- Lefts_
  Rights <- Rights_
  Seals <- Seals_
  Builds <- Builds_
  Sends <- Sends_
  BLOCK = 4
  DIGEST = 2
  Secrets <- Secrets_
  PresharedKeys <- PresharedKeys_
  Initiators <- Initiators_
  Responders <- Responders_
  DerivationKeys <- DerivationKeys_
  DerivationInputs <- DerivationInputs_
INVARIANTS
  TagCorrect FieldOps Canonical InvertChain LadderCorrect SecretsAgree LowOrderRefused
  BackendsAgree DigestOfMessage KdfSeparates SealedOpens TamperedRefused
  BuiltParses PacketSurvives KeysAgree
