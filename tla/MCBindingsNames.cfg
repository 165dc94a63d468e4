CONSTANTS
  Word = {"wasi", "cli", "environment", "config", "store", "example", "typed-config", "db-config", "type", "app", "CONFIG"}
  Keyword = {"type"}
  Snakes <- MCSnakes
  Camels <- MCCamels
  Letters <- MCLetters
  Version = {1, 2}
  Wits <- MCWits
SPECIFICATION Spec
INVARIANT
  DocumentedConfigBuilds
