SPECIFICATION Spec
CONSTANTS
  Paths <- MCPaths
  Std <- MCStd
  Pinned = {"embed"}
  Name <- MCName
  Words <- MCWords
  Parent <- MCParent
  Versions = {"v2"}
  Context = "context"
  Nats = "nats.go"
  JetStream = "nats.go/jetstream"
  Droppable = {"nats.go", "time"}
  Locals = {"jetstream", "time"}
  Files <- MCFiles
  MaxSteps = 3
INVARIANTS
  TypeOK
  ImportsExact
  GroupsApart
  ImportsFit
PROPERTY
  StaysClean
