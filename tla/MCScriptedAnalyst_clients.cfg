\* One worker with any client, three investigations of one indicator; the tool
\* shows two rows, so that the newer investigation may hide the older.
SPECIFICATION ScriptSpec
CONSTANTS
  Inv = {i1, i2, i3}
  Source = {dns}
  Entity = {n1}
  Invented = Invented
  Agent = {a1}
  MaxIterations = 5
  MaxCalls = 1
  MaxErrors = 1
  Client = {"anthropic", "evidence_following", "hallucinating", "refusing", "never_concluding"}
  RowLimit = 2
INVARIANT
  DefaultIsGrounded
PROPERTIES
  EvidenceLeadsToVerdict
  ClientsEnd
