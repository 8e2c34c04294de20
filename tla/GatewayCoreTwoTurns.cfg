\* The shortest way to two turns at once on one session.
CONSTANTS
  a = a  b = b  s1 = s1  s2 = s2  claude = claude  codex = codex
  Sessions = {s1}
  Providers = {codex}
  ProviderOf <- OneProvider
  Adapters <- CodexOnly
  AllowTurns = {codex}
  ReportsBusy = {codex}
  Owners = {a, b}
  Requests = {1, 2, 3}
  OwnerOf <- MCOwnerOf
  MaxItems = 0
  NoOwner = NoOwner  NoSession = NoSession  NoRequest = NoRequest
  Gateway = Gateway
SPECIFICATION Spec
INVARIANTS OneTurnPerSession
CHECK_DEADLOCK FALSE
