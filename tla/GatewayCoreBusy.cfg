\* A snapshot that saw the provider busy, and a turn granted after it.
CONSTANTS
  a = a  b = b  s1 = s1  s2 = s2  claude = claude  codex = codex
  Sessions = {s1}
  Providers = {codex}
  ProviderOf <- OneProvider
  Adapters <- CodexOnly
  AllowTurns = {codex}
  ReportsBusy = {codex}
  Owners = {a, b}
  Requests = {1, 2, 3}
  OwnerOf <- MCOwnerOf
  MaxItems = 0
  NoOwner = NoOwner  NoSession = NoSession  NoRequest = NoRequest
  Gateway = Gateway
SPECIFICATION Spec
PROPERTIES BusyIsViewOnly
CHECK_DEADLOCK FALSE
