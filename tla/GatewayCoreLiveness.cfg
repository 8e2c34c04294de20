\* Two requests of two sockets over two providers, one of them read-only.
CONSTANTS
  a = a  b = b  s1 = s1  s2 = s2  claude = claude  codex = codex
  Sessions = {s1, s2}
  Providers = {claude, codex}
  ProviderOf <- TwoProviders
  Adapters <- Both
  AllowTurns = {codex}
  ReportsBusy = {codex}
  Owners = {a, b}
  Requests = {1, 2}
  OwnerOf <- MCOwnerOf
  MaxItems = 1
  NoOwner = NoOwner  NoSession = NoSession  NoRequest = NoRequest
  Gateway = Gateway
SPECIFICATION FairSpec
PROPERTIES RequestsEnd WriterGone
CHECK_DEADLOCK FALSE
