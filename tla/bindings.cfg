SPECIFICATION MCSpec
CONSTANTS
  \* Nmr
  Clients = {c1}
  Providers = {p1}
  PendingSets = {{"client"}, {"provider"}}
  \* NetEbpfExtHook
  HookClients = {h1, h2, h3}
  BindClients = {h2, h3}
  Parameter <- AllWild
  Wildcard = "wildcard"
  Filters = {f1}
  Classifiers = {t1, t2}
  Flows = {1, 2}
  CountModulus = 8
INVARIANTS
  NmrInv HookInv
PROPERTIES
  RegistrarSpec LeavingEnds
\* A registrar and a hook whose clients have left are at rest.
CHECK_DEADLOCK FALSE
