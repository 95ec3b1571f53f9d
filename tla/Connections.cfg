SPECIFICATION FairSpec
CONSTANTS
  TS = {t1}
  Rust = {r1, r2}
  MaxFiles = 2
INVARIANT TypeOK
PROPERTIES LateEventsIgnored ConnectSettles ClientsEnd EveryConnectionServed ServerLetsGo
CHECK_DEADLOCK FALSE
