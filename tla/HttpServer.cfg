\* Two connections, two requests.
SPECIFICATION FairSpec
CONSTANTS
  Conns = {k1, k2}
  MaxReq = 2
INVARIANTS TypeOK FreedOnce GuardSuffices ReportedOnce RegistryCurrent
PROPERTIES RequestReported
\* After the server is closed, and all is answered, nothing more happens.
CHECK_DEADLOCK FALSE
