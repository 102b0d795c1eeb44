\* No attempt with credentials, but up to three QR codes: sessions over two sign
\* outs or renewed codes, from a logon at startup or by QR code, with reports of
\* the connection at any time.  The session may rest: no deadlock check.
SPECIFICATION Spec
CONSTANTS
  MaxAttempts = 0
  MaxQR = 3
  MaxReports = 2
  MaxConns = 1
  Faults = {"beginQR", "noConnection"}
INVARIANT OneMainWindow
CHECK_DEADLOCK FALSE
