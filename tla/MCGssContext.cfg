\* calls, including Wrap and Clean; the GSS library answers arbitrarily.
CONSTANTS
  c1 = c1
  s1 = s1
  Clients <- MCClients
  Servers <- MCServers
  WrapCalls = TRUE
  CleanCalls = TRUE
SPECIFICATION Spec
\* the program may stop calling at any point
CHECK_DEADLOCK FALSE
INVARIANT ResponseFromLastCall
