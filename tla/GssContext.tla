------------------------------ MODULE GssContext ------------------------------
(***************************************************************************)
(* The GSSAPI contexts of the Python Kerberos bindings (src/pykerb/        *)
(* kerberos.c and kerberosgss.c): what the pointers a Python program       *)
(* relies on point to, across any sequence of calls it makes.              *)
(*                                                                         *)
(* A Python handle h holds a capsule around a malloc'd client or server    *)
(* state struct.  Every call is one action: the wrapper in kerberos.c      *)
(* together with the authenticate_gss_* function it calls.  The GSS        *)
(* library is the environment: each of its calls succeeds, asks to        *)
(* continue or fails, and hands out new objects.                           *)
(*                                                                         *)
(* A pointer is "null", "live" (to an allocated object) or "freed" (to an  *)
(* object released since).  Objects nothing points to any more (leaks) are *)
(* not represented.                                                        *)
(***************************************************************************)
EXTENDS Naturals, FiniteSets, TLC

CONSTANTS
  Clients,      \* Python handles holding a client context
  Servers,      \* Python handles holding a server context
  WrapCalls,    \* does the program call authGSSClientWrap?
  CleanCalls    \* does the program call authGSS*Clean?

ASSUME /\ Clients \cap Servers = {}
       /\ WrapCalls \in BOOLEAN /\ CleanCalls \in BOOLEAN

Handles == Clients \cup Servers
Ptr == {"null", "live", "freed"}

\* the pointer fields of gss_client_state and gss_server_state ("cred" is
\* cred of a client and server_creds of a server); a client uses sname,
\* ctx, cred, user and resp
Fields == {"sname", "ctx", "cred", "cname", "ccred", "user", "target", "resp"}
NoState == [f \in Fields |-> "null"]

\* the calls that may store a response, and "none"
Ops == {"step", "unwrap", "wrap", "sessionkey", "sstep", "none"}

VARIABLES
  cap,      \* cap[h]: "null" while h holds no capsule, else its pointer
  st,       \* st[h][f]: field f of the struct in h's capsule
  rfrom,    \* rfrom[h]: the call that stored h's current response
  lastop,   \* lastop[h]: the last call made on h's context
  pyfreed   \* has the C code freed the buffer of a Python object?

vars == <<cap, st, rfrom, lastop, pyfreed>>

TypeOK ==
  /\ cap \in [Handles -> Ptr]
  /\ st \in [Handles -> [Fields -> Ptr]]
  /\ rfrom \in [Handles -> Ops]
  /\ lastop \in [Handles -> Ops]
  /\ pyfreed \in BOOLEAN

Init ==
  /\ cap = [h \in Handles |-> "null"]
  /\ st = [h \in Handles |-> NoState]
  /\ rfrom = [h \in Handles |-> "none"]
  /\ lastop = [h \in Handles |-> "none"]
  /\ pyfreed = FALSE

-----------------------------------------------------------------------------
\* The program calls through a capsule it got from a successful Init and
\* has not cleaned.
InUse(h) == cap[h] = "live"

\* mutant: the call's fields replace the whole struct
StoreRaw(h, new) == st' = [st EXCEPT ![h] = new]

\* a call sets the fields in `new` and leaves the others alone; each call
\* names the response it leaves, having released the old one first
\* ("Always clear out the old response")
Store(h, new) ==
  st' = [st EXCEPT ![h] =
           [f \in Fields |-> IF f \in DOMAIN new THEN new[f] ELSE st[h][f]]]

\* record the call op on h, and whether it stored a new response
Called(h, op, stored) ==
  /\ lastop' = [lastop EXCEPT ![h] = op]
  /\ rfrom' = IF stored THEN [rfrom EXCEPT ![h] = op] ELSE rfrom

\* "live" if b, else the field's current value
LiveIf(b, h, f) == IF b THEN "live" ELSE st[h][f]

-----------------------------------------------------------------------------
(* authGSSClientInit + authenticate_gss_client_init.  The mechanism        *)
(* decides which GSS objects are acquired before success or the first      *)
(* failure: InitPaths(m) are pairs <<returns ok, objects acquired>>, the   *)
(* objects being server_name then cred.  The NTLM paths cover a user,      *)
(* a user with password and domain, and no user (`user` is read            *)
(* uninitialised when the keyword is absent).  The temporary target_name   *)
(* and client_name are released at `end:`.  On failure the wrapper returns *)
(* NULL: the struct and what it acquired leak, h keeps its old capsule.    *)
Mechs == {"default", "kerberos", "ntlm", "bad"}
InitPaths(m) ==
  CASE m = "default"  -> {<<TRUE, 1>>, <<FALSE, 0>>}
    [] m = "kerberos" -> {<<TRUE, 2>>, <<FALSE, 0>>, <<FALSE, 1>>}
    [] m = "ntlm"     -> {<<TRUE, 1>>, <<TRUE, 2>>, <<FALSE, 0>>,
                          <<FALSE, 1>>, <<FALSE, 2>>}
    [] m = "bad"      -> {<<FALSE, 0>>}

\* an Init wrapper that took path p: a successful one replaces h's capsule
\* by one around a new struct holding the first p[2] of server_name, cred
InitCall(h, p) ==
  /\ cap' = IF p[1] THEN [cap EXCEPT ![h] = "live"] ELSE cap
  /\ st' = IF p[1]
           THEN [st EXCEPT ![h] =
                   [NoState EXCEPT !["sname"] = IF p[2] >= 1 THEN "live" ELSE "null",
                                   !["cred"]  = IF p[2] >= 2 THEN "live" ELSE "null"]]
           ELSE st

ClientInit(h) ==
  /\ h \in Clients
  /\ \E m \in Mechs : \E p \in InitPaths(m) : InitCall(h, p)
  /\ UNCHANGED <<rfrom, lastop, pyfreed>>

(* authGSS*Clean + authenticate_gss_*_clean: release every object the     *)
(* struct points to, free the struct, then PyCapsule_SetPointer(pystate,  *)
(* NULL), which CPython refuses for a NULL pointer: the capsule keeps     *)
(* pointing at the freed struct (and the call raises SystemError).        *)
CleanCall(h) ==
  /\ CleanCalls
  /\ InUse(h)
  /\ cap' = [cap EXCEPT ![h] = "freed"]
  /\ UNCHANGED <<st, rfrom, lastop, pyfreed>>

ClientClean(h) == h \in Clients /\ CleanCall(h)

-----------------------------------------------------------------------------
(* The calls on a client context.  `out` is whether the GSS call returned *)
(* a non-empty output token, which the code keeps as the response.        *)

(* authGSSClientStep + authenticate_gss_client_step.  gss_init_sec_context *)
(* creates the context on its first success.  On COMPLETE, inquire_context *)
(* and display_name may still fail (inqfail, dispfail: the call raises but *)
(* keeps the response); on success the user name is malloc'd into          *)
(* state->username, over any earlier one.                                  *)
StepResults == {"error", "continue", "complete", "inqfail", "dispfail"}

ClientStep(h) ==
  /\ h \in Clients
  /\ InUse(h)
  /\ \E r \in StepResults, out \in BOOLEAN :
       LET ok == r # "error"
       IN /\ Store(h, [ctx  |-> LiveIf(ok, h, "ctx"),
                       resp |-> IF ok /\ out THEN "live" ELSE "null",
                          user |-> LiveIf(r = "complete", h, "user")])
          /\ Called(h, "step", ok /\ out)
  /\ UNCHANGED <<cap, pyfreed>>

(* authGSSClientUnwrap + authenticate_gss_client_unwrap: gss_unwrap's      *)
(* output token becomes the response.                                      *)
\* mutant: the old response is not cleared first
ClientUnwrapKeepResp(h) ==
  /\ h \in Clients
  /\ InUse(h)
  /\ \E ok, out \in BOOLEAN :
       /\ Store(h, [resp |-> IF ok /\ out THEN "live" ELSE st[h]["resp"]])
       /\ Called(h, "unwrap", ok /\ out)
  /\ UNCHANGED <<cap, pyfreed>>

ClientUnwrap(h) ==
  /\ h \in Clients
  /\ InUse(h)
  /\ \E ok, out \in BOOLEAN :
       /\ Store(h, [resp |-> IF ok /\ out THEN "live" ELSE "null"])
       /\ Called(h, "unwrap", ok /\ out)
  /\ UNCHANGED <<cap, pyfreed>>

(* authGSSClientWrap + authenticate_gss_client_wrap.  The challenge is the *)
(* buffer of the Python bytes object ("s#").  With a user, the code writes *)
(* into it and free()s it.  gss_wrap's output token is stored as the       *)
(* response, but output_token is not emptied, so `end:` releases the very  *)
(* buffer the response points to.                                          *)
ClientWrap(h) ==
  /\ h \in Clients
  /\ WrapCalls
  /\ InUse(h)
  /\ \E user, ok, out \in BOOLEAN :
       /\ Store(h, [resp |-> IF ok /\ out THEN "freed" ELSE "null"])
       /\ pyfreed' = (pyfreed \/ user)
       /\ Called(h, "wrap", ok /\ out)
  /\ UNCHANGED cap

(* authGSSClientSessionKey + inquire_gss_client_session_key: element 0 of *)
(* the buffer set is moved into the response and the set released; an    *)
(* empty key is an error like a failed inquiry.                           *)
ClientSessionKey(h) ==
  /\ h \in Clients
  /\ InUse(h)
  /\ \E r \in {"error", "empty", "ok"} :
       /\ Store(h, [resp |-> IF r = "ok" THEN "live" ELSE "null"])
       /\ Called(h, "sessionkey", r = "ok")
  /\ UNCHANGED <<cap, pyfreed>>

-----------------------------------------------------------------------------
(* authGSSServerInit + authenticate_gss_server_init: with an empty service *)
(* nothing is acquired, otherwise server_name then server_creds.           *)
ServerInitPaths == {<<TRUE, 0>>, <<TRUE, 2>>, <<FALSE, 0>>, <<FALSE, 1>>}

ServerInit(h) ==
  /\ h \in Servers
  /\ \E p \in ServerInitPaths : InitCall(h, p)
  /\ UNCHANGED <<rfrom, lastop, pyfreed>>

ServerClean(h) == h \in Servers /\ CleanCall(h)

(* authGSSServerStep + authenticate_gss_server_step.  No challenge is an   *)
(* error before any GSS call, with the effect of a failed                  *)
(* gss_accept_sec_context ("error").  On COMPLETE the accept stores        *)
(* client_name and, if the client delegated, client_creds (over earlier    *)
(* ones); display_name(client_name) may fail ("dispfail"), else the user   *)
(* name is malloc'd.  Without server credentials the code then inquires    *)
(* and displays the target name: "notarget" is an inquiry or display that  *)
(* fails, or no target name, which leave the same pointers; "complete"     *)
(* then mallocs targetname.                                                *)
ServerResults == {"error", "continue", "complete", "dispfail", "notarget"}

ServerStep(h) ==
  /\ h \in Servers
  /\ InUse(h)
  /\ \E r \in ServerResults, out, deleg \in BOOLEAN :
       LET ok    == r # "error"
           est   == ok /\ r # "continue"
           named == est /\ r # "dispfail"
       IN /\ r = "notarget" => st[h]["cred"] = "null"
          /\ Store(h, [ctx    |-> LiveIf(ok, h, "ctx"),
                       cname  |-> LiveIf(est, h, "cname"),
                       ccred  |-> LiveIf(est /\ deleg, h, "ccred"),
                       resp   |-> IF ok /\ out THEN "live" ELSE "null",
                       user   |-> LiveIf(named, h, "user"),
                       target |-> LiveIf(r = "complete" /\ st[h]["cred"] = "null",
                                         h, "target")])
          /\ Called(h, "sstep", ok /\ out)
  /\ UNCHANGED <<cap, pyfreed>>

-----------------------------------------------------------------------------
\* The Python program makes any call on any of its handles, or stops.
Next ==
  \E h \in Handles :
    \/ ClientInit(h)
    \/ ClientStep(h)
    \/ ClientUnwrap(h)
    \/ ClientWrap(h)
    \/ ClientSessionKey(h)
    \/ ClientClean(h)
    \/ ServerInit(h)
    \/ ServerStep(h)
    \/ ServerClean(h)

Spec == Init /\ [][Next]_vars

-----------------------------------------------------------------------------
(* The token a program reads with authGSS*Response is the output of the   *)
(* last call it made on that context: no call that fails or produces no   *)
(* token leaves an earlier call's token behind for the program to send.   *)
ResponseFromLastCall ==
  \A h \in Handles : InUse(h) /\ st[h]["resp"] # "null" => rfrom[h] = lastop[h]

(* Memory safety towards Python: no capsule the program holds points to a *)
(* freed struct, no pointer of a struct in use dangles, and the C code has *)
(* freed no buffer of a Python object.                                    *)
NoDanglingPointer ==
  /\ \A h \in Handles : cap[h] # "freed"
  /\ \A h \in Handles : InUse(h) => \A f \in Fields : st[h][f] # "freed"
  /\ ~pyfreed
====
