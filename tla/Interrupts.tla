----------------------------- MODULE Interrupts -----------------------------
(***************************************************************************)
(* dash's interrupt core (src/mk/mkdash.c): the INTOFF/INTON/FORCEINTON/   *)
(* SAVEINT/RESTOREINT macros (612-644), onsig()'s SIGINT path (10273-     *)
(* 10288), onint() and exraise() (2137-2156), and the handlers an          *)
(* exception longjmps to: evalfun (2941-2977), evalbltin and evalcommand's *)
(* `raise:` (2911-2938, 2881-2894), redirectsafe (9744-9761) and main's    *)
(* reset (6960-6988).  SIGINT is untrapped here (a trapped SIGINT is only  *)
(* flagged, and Traps models it).                                          *)
(*                                                                         *)
(* The C stack is a sequence of frames, outermost first: handler frames    *)
(* (an evalfun, a `command eval`, a redirectsafe) and, on top, the INTOFF  *)
(* regions being executed: evalfun's entry and funcdone, the region around *)
(* forkshell and waitforjob in evalcommand/evalpipe/evalsubshell, dowait's *)
(* region around wait3, and redirect()'s.  No code evaluates commands      *)
(* inside a region, so regions are only ever on top of handlers.           *)
(***************************************************************************)
EXTENDS Integers, Sequences, FiniteSets

CONSTANTS MaxDepth,   \* handler frames (function and eval nesting)
          MaxSigs     \* SIGINTs the terminal sends

\* exception codes (606-608); NoExc: no longjmp under way
EXINT == 0
EXERROR == 1
EXEXIT == 4
NoExc == -1

Handlers == {"func", "eval", "redir"}
Regions == {"entry", "done", "fork", "dowait", "redirect"}
Frame(k, v) == [kind |-> k, save |-> v]

VARIABLES suppressint,  \* suppressint
          intpending,   \* intpending
          pendingsigs,  \* pendingsigs # 0 (SIGINT is the only signal here)
          stack,        \* the frames of the C stack
          exc,          \* the exception a longjmp is carrying, or NoExc
          child,        \* the foreground child: none, running, exited (unreaped), reaped
          woken,        \* a signal interrupted the wait3() being slept in
          iflag,        \* interactive shell (rootshell && iflag)
          status,       \* run, exited (exitshell), killed (by its own SIGINT)
          sigs,         \* SIGINTs sent so far
          delivered     \* onint() calls so far

vars == <<suppressint, intpending, pendingsigs, stack, exc, child, woken, iflag,
          status, sigs, delivered>>

Top == stack[Len(stack)]
TopKind == IF stack = <<>> THEN "main" ELSE Top.kind
InRegion == TopKind \in Regions
CritRegions == Cardinality({i \in DOMAIN stack : stack[i].kind \in Regions})
HandlerDepth == Len(stack) - CritRegions
Pop == SubSeq(stack, 1, Len(stack) - 1)

(***************************************************************************)
(* The macros and onint() act on the record c of the core's variables, so  *)
(* a step can compose them the way the C code nests them.                  *)
(***************************************************************************)
Core == [supp |-> suppressint, ipend |-> intpending, exc |-> exc, status |-> status, dlv |-> delivered]

SetCore(c) ==
    /\ suppressint' = c.supp
    /\ intpending' = c.ipend
    /\ exc' = c.exc
    /\ status' = c.status
    /\ delivered' = c.dlv

INTOFF(c) == [c EXCEPT !.supp = @ + 1]

\* exraise(): INTOFF; exception = e; longjmp
exraise(c, e) == [INTOFF(c) EXCEPT !.exc = e]

\* onint(): a non-interactive shell kills itself with SIGINT, an
\* interactive one raises EXINT.
onint(c) ==
    LET d == [c EXCEPT !.ipend = FALSE, !.dlv = @ + 1]
    IN  IF iflag THEN exraise(d, EXINT) ELSE [d EXCEPT !.status = "killed"]

\* Mutant: INTON runs a pending interrupt without testing the count.
INTONNoCount(c) ==
    LET d == [c EXCEPT !.supp = @ - 1] IN IF d.ipend THEN onint(d) ELSE d

INTON(c) ==
    LET d == [c EXCEPT !.supp = @ - 1] IN IF d.supp = 0 /\ d.ipend THEN onint(d) ELSE d

\* Mutant: FORCEINTON zeroes the count without running a pending interrupt.
FORCEINTONNoCheck(c) == [c EXCEPT !.supp = 0]

FORCEINTON(c) ==
    LET d == [c EXCEPT !.supp = 0] IN IF d.ipend THEN onint(d) ELSE d

\* Mutant: RESTOREINT restores the count without running a pending interrupt.
RESTOREINTNoCheck(c, v) == [c EXCEPT !.supp = v]

RESTOREINT(c, v) ==
    LET d == [c EXCEPT !.supp = v] IN IF v = 0 /\ d.ipend THEN onint(d) ELSE d

Running == status = "run" /\ exc = NoExc

\* Between two commands: no region on top, not inside redirect().
Between == Running /\ TopKind \notin Regions \cup {"redir"}

Init ==
    /\ suppressint = 0
    /\ intpending = FALSE
    /\ pendingsigs = FALSE
    /\ stack = <<>>
    /\ exc = NoExc
    /\ child = "none"
    /\ woken = FALSE
    /\ iflag \in BOOLEAN
    /\ status = "run"
    /\ sigs = 0
    /\ delivered = 0

(***************************************************************************)
(* Signals.                                                                 *)
(***************************************************************************)
\* onsig(SIGINT) with no trap: gotsig[] and pendingsigs are set; onint()
\* runs at once unless suppressint is nonzero, else intpending is set.  A
\* handler installed without SA_RESTART also interrupts a blocking wait3().
Sigint ==
    /\ status = "run"
    /\ sigs < MaxSigs
    /\ sigs' = sigs + 1
    /\ pendingsigs' = TRUE
    /\ woken' = TRUE
    /\ SetCore(IF suppressint = 0 THEN onint(Core) ELSE [Core EXCEPT !.ipend = TRUE])
    /\ UNCHANGED <<stack, child, iflag>>

\* evaltree's `if (pendingsigs) dotrap()`: dotrap() clears pendingsigs and
\* runs no action for an untrapped SIGINT.
DoTrap ==
    /\ Between
    /\ pendingsigs
    /\ pendingsigs' = FALSE
    /\ UNCHANGED <<suppressint, intpending, stack, exc, child, woken, iflag, status, sigs, delivered>>


\* The INTON at the end of evalfun's entry, of funcdone, of redirect().
LeaveRegion ==
    /\ Running
    /\ TopKind \in {"entry", "done", "redirect"}
    /\ stack' = Pop
    /\ SetCore(INTON(Core))
    /\ UNCHANGED <<pendingsigs, child, woken, iflag, sigs>>

\* evalfun(): setjmp; INTOFF; handler = &jmploc; func->count++; INTON.
FunCall ==
    /\ Between
    /\ HandlerDepth < MaxDepth
    /\ stack' = stack \o <<Frame("func", 0), Frame("entry", 0)>>
    /\ SetCore(INTOFF(Core))
    /\ UNCHANGED <<pendingsigs, child, woken, iflag, sigs>>

\* Mutant: funcdone restores the handler without its INTOFF.
FunReturnNoIntoff ==
    /\ Between
    /\ TopKind = "func"
    /\ stack' = Append(Pop, Frame("done", 0))
    /\ UNCHANGED <<suppressint, intpending, exc, status, delivered, pendingsigs, child, woken, iflag, sigs>>

\* The body ends: funcdone: INTOFF; freefunc; handler = savehandler; INTON.
FunReturn ==
    /\ Between
    /\ TopKind = "func"
    /\ stack' = Append(Pop, Frame("done", 0))
    /\ SetCore(INTOFF(Core))
    /\ UNCHANGED <<pendingsigs, child, woken, iflag, sigs>>

\* `command eval ...`: evalbltin() installs its handler.
EvalEnter ==
    /\ Between
    /\ HandlerDepth < MaxDepth
    /\ stack' = Append(stack, Frame("eval", 0))
    /\ UNCHANGED <<suppressint, intpending, pendingsigs, exc, child, woken, iflag, status, sigs, delivered>>

EvalLeave ==
    /\ Between
    /\ TopKind = "eval"
    /\ stack' = Pop
    /\ UNCHANGED <<suppressint, intpending, pendingsigs, exc, child, woken, iflag, status, sigs, delivered>>

\* redirectsafe(): SAVEINT(saveint); handler = &jmploc; redirect(): INTOFF.
RedirEnter ==
    /\ Between
    /\ HandlerDepth < MaxDepth
    /\ stack' = stack \o <<Frame("redir", suppressint), Frame("redirect", 0)>>
    /\ SetCore(INTOFF(Core))
    /\ UNCHANGED <<pendingsigs, child, woken, iflag, sigs>>

\* openredirect() fails, or its open() of a FIFO returns EINTR: sh_error.
RedirFail ==
    /\ Running
    /\ TopKind = "redirect"
    /\ SetCore(exraise(Core, EXERROR))
    /\ UNCHANGED <<stack, pendingsigs, child, woken, iflag, sigs>>

\* redirect() returned: handler = savehandler; RESTOREINT(saveint).
RedirDone ==
    /\ Running
    /\ TopKind = "redir"
    /\ stack' = Pop
    /\ SetCore(RESTOREINT(Core, Top.save))
    /\ UNCHANGED <<pendingsigs, child, woken, iflag, sigs>>

(***************************************************************************)
(* A foreground child: evalcommand's default case (2864-2868), evalpipe     *)
(* (2633-2669) and evalsubshell (2577-2592) hold INTOFF from makejob()      *)
(* through forkshell() and waitforjob(), whose loop calls dowait(), itself *)
(* an INTOFF region around a blocking wait3() (6463-6514, 6536-6545).      *)
(***************************************************************************)
\* INTOFF; makejob(); forkshell(): fork() succeeds, or fails with sh_error.
ForkEnter ==
    /\ Between
    /\ child = "none"
    /\ stack' = Append(stack, Frame("fork", 0))
    /\ \E ok \in BOOLEAN :
          IF ok THEN child' = "running" /\ SetCore(INTOFF(Core))
          ELSE child' = "none" /\ SetCore(exraise(INTOFF(Core), EXERROR))
    /\ UNCHANGED <<pendingsigs, woken, iflag, sigs>>

\* while (jp->state == JOBRUNNING) dowait(DOWAIT_BLOCK, jp): INTOFF; wait3().
DowaitEnter ==
    /\ Running
    /\ TopKind = "fork"
    /\ child \in {"running", "exited"}
    /\ stack' = Append(stack, Frame("dowait", 0))
    /\ woken' = FALSE
    /\ SetCore(INTOFF(Core))
    /\ UNCHANGED <<pendingsigs, child, iflag, sigs>>

\* wait3() returns the child, or -1 with EINTR; dowait's INTON.
DowaitLeave ==
    /\ Running
    /\ TopKind = "dowait"
    /\ child = "exited" \/ woken
    /\ child' = IF child = "exited" THEN "reaped" ELSE child
    /\ stack' = Pop
    /\ SetCore(INTON(Core))
    /\ UNCHANGED <<pendingsigs, woken, iflag, sigs>>

\* waitforjob() returns once the job is done; the caller's INTON.
ForkLeave ==
    /\ Running
    /\ TopKind = "fork"
    /\ child = "reaped"
    /\ child' = "none"
    /\ stack' = Pop
    /\ SetCore(INTON(Core))
    /\ UNCHANGED <<pendingsigs, woken, iflag, sigs>>

\* The kernel: the child exits.
ChildExit ==
    /\ child = "running"
    /\ child' = "exited"
    /\ UNCHANGED <<suppressint, intpending, pendingsigs, stack, exc, woken, iflag, status, sigs, delivered>>

(***************************************************************************)
(* Errors and the handlers that catch them.                                *)
(***************************************************************************)
\* A builtin's sh_error(), `exit`, or `set -e` (exraise(EXEXIT) at 2453).
Error ==
    /\ Between
    /\ \E e \in {EXERROR, EXEXIT} : SetCore(exraise(Core, e))
    /\ UNCHANGED <<stack, pendingsigs, child, woken, iflag, sigs>>

Unwinding == status = "run" /\ exc # NoExc

\* The longjmp skips the rest of a region, and its INTON; a job whose
\* waitforjob() is skipped is no longer waited for here.
UnwindRegion ==
    /\ Unwinding
    /\ TopKind \in Regions
    /\ stack' = Pop
    /\ child' = IF Top.kind = "fork" THEN "none" ELSE child
    /\ UNCHANGED <<suppressint, intpending, pendingsigs, exc, woken, iflag, status, sigs, delivered>>

\* evalfun's funcdone: INTOFF ... INTON, then evalcommand `goto raise`.
UnwindFunc ==
    /\ Unwinding
    /\ TopKind = "func"
    /\ stack' = Pop
    /\ SetCore(INTON(INTOFF(Core)))
    /\ UNCHANGED <<pendingsigs, child, woken, iflag, sigs>>

\* evalbltin returns the exception; EXINT and EXEXIT go on to `raise:`.
EvalPass ==
    /\ Unwinding
    /\ TopKind = "eval"
    /\ exc \in {EXINT, EXEXIT}
    /\ stack' = Pop
    /\ UNCHANGED <<suppressint, intpending, pendingsigs, exc, child, woken, iflag, status, sigs, delivered>>

\* Mutant: the error of a regular builtin is caught without FORCEINTON.
EvalCatchNoForce ==
    /\ Unwinding
    /\ TopKind = "eval"
    /\ exc = EXERROR
    /\ stack' = Pop
    /\ SetCore([Core EXCEPT !.exc = NoExc])
    /\ UNCHANGED <<pendingsigs, child, woken, iflag, sigs>>

\* The error of a regular builtin: exitstatus = 2; FORCEINTON.
EvalCatch ==
    /\ Unwinding
    /\ TopKind = "eval"
    /\ exc = EXERROR
    /\ stack' = Pop
    /\ SetCore(FORCEINTON([Core EXCEPT !.exc = NoExc]))
    /\ UNCHANGED <<pendingsigs, child, woken, iflag, sigs>>

\* redirectsafe: `if (err && exception != EXERROR) longjmp(handler->loc, 1)`.
RedirPass ==
    /\ Unwinding
    /\ TopKind = "redir"
    /\ exc # EXERROR
    /\ stack' = Pop
    /\ UNCHANGED <<suppressint, intpending, pendingsigs, exc, child, woken, iflag, status, sigs, delivered>>

\* redirectsafe returns 2 after RESTOREINT(saveint).
RedirCatch ==
    /\ Unwinding
    /\ TopKind = "redir"
    /\ exc = EXERROR
    /\ stack' = Pop
    /\ SetCore(RESTOREINT([Core EXCEPT !.exc = NoExc], Top.save))
    /\ UNCHANGED <<pendingsigs, child, woken, iflag, sigs>>

\* main's handler: reset(); EXEXIT or a non-interactive shell exits
\* (exitshell), else FORCEINTON and back to the prompt.
MainHandler ==
    /\ status = "run"
    /\ exc # NoExc
    /\ stack = <<>>
    /\ IF exc = EXEXIT \/ ~iflag
       THEN SetCore([Core EXCEPT !.status = "exited"])
       ELSE SetCore(FORCEINTON([Core EXCEPT !.exc = NoExc]))
    /\ UNCHANGED <<stack, pendingsigs, child, woken, iflag, sigs>>

\* cmdloop() reads end of file: exitshell().
Eof ==
    /\ Running
    /\ stack = <<>>
    /\ status' = "exited"
    /\ UNCHANGED <<suppressint, intpending, pendingsigs, stack, exc, child, woken, iflag, sigs, delivered>>

\* The shell has exited or was killed.
Terminated ==
    /\ status # "run"
    /\ UNCHANGED vars

Unwind == UnwindRegion \/ UnwindFunc \/ EvalPass \/ EvalCatch \/ RedirPass \/ RedirCatch

Next ==
    \/ Sigint \/ DoTrap \/ Error \/ Eof \/ Terminated
    \/ FunCall \/ FunReturn \/ EvalEnter \/ EvalLeave
    \/ RedirEnter \/ RedirFail \/ RedirDone \/ LeaveRegion
    \/ ForkEnter \/ DowaitEnter \/ DowaitLeave \/ ForkLeave \/ ChildExit
    \/ Unwind \/ MainHandler

\* Fair: straight-line code (region ends, waitforjob's loop, unwinding) and
\* children, which are assumed to end.  The script's own steps, the user's
\* signals and errors get no fairness.
Fairness ==
    /\ WF_vars(LeaveRegion)
    /\ WF_vars(RedirDone)
    /\ WF_vars(DowaitEnter)
    /\ WF_vars(DowaitLeave)
    /\ WF_vars(ForkLeave)
    /\ WF_vars(ChildExit)
    /\ WF_vars(Unwind)
    /\ WF_vars(MainHandler)

Spec == Init /\ [][Next]_vars /\ Fairness

-----------------------------------------------------------------------------
TypeOK ==
    /\ suppressint \in Nat
    /\ intpending \in BOOLEAN
    /\ pendingsigs \in BOOLEAN
    /\ stack \in Seq([kind : Handlers \cup Regions, save : Nat])
    /\ exc \in {NoExc, EXINT, EXERROR, EXEXIT}
    /\ child \in {"none", "running", "exited", "reaped"}
    /\ woken \in BOOLEAN
    /\ iflag \in BOOLEAN
    /\ status \in {"run", "exited", "killed"}
    /\ sigs \in 0..MaxSigs
    /\ delivered \in 0..sigs

(***************************************************************************)
(* suppressint counts the INTOFF regions the shell is in: between longjmps *)
(* it equals the regions on the stack, across nested regions, funcdone,   *)
(* RESTOREINT and FORCEINTON in the handlers; while a longjmp is under    *)
(* way the INTOFF of exraise() keeps it above them.                        *)
(***************************************************************************)
SuppressintCountsRegions ==
    status = "run" =>
        IF exc = NoExc THEN suppressint = CritRegions ELSE suppressint > CritRegions

(***************************************************************************)
(* A SIGINT is left pending only while it must be: the shell is inside an *)
(* INTOFF region or carrying an exception.  Every path that lifts the      *)
(* deferral (INTON to zero, FORCEINTON, RESTOREINT) runs onint().          *)
(***************************************************************************)
PendingOnlyWhileMasked ==
    status = "run" /\ intpending => CritRegions > 0 \/ exc # NoExc

(***************************************************************************)
(* onint() never runs inside an INTOFF region: a SIGINT that arrives in    *)
(* one (a job table update, waitforjob, redirect()) is acted on only once  *)
(* the outermost region has ended.                                         *)
(***************************************************************************)
NoInterruptInRegion == [][delivered' # delivered => CritRegions' = 0]_vars

(***************************************************************************)
(* A deferred SIGINT is eventually acted on, or the shell has ended.       *)
(***************************************************************************)
InterruptDelivered == intpending ~> (~intpending \/ status # "run")

====
