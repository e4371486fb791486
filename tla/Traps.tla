-------------------------------- MODULE Traps --------------------------------
(***************************************************************************)
(* Trapped signals in the shell (src/mk/mkdash.c, the trap.c part): the    *)
(* `trap` builtin, the signal handler onsig(), and dotrap(), which         *)
(* evaltree() calls at the end of every command when `pendingsigs` is set. *)
(*                                                                         *)
(* The shell is one sequential process; signals are the environment and    *)
(* may be delivered between any two of its steps.  onsig() only records a  *)
(* signal (gotsig[] and pendingsigs); the trap action runs later, from     *)
(* dotrap().  A trap action is itself a command, so its evaltree() ends    *)
(* with the same check and dotrap() can be re-entered: `frames` is the     *)
(* stack of active dotrap() calls.                                         *)
(*                                                                         *)
(* The script is abstracted to the commands whose effect matters here:     *)
(* ordinary commands, `break`, `trap`, entering and leaving a loop, end of *)
(* input, a special builtin that fails, and redirections: a command with  *)
(* redirections, `exec` with only redirections and a compound command     *)
(* with redirections, `{ ...; } >f`, whose body runs over several steps.  *)
(* A trap action is abstracted to the builtin it runs: "cmd" (an ordinary *)
(* command), "brk" (break), "ret" (return) or "err" (a special builtin    *)
(* that fails, or a syntax error in the action).                           *)
(*                                                                         *)
(* An error raised by sh_error() (exraise(EXERROR)) longjmp()s out of      *)
(* every evaltree() and dotrap() call to main()'s handler, which calls     *)
(* reset() and goes back to cmdloop() in an interactive shell and to       *)
(* exitshell() otherwise.  `scopes` stands for the C stack of compound     *)
(* commands the evaluator is inside, which the longjmp() discards.         *)
(***************************************************************************)
EXTENDS Integers, Sequences, FiniteSets, Redir

CONSTANTS
  NSig,         \* signals are 1..NSig; trap[0] is the EXIT trap
  Actions,      \* trap actions scripts may install, a subset of {"cmd","brk","ret","err"}
  ExitCodes,    \* exit statuses an ordinary command may have
  BreakCmd,     \* does the script use `break`?
  MaxLoopNest,  \* bound: nesting depth of loops in the script
  MaxSignals,   \* bound: number of signals delivered in a behaviour
  RedirLists,   \* redirection lists (sequences of Redirection) of commands and exec
  BlockLists,   \* redirection lists of `{ ...; } >f` blocks
  MaxRedirNest, \* bound: nesting depth of `{ ...; } >f` blocks
  Interactive   \* iflag: an error goes back to the prompt, not to exitshell()

ASSUME /\ NSig \in Nat \ {0}
       /\ Actions \subseteq {"cmd", "brk", "ret", "err"}
       /\ ExitCodes \subseteq 0..255 /\ 0 \in ExitCodes
       /\ BreakCmd \in BOOLEAN
       /\ MaxLoopNest \in Nat /\ MaxSignals \in Nat
       /\ RedirLists \cup BlockLists \subseteq Seq(Redirection)
       /\ MaxRedirNest \in Nat /\ Interactive \in BOOLEAN

VARIABLES
  trap,         \* trap[signo]: "unset" (NULL), "" (ignored) or an action
  trapcnt,      \* number of non-empty traps, what have_traps() returns
  gotsig,       \* gotsig[signo - 1] of the code: signal seen, trap not yet run
  pendingsigs,  \* last signal seen since dotrap() began, 0 if none
  evalskip,     \* 0, SKIPBREAK or SKIPFUNC: what break/return asked to skip
  loopnest,     \* loops the evaluator is inside
  exitstatus,   \* $?
  frames,       \* active dotrap() calls, innermost last
  pc,           \* where the evaluator is (after the dotrap() calls in frames)
  sent,         \* signals delivered so far (bounded by MaxSignals)
  scopes        \* compound commands being evaluated: "loop" or "block"

rvars == <<fdtab, redirlist, scopes>>
vars == <<trap, trapcnt, gotsig, pendingsigs, evalskip, loopnest, exitstatus,
          frames, pc, sent, rvars>>

Sigs == 1..NSig
SKIPBREAK == 1
SKIPFUNC == 4
\* the status sh_error() and a failed redirection leave in exitstatus
ErrStatus == 2
Statuses == ExitCodes \cup {ErrStatus}
Unset == "unset"
TrapValues == {Unset, ""} \cup Actions
\* one dotrap() call: the index it has reached in gotsig[], its savestatus,
\* and whether it is scanning, at the end of a trap action's evaltree(), or
\* about to restore exitstatus after it
Frame == [i : 1..NSig + 1, save : Statuses, phase : {"scan", "out", "post"}]

TypeOK ==
  /\ trap \in [0..NSig -> TrapValues]
  /\ trapcnt \in 0..NSig + 1
  /\ gotsig \in [Sigs -> BOOLEAN]
  /\ pendingsigs \in {0} \cup Sigs
  /\ evalskip \in {0, SKIPBREAK, SKIPFUNC}
  /\ loopnest \in 0..MaxLoopNest
  /\ exitstatus \in Statuses
  /\ frames \in Seq(Frame)
  /\ pc \in {"cmd", "out", "exit", "exitout", "done"}
  /\ sent \in 0..MaxSignals
  /\ scopes \in Seq({"loop", "block"})
  /\ RedirTypeOK

\* setsignal(): a signal is caught (handled by onsig) when its trap is a
\* non-empty string, ignored when it is "", default when unset.
Caught(s) == trap[s] \in Actions

Init ==
  /\ trap = [s \in 0..NSig |-> Unset]
  /\ trapcnt = 0
  /\ gotsig = [s \in Sigs |-> FALSE]
  /\ pendingsigs = 0
  /\ evalskip = 0
  /\ loopnest = 0
  /\ exitstatus = 0
  /\ frames = <<>>
  /\ pc = "cmd"
  /\ sent = 0
  /\ scopes = <<>>
  /\ RedirInit

Terminated == pc = "done" /\ frames = <<>>

-----------------------------------------------------------------------------
(* The signal handler.                                                     *)

\* onsig(): a caught signal sets its flag and pendingsigs.  The handler runs
\* between any two steps of the shell (it is installed with every signal
\* blocked, so it is not itself interrupted).
Onsig(s) ==
  /\ ~Terminated
  /\ sent < MaxSignals
  /\ Caught(s)
  /\ gotsig' = [gotsig EXCEPT ![s] = TRUE]
  /\ pendingsigs' = s
  /\ sent' = sent + 1
  /\ UNCHANGED <<trap, trapcnt, evalskip, loopnest, exitstatus, frames, pc, rvars>>

-----------------------------------------------------------------------------
(* Commands of the script, run by evaltree() when nothing is being skipped. *)

Running == pc = "cmd" /\ frames = <<>> /\ evalskip = 0

NonEmpty(t) == t \notin {Unset, ""}

\* trapcmd() for one signal: "-" resets the trap, any other string installs
\* it; trapcnt counts the traps whose string is non-empty.
\* mutant: "" counted as a trap when it is installed
TrapcntAfterCountsEmpty(old, new) ==
  trapcnt + (IF new # Unset THEN 1 ELSE 0) - (IF NonEmpty(old) THEN 1 ELSE 0)

\* mutant: the old trap is uncounted without looking at its string
TrapcntAfterNoEmptyCheck(old, new) ==
  trapcnt + (IF NonEmpty(new) THEN 1 ELSE 0) - (IF old # Unset THEN 1 ELSE 0)

TrapcntAfter(old, new) ==
  trapcnt + (IF NonEmpty(new) THEN 1 ELSE 0) - (IF NonEmpty(old) THEN 1 ELSE 0)

Trapcmd(s, a) ==
  LET new == IF a = "-" THEN Unset ELSE a
  IN /\ Running
     /\ trap' = [trap EXCEPT ![s] = new]
     /\ trapcnt' = TrapcntAfter(trap[s], new)
     /\ exitstatus' = 0
     /\ pc' = "out"
     /\ UNCHANGED <<gotsig, pendingsigs, evalskip, loopnest, frames, sent, rvars>>

\* an ordinary command
SimpleCmd(e) ==
  /\ Running
  /\ exitstatus' = e
  /\ pc' = "out"
  /\ UNCHANGED <<trap, trapcnt, gotsig, pendingsigs, evalskip, loopnest, frames, sent, rvars>>

\* breakcmd(): `break` with n clipped to loopnest; outside a loop it does
\* nothing.  The same builtin is what a "brk" trap action runs.
BreakSkip(skip) == IF loopnest > 0 THEN SKIPBREAK ELSE skip

Breakcmd ==
  /\ BreakCmd
  /\ Running
  /\ evalskip' = BreakSkip(evalskip)
  /\ exitstatus' = 0
  /\ pc' = "out"
  /\ UNCHANGED <<trap, trapcnt, gotsig, pendingsigs, loopnest, frames, sent, rvars>>

\* evalloop(): entering a while loop
LoopEnter ==
  /\ Running
  /\ loopnest < MaxLoopNest
  /\ loopnest' = loopnest + 1
  /\ scopes' = Append(scopes, "loop")
  /\ UNCHANGED <<trap, trapcnt, gotsig, pendingsigs, evalskip, exitstatus, frames, pc, sent, fdtab, redirlist>>

\* evalloop(): the condition fails and the loop ends; the loop node's own
\* evaltree() then reaches its end
Innermost == scopes[Len(scopes)]
Outer == SubSeq(scopes, 1, Len(scopes) - 1)

LoopExit ==
  /\ Running
  /\ scopes # <<>>
  /\ Innermost = "loop"
  /\ loopnest' = loopnest - 1
  /\ scopes' = Outer
  /\ pc' = "out"
  /\ UNCHANGED <<trap, trapcnt, gotsig, pendingsigs, evalskip, exitstatus, frames, sent, fdtab, redirlist>>

\* cmdloop(): end of input outside any loop; main() calls exitshell()
Eof ==
  /\ Running
  /\ scopes = <<>>
  /\ pc' = "exit"
  /\ UNCHANGED <<trap, trapcnt, gotsig, pendingsigs, evalskip, loopnest, exitstatus, frames, sent, rvars>>

\* evalskip set: evalloop() leaves the loop, consuming a BREAK (skipcount is
\* 1); a FUNC skip leaves every loop; at top level cmdloop() clears SKIPFUNC
\* and stops reading input.  (A block inside the loop ends first, with
\* BlockExit.)
Unwind ==
  /\ pc = "cmd"
  /\ frames = <<>>
  /\ evalskip # 0
  /\ IF scopes # <<>>
       THEN /\ Innermost = "loop"
            /\ loopnest' = loopnest - 1
            /\ scopes' = Outer
            /\ evalskip' = IF evalskip = SKIPBREAK THEN 0 ELSE evalskip
            /\ pc' = "out"
       ELSE /\ evalskip' = IF evalskip = SKIPFUNC THEN 0 ELSE evalskip
            /\ pc' = "exit"
            /\ UNCHANGED <<loopnest, scopes>>
  /\ UNCHANGED <<trap, trapcnt, gotsig, pendingsigs, exitstatus, frames, sent, fdtab, redirlist>>

-----------------------------------------------------------------------------
(* Errors and redirections.                                                *)

\* mutant: reset() without unwindredir(0)
RaiseNoUnwind(t, stack) ==
  /\ exitstatus' = ErrStatus
  /\ frames' = <<>>
  /\ IF pc \in {"exitout", "done"}
       THEN /\ pc' = "done"
            /\ fdtab' = t
            /\ redirlist' = stack
            /\ UNCHANGED <<evalskip, loopnest, scopes>>
       ELSE /\ evalskip' = 0
            /\ loopnest' = 0
            /\ scopes' = <<>>
            /\ fdtab' = t
            /\ redirlist' = stack
            /\ pc' = IF Interactive THEN "cmd" ELSE "exit"

\* exraise(EXERROR), with table t and redirtabs `stack` as the error left
\* them; exitstatus is 2, set by sh_error() or by evalcommand() before
\* raising.  The longjmp() leaves every evaltree() and dotrap() call.
\* Inside exitshell() (the EXIT trap and what its evaltree() runs) the
\* handler is exitshell()'s own, which goes on to _exit().  Otherwise it is
\* main()'s: reset() clears evalskip and loopnest and calls unwindredir(0);
\* an interactive shell goes back to cmdloop(), any other to exitshell().
Raise(t, stack) ==
  /\ exitstatus' = ErrStatus
  /\ frames' = <<>>
  /\ IF pc \in {"exitout", "done"}
       THEN /\ pc' = "done"
            /\ fdtab' = t
            /\ redirlist' = stack
            /\ UNCHANGED <<evalskip, loopnest, scopes>>
       ELSE /\ evalskip' = 0
            /\ loopnest' = 0
            /\ scopes' = <<>>
            /\ fdtab' = UnwindTable(t, stack, 0)
            /\ redirlist' = <<>>
            /\ pc' = IF Interactive THEN "cmd" ELSE "exit"

\* a special builtin fails (`shift 5`, `set -o nosuch`, ...): evalbltin()
\* returns EXERROR and evalcommand() raises it again since spclbltin > 0
ErrorCmd ==
  /\ Running
  /\ Raise(fdtab, redirlist)
  /\ UNCHANGED <<trap, trapcnt, gotsig, pendingsigs, sent>>

\* An open() of node `fail` of the list fails (0: none does).
FailChoices(l) == {0} \cup {k \in DOMAIN l : l[k].op = "file"}

\* evalcommand() of an ordinary command with redirections: pushredir(),
\* redirectsafe(REDIR_PUSH); on an error status is 2 and the command is not
\* run (bail, not a special builtin); then popredir(0).
RedirCmd(l, fail, e) ==
  LET res == Redirect(fdtab, l, fail)
  IN /\ Running
     /\ exitstatus' = IF res.err THEN ErrStatus ELSE e
     /\ fdtab' = PopTable(res.t, res.r, FALSE)
     /\ pc' = "out"
     /\ UNCHANGED <<trap, trapcnt, gotsig, pendingsigs, evalskip, loopnest, frames, sent, redirlist, scopes>>

\* `exec` with only redirections: as above, but exec is a special builtin,
\* so an error raises (bail), and popredir(execcmd) drops the redirtab
\* without restoring: the redirections stay.  execcmd() returns 0.
ExecRedir(l, fail) ==
  LET res == Redirect(fdtab, l, fail)
  IN /\ Running
     /\ IF res.err
          THEN Raise(res.t, Append(redirlist, res.r))
          ELSE /\ fdtab' = PopTable(res.t, res.r, TRUE)
               /\ exitstatus' = 0
               /\ pc' = "out"
               /\ UNCHANGED <<evalskip, loopnest, frames, redirlist, scopes>>
     /\ UNCHANGED <<trap, trapcnt, gotsig, pendingsigs, sent>>

\* evaltree() of NREDIR, `{ ...; } >f`: pushredir(), redirectsafe(); when it
\* fails the body is skipped, popredir(0) and $? is 2; otherwise the body
\* runs in the steps that follow, inside the block.
BlockEnter(l, fail) ==
  LET res == Redirect(fdtab, l, fail)
  IN /\ Running
     /\ Len(redirlist) < MaxRedirNest
     /\ IF res.err
          THEN /\ fdtab' = PopTable(res.t, res.r, FALSE)
               /\ exitstatus' = ErrStatus
               /\ pc' = "out"
               /\ UNCHANGED <<redirlist, scopes>>
          ELSE /\ fdtab' = res.t
               /\ redirlist' = Append(redirlist, res.r)
               /\ scopes' = Append(scopes, "block")
               /\ UNCHANGED <<exitstatus, pc>>
     /\ UNCHANGED <<trap, trapcnt, gotsig, pendingsigs, evalskip, loopnest, frames, sent>>

\* the body of the block ends (normally, or skipped by break or return):
\* popredir(0); $? is the body's
BlockExit ==
  /\ pc = "cmd"
  /\ frames = <<>>
  /\ scopes # <<>>
  /\ Innermost = "block"
  /\ fdtab' = PopTable(fdtab, redirlist[Len(redirlist)], FALSE)
  /\ redirlist' = SubSeq(redirlist, 1, Len(redirlist) - 1)
  /\ scopes' = Outer
  /\ pc' = "out"
  /\ UNCHANGED <<trap, trapcnt, gotsig, pendingsigs, evalskip, loopnest, exitstatus, frames, sent>>

\* the descriptors and the redirtabs as RedirStack sees them
Stack == INSTANCE RedirStack
           WITH Fds <- UserFds, Values <- FdValues, InitTable <- InitFiles,
                ClosedV <- Closed, FileV <- Opened,
                ExecLists <- RedirLists, BlockLists <- BlockLists,
                fds <- [u \in UserFds |-> fdtab[u]],
                saved <- [k \in 1..Len(redirlist) |-> AbsFrame(redirlist[k])]

-----------------------------------------------------------------------------
(* The end of evaltree() and dotrap().                                      *)

NewFrame == [i |-> 1, save |-> exitstatus, phase |-> "scan"]

\* evaltree() out: `if (pendingsigs) dotrap();` and dotrap()'s first two
\* statements (savestatus = exitstatus; pendingsigs = 0).  pc moves on to
\* where evaluation resumes once the dotrap() calls return.
EvaltreeOut ==
  /\ pc \in {"out", "exitout"}
  /\ frames = <<>>
  /\ IF pendingsigs # 0
       THEN /\ frames' = <<NewFrame>>
            /\ pendingsigs' = 0
       ELSE UNCHANGED <<frames, pendingsigs, rvars>>
  /\ pc' = IF pc = "out" THEN "cmd" ELSE "done"
  /\ UNCHANGED <<trap, trapcnt, gotsig, evalskip, loopnest, exitstatus, sent, rvars>>

Top == frames[Len(frames)]
SetTop(f) == [frames EXCEPT ![Len(frames)] = f]
Pop == SubSeq(frames, 1, Len(frames) - 1)
Next1(f) == [f EXCEPT !.i = f.i + 1, !.phase = "scan"]

\* evalstring() of a trap action, abstracted to the builtin it runs; `skip`
\* is evalskip when the action starts.
ActionEffect(a, e, skip) ==
  /\ evalskip' = CASE a = "brk" -> BreakSkip(skip)
                   [] a = "ret" -> SKIPFUNC
                   [] OTHER     -> skip
  /\ exitstatus' = CASE a = "cmd" -> e
                     [] a = "brk" -> 0
                     [] OTHER     -> exitstatus

Scanning == frames # <<>> /\ Top.phase = "scan" /\ Top.i <= NSig

\* `if (!*q) continue;`
DotrapSkip ==
  /\ Scanning
  /\ ~gotsig[Top.i]
  /\ frames' = SetTop(Next1(Top))
  /\ UNCHANGED <<trap, trapcnt, gotsig, pendingsigs, evalskip, loopnest, exitstatus, pc, sent, rvars>>

\* `*q = 0; p = trap[i + 1]; if (!p) continue;`: the trap was reset after
\* the signal came
DotrapUnset ==
  /\ Scanning
  /\ gotsig[Top.i]
  /\ trap[Top.i] = Unset
  /\ gotsig' = [gotsig EXCEPT ![Top.i] = FALSE]
  /\ frames' = SetTop(Next1(Top))
  /\ UNCHANGED <<trap, trapcnt, pendingsigs, evalskip, loopnest, exitstatus, pc, sent, rvars>>

\* the trap was set to "" after the signal came: evalstring("") runs
\* nothing, then `if (evalskip) break;`
DotrapEmpty ==
  /\ Scanning
  /\ gotsig[Top.i]
  /\ trap[Top.i] = ""
  /\ gotsig' = [gotsig EXCEPT ![Top.i] = FALSE]
  /\ frames' = IF evalskip # 0 THEN Pop ELSE SetTop(Next1(Top))
  /\ UNCHANGED <<trap, trapcnt, pendingsigs, evalskip, loopnest, exitstatus, pc, sent, rvars>>

\* mutant: the flag is left set when the action runs
DotrapRunKeepFlag(e) ==
  /\ Scanning
  /\ gotsig[Top.i]
  /\ trap[Top.i] \in Actions \ {"err"}
  /\ ActionEffect(trap[Top.i], e, evalskip)
  /\ frames' = SetTop([Top EXCEPT !.phase = "out"])
  /\ UNCHANGED <<trap, trapcnt, gotsig, pendingsigs, loopnest, pc, sent, rvars>>

\* `*q = 0; ... evalstring(p, 0);`: the action runs and its evaltree()
\* reaches its end
DotrapRun(e) ==
  /\ Scanning
  /\ gotsig[Top.i]
  /\ trap[Top.i] \in Actions \ {"err"}
  /\ gotsig' = [gotsig EXCEPT ![Top.i] = FALSE]
  /\ ActionEffect(trap[Top.i], e, evalskip)
  /\ frames' = SetTop([Top EXCEPT !.phase = "out"])
  /\ UNCHANGED <<trap, trapcnt, pendingsigs, loopnest, pc, sent, rvars>>

\* `*q = 0; ... evalstring(p, 0);` and the action raises an error: the
\* longjmp() leaves dotrap() in the middle of its scan, with pendingsigs
\* already 0 and savestatus not put back
DotrapRaise ==
  /\ Scanning
  /\ gotsig[Top.i]
  /\ trap[Top.i] = "err"
  /\ gotsig' = [gotsig EXCEPT ![Top.i] = FALSE]
  /\ Raise(fdtab, redirlist)
  /\ UNCHANGED <<trap, trapcnt, pendingsigs, sent>>

\* the end of the trap action's evaltree(): dotrap() is re-entered when a
\* signal came while the action ran
TrapActionOut ==
  /\ frames # <<>>
  /\ Top.phase = "out"
  /\ LET posted == SetTop([Top EXCEPT !.phase = "post"])
     IN IF pendingsigs # 0
          THEN /\ frames' = Append(posted, NewFrame)
               /\ pendingsigs' = 0
          ELSE /\ frames' = posted
               /\ UNCHANGED pendingsigs
  /\ UNCHANGED <<trap, trapcnt, gotsig, evalskip, loopnest, exitstatus, pc, sent, rvars>>

DotrapRestore ==
  /\ frames # <<>>
  /\ Top.phase = "post"
  /\ exitstatus' = Top.save
  /\ frames' = IF evalskip # 0 THEN Pop ELSE SetTop(Next1(Top))
  /\ UNCHANGED <<trap, trapcnt, gotsig, pendingsigs, evalskip, loopnest, pc, sent, rvars>>

\* mutant: pendingsigs is cleared when the scan ends instead of before it
DotrapDoneClearsPending ==
  /\ frames # <<>>
  /\ Top.phase = "scan"
  /\ Top.i = NSig + 1
  /\ frames' = Pop
  /\ pendingsigs' = 0
  /\ UNCHANGED <<trap, trapcnt, gotsig, evalskip, loopnest, exitstatus, pc, sent, rvars>>

\* the loop over gotsig[] ends and dotrap() returns
DotrapDone ==
  /\ frames # <<>>
  /\ Top.phase = "scan"
  /\ Top.i = NSig + 1
  /\ frames' = Pop
  /\ UNCHANGED <<trap, trapcnt, gotsig, pendingsigs, evalskip, loopnest, exitstatus, pc, sent, rvars>>

-----------------------------------------------------------------------------
(* exitshell(): the EXIT trap is taken out of trap[0] (trapcnt is left as   *)
(* it is, _exit() follows) and run with evalskip cleared.  An error in it  *)
(* is caught by exitshell()'s own handler, which goes on to _exit().       *)

Exitshell(e) ==
  /\ pc = "exit"
  /\ frames = <<>>
  /\ IF trap[0] = Unset
       THEN /\ pc' = "done"
            /\ UNCHANGED <<trap, evalskip, exitstatus, rvars>>
       ELSE /\ trap' = [trap EXCEPT ![0] = Unset]
            /\ CASE trap[0] = "" ->
                      /\ evalskip' = 0
                      /\ pc' = "done"
                      /\ UNCHANGED exitstatus
                 [] trap[0] = "err" ->
                      /\ evalskip' = 0
                      /\ exitstatus' = ErrStatus
                      /\ pc' = "done"
                 [] OTHER ->
                      /\ ActionEffect(trap[0], e, 0)
                      /\ pc' = "exitout"
  /\ UNCHANGED <<trapcnt, gotsig, pendingsigs, loopnest, frames, sent, rvars>>

-----------------------------------------------------------------------------

Shell ==
  \/ \E s \in 0..NSig, a \in Actions \cup {"", "-"} : Trapcmd(s, a)
  \/ \E e \in ExitCodes : SimpleCmd(e)
  \/ Breakcmd
  \/ LoopEnter
  \/ LoopExit
  \/ Eof
  \/ Unwind
  \/ ErrorCmd
  \/ \E l \in RedirLists : \E f \in FailChoices(l) :
       \/ \E e \in ExitCodes : RedirCmd(l, f, e)
       \/ ExecRedir(l, f)
  \/ \E l \in BlockLists : \E f \in FailChoices(l) : BlockEnter(l, f)
  \/ BlockExit
  \/ EvaltreeOut
  \/ DotrapSkip
  \/ DotrapUnset
  \/ DotrapEmpty
  \/ \E e \in ExitCodes : DotrapRun(e)
  \/ DotrapRaise
  \/ TrapActionOut
  \/ DotrapRestore
  \/ DotrapDone
  \/ \E e \in ExitCodes : Exitshell(e)

\* the shell has exited: nothing happens any more
Exited == Terminated /\ UNCHANGED vars

Next == Shell \/ (\E s \in Sigs : Onsig(s)) \/ Exited

\* The shell is never blocked here (no builtin of this model waits), so it
\* keeps taking steps; signals are not assumed to come at all.
Spec == Init /\ [][Next]_vars /\ WF_vars(Shell)
-----------------------------------------------------------------------------
(* Properties.                                                             *)

\* A dotrap() call still to visit signal s: one scanning at or before it, or
\* one that will go on scanning after the trap it is running.
Covers(f, s) == IF f.phase = "scan" THEN f.i <= s ELSE f.i < s

\* Every signal onsig() flagged and dotrap() has not yet cleared is still
\* going to be seen: either pendingsigs is set (so the next evaltree() end
\* calls dotrap()) or an active dotrap() has yet to reach its flag.  This is
\* what the order of `pendingsigs = 0` before the scan in dotrap() is for;
\* a flag outside both is stranded until some other signal arrives.
FlaggedSignalIsPending ==
  \A s \in Sigs :
    gotsig[s] => \/ pendingsigs # 0
                 \/ \E k \in 1..Len(frames) : Covers(frames[k], s)

\* trapcnt, which have_traps() returns and evalcommand() consults before
\* exec'ing the last command of `sh -c` without a fork, counts exactly the
\* traps with a non-empty action, over any sequence of `trap` commands.
\* (exitshell() drops the EXIT trap without adjusting it, just before
\* _exit(), so the count is only claimed before exitshell() runs.)
TrapcntCounts ==
  pc \notin {"exitout", "done"} =>
    trapcnt = Cardinality({s \in 0..NSig : NonEmpty(trap[s])})

SignalEventuallyHandled ==
  \A s \in Sigs : gotsig[s] ~> (~gotsig[s] \/ Terminated)

\* redirect(), popredir() and unwindredir() keep what the evaluator
\* promises: every `{ ...; } >f` block and every command with
\* redirections gives back, when it ends or an error unwinds it, the
\* descriptors it changed as they were before it, and leaves the others
\* alone; `exec` changes stay.
RedirRefinesStack == Stack!Spec

\* Each `{ ...; } >f` block the evaluator is inside owns exactly one
\* redirtab on redirlist and no other redirtab outlives the step that
\* pushed it: after an error inside a block, reset()'s unwindredir(0) has
\* put back what the block redirected before the prompt returns.
RedirtabPerBlock ==
  Len(redirlist) = Cardinality({k \in DOMAIN scopes : scopes[k] = "block"})
====
