-------------------------------- MODULE Jobs --------------------------------
(***************************************************************************)
(* The job table of the shell (src/mk/mkdash.c, the jobs.c part) and the   *)
(* child processes it tracks.                                              *)
(*                                                                         *)
(* The shell is one sequential process with a program counter `pc`; its    *)
(* children change state (exit, stop, continue) concurrently and the shell *)
(* learns of it only through wait3() inside dowait().  Every step of the   *)
(* shell between two system calls that observe the children is one action; *)
(* the children are the environment.                                       *)
(*                                                                         *)
(* Wait statuses are kept in the kernel's encoding (exit code << 8, or     *)
(* signal << 8 | 0x7f for a stop) and decoded the way getstatus() does.    *)
(***************************************************************************)
EXTENDS Integers, Sequences, FiniteSets, SequencesExt, FiniteSetsExt, Functions

CONSTANTS
  Pids,          \* process ids the kernel can hand out to children
  ExitCodes,     \* exit codes a child may end with
  MaxJobSlots,   \* bound: largest job table the model lets growjobtab() make
  JobTabGrow,    \* growjobtab() grows the table by this many slots (4)
  MaxStages,     \* bound: longest pipeline started
  JobCtl,        \* the shell's `jobctl` flag (set -m, job control on)
  ReusePids,     \* may the kernel reuse a pid still named in a job record?
  ForkMayFail,   \* may fork() fail with EAGAIN?
  PipeMayFail,   \* may pipe() fail (EMFILE) in evalpipe()?
  ExternalSignals, \* may children be stopped/continued by signals from outside?
  Interactive    \* iflag: an error at top level returns to the prompt

ASSUME /\ JobTabGrow \in Nat \ {0}
       /\ MaxJobSlots \in Nat /\ MaxJobSlots % JobTabGrow = 0
       /\ MaxStages \in Nat \ {0}
       /\ ExitCodes \subseteq 0..255
       /\ {JobCtl, ReusePids, ForkMayFail, PipeMayFail, ExternalSignals,
           Interactive} \subseteq BOOLEAN

VARIABLES
  os,          \* os[p]: kernel state of child p
  code,        \* code[p]: exit code of p while it is a zombie
  gotsigchld,  \* the flag onsig() sets on SIGCHLD
  jobtab,      \* jobtab[i]: struct job of slot i (job number i)
  njobs,       \* number of slots growjobtab() has allocated
  curjob,      \* the curjob / prev_job chain, as the sequence of its slots
  pc,          \* where the shell is
  cur,         \* the job the shell is waiting on
  exitstatus   \* $?

vars == <<os, code, gotsigchld, jobtab, njobs, curjob, pc, cur, exitstatus>>

-----------------------------------------------------------------------------
(* Kernel encodings and the state of a job (JOBRUNNING ... JOBDONE).       *)

JobRunning == 0
JobStopped == 1
JobDone    == 2

CurStopped == 0
CurRunning == 1
CurDelete  == 2

NoStatus == -1                       \* ps->status of a process not yet reported
SIGTSTP  == 20
WaitExit(c)  == c * 256
WaitStop     == SIGTSTP * 256 + 127
WIFEXITED(s)   == s % 128 = 0
WIFSTOPPED(s)  == s % 256 = 127
WEXITSTATUS(s) == (s \div 256) % 256
WSTOPSIG(s)    == (s \div 256) % 256

WaitStatuses == {NoStatus, WaitStop} \cup {WaitExit(c) : c \in ExitCodes}

OsStates == {"free", "run", "stop", "stopseen", "dead"}
Proc     == [pid : Pids, status : WaitStatuses]
Job      == [used : BOOLEAN, state : {JobRunning, JobStopped, JobDone},
             procs : Seq(Proc), waited : BOOLEAN, changed : BOOLEAN,
             jobctl : BOOLEAN]

\* A slot after memset(jp, 0, ...) with used = 0.  freejob() only clears
\* `used`; the other fields of an unused slot are never read before makejob()
\* clears them, so the model clears them at once.
EmptyJob == [used |-> FALSE, state |-> JobRunning, procs |-> <<>>,
             waited |-> FALSE, changed |-> FALSE, jobctl |-> FALSE]

\* The label of cmdloop() before it parses the next line: with job control
\* it first runs showjobs(out2, SHOW_CHANGED).
Top == IF JobCtl THEN "loop" ELSE "ready"

\* Where the shell goes after a command: the next command of the same line
\* (parsecmd() returns a whole line, e.g. `a; b`), or the next line.
NextCommand == {"ready", Top}

\* Where sh_error() at top level leads: main()'s handler re-enters the
\* command loop of an interactive shell and calls exitshell() otherwise.
AfterError == IF Interactive THEN Top ELSE "exit"

UsedSlots(jt) == {i \in 1..MaxJobSlots : jt[i].used}
RecordedIn(jt) == UNION {{jt[j].procs[i].pid : i \in DOMAIN jt[j].procs} :
                          j \in UsedSlots(jt)}
LiveChildren  == {p \in Pids : os[p] # "free"}

-----------------------------------------------------------------------------
(* set_curjob(): unlink jp from the chain, then relink it by mode.         *)
SetCurjob(jt, chain, j, mode) ==
  LET rest == RemoveFirst(chain, j)
      k    == SelectInSeq(rest, LAMBDA x : jt[x].state # JobStopped)
  IN CASE mode = CurDelete  -> rest
       [] mode = CurStopped -> <<j>> \o rest
       [] mode = CurRunning -> IF k = 0 THEN Append(rest, j)
                               ELSE InsertAt(rest, k, j)

\* Mutant: freejob() that clears `used` but leaves the slot on the chain.
FreejobChainKeep(jt, chain, j) == chain

(* freejob(): the slot is unused and unlinked from the chain.              *)
FreejobTab(jt, j)   == [jt EXCEPT ![j] = EmptyJob]
FreejobChain(jt, chain, j) == SetCurjob(jt, chain, j, CurDelete)

\* Mutant: getstatus() returning the raw wait status.
GetStatusRaw(job) == job.procs[Len(job.procs)].status

(* getstatus(): decode the status of the job's last process.               *)
GetStatus(job) ==
  LET s == job.procs[Len(job.procs)].status
  IN IF WIFEXITED(s) THEN WEXITSTATUS(s) ELSE 128 + WSTOPSIG(s)

(* The state dowait() computes from the statuses of a job's processes.     *)
JobStateOf(procs) ==
  IF \E i \in DOMAIN procs : procs[i].status = NoStatus THEN JobRunning
  ELSE IF \E i \in DOMAIN procs : WIFSTOPPED(procs[i].status) THEN JobStopped
  ELSE JobDone

-----------------------------------------------------------------------------
(* waitproc() and dowait().                                                *)

\* wait3() reports a zombie, and a new stop only when WUNTRACED is passed,
\* which waitproc() does when jobctl is set.
Reportable(p) == os[p] = "dead" \/ (JobCtl /\ os[p] = "stop")

\* Mutant: wait3() that reports a child without reaping it (WNOWAIT).
ReapKernelNoReap(p) == UNCHANGED <<os, code>>

\* What wait3() hands back for p, and the kernel state after it did.
Reaped(p)     == IF os[p] = "dead" THEN WaitExit(code[p]) ELSE WaitStop
ReapKernel(p) ==
  /\ os'   = [os EXCEPT ![p] = IF os[p] = "dead" THEN "free" ELSE "stopseen"]
  /\ code' = [code EXCEPT ![p] = 0]

\* Mutant: dowait() that stores the status only when the job leaves
\* JOBRUNNING, so an early stage of a pipeline is forgotten.
DowaitLoseRunning(jt, p) ==
  LET Names(j) == \E i \in DOMAIN jt[j].procs : jt[j].procs[i].pid = p
      hit   == SelectInSeq(curjob, LAMBDA j : jt[j].state # JobDone /\ Names(j))
      j     == curjob[hit]
      procs == [i \in DOMAIN jt[j].procs |->
                  IF jt[j].procs[i].pid = p
                  THEN [jt[j].procs[i] EXCEPT !.status = Reaped(p)]
                  ELSE jt[j].procs[i]]
  IN /\ ReapKernel(p)
     /\ UNCHANGED curjob
     /\ jobtab' = IF hit = 0 \/ JobStateOf(procs) = JobRunning THEN jt
                  ELSE [jt EXCEPT ![j].procs = procs, ![j].changed = TRUE,
                                  ![j].state = JobStateOf(procs)]

\* Mutant: dowait() that skips every job not JOBRUNNING (stopped ones too).
DowaitSkipStopped(jt, p) ==
  LET Names(j) == \E i \in DOMAIN jt[j].procs : jt[j].procs[i].pid = p
      hit   == SelectInSeq(curjob, LAMBDA j : jt[j].state = JobRunning /\ Names(j))
      j     == curjob[hit]
      procs == [i \in DOMAIN jt[j].procs |->
                  IF jt[j].procs[i].pid = p
                  THEN [jt[j].procs[i] EXCEPT !.status = Reaped(p)]
                  ELSE jt[j].procs[i]]
  IN /\ ReapKernel(p)
     /\ IF hit = 0 THEN jobtab' = jt /\ UNCHANGED curjob
        ELSE /\ jobtab' = [jt EXCEPT ![j].procs = procs,
                  ![j].changed = (JobStateOf(procs) # JobRunning),
                  ![j].state = JobStateOf(procs)]
             /\ curjob' = IF JobStateOf(procs) = JobStopped
                          THEN SetCurjob(jt, curjob, j, CurStopped) ELSE curjob

\* dowait() once wait3() returned pid p: the first job of the chain that is
\* not JOBDONE and names p takes the status; its state is recomputed and,
\* when it left JOBRUNNING, it is marked changed (and made current when it
\* stopped).  A pid no job names is only counted in `jobless`.
Dowait(jt, p) ==
  LET st    == Reaped(p)
      Names(j) == \E i \in DOMAIN jt[j].procs : jt[j].procs[i].pid = p
      hit   == SelectInSeq(curjob, LAMBDA j : jt[j].state # JobDone /\ Names(j))
      j     == curjob[hit]
      procs == [i \in DOMAIN jt[j].procs |->
                  IF jt[j].procs[i].pid = p
                  THEN [jt[j].procs[i] EXCEPT !.status = st]
                  ELSE jt[j].procs[i]]
      state == JobStateOf(procs)
  IN /\ ReapKernel(p)
     /\ IF hit = 0
        THEN /\ jobtab' = jt
             /\ UNCHANGED curjob
        ELSE IF state = JobRunning
        THEN /\ jobtab' = [jt EXCEPT ![j].procs = procs]
             /\ UNCHANGED curjob
        ELSE /\ jobtab' = [jt EXCEPT ![j].procs = procs, ![j].changed = TRUE,
                                     ![j].state = state]
             /\ curjob' = IF state = JobStopped /\ jt[j].state # JobStopped
                          THEN SetCurjob(jt, curjob, j, CurStopped)
                          ELSE curjob

\* One dowait(DOWAIT_WAITCMD) of the wait builtin, on job table jt: wait3()
\* with WNOHANG; if nothing is reportable waitproc() sleeps in sigsuspend()
\* (pc = susp) until SIGCHLD; wait3() failing with ECHILD makes dowait()
\* return -1 and the builtin returns 128 + pendingsigs.
WaitcmdDowait(jt, loop, susp) ==
  /\ gotsigchld' = FALSE
  /\ \/ /\ \E p \in Pids : Reportable(p) /\ Dowait(jt, p)
        /\ pc' = loop
        /\ UNCHANGED <<cur, exitstatus>>
     \/ /\ \A p \in Pids : ~Reportable(p)
        /\ LiveChildren = {}
        /\ jobtab' = jt
        /\ pc' \in NextCommand
        /\ cur' = 0
        /\ exitstatus' = 128
        /\ UNCHANGED <<os, code, curjob>>
     \/ /\ \A p \in Pids : ~Reportable(p)
        /\ LiveChildren # {}
        /\ jobtab' = jt
        /\ pc' = susp
        /\ UNCHANGED <<os, code, curjob, cur, exitstatus>>
  /\ UNCHANGED njobs

-----------------------------------------------------------------------------
(* makejob(), forkshell() and forkparent(), for every way a command forks: *)
(* an external command, a subshell or a command substitution (one stage,   *)
(* in the foreground), `cmd &` (evalsubshell() in the background) and a    *)
(* pipeline of n stages (evalpipe(), foreground or background).            *)
(*                                                                         *)
(* makejob() takes the first slot that is unused or, without job control,  *)
(* done and waited for (freeing it); with none, growjobtab() adds          *)
(* JobTabGrow slots.  The new job is pushed at the head of the chain.      *)
(* Each fork() hands out a pid the kernel has free.  When fork() fails     *)
(* (EAGAIN) forkshell() frees the job (the stages already forked keep      *)
(* running, untracked) and raises an error.  evalpipe() calls pipe()       *)
(* before forking every stage but the last; when it fails the error is     *)
(* raised and the job stays with the stages forked so far (none, if the    *)
(* first pipe() failed).  forkparent() records each pid with status -1     *)
(* and, in the background, relinks the job behind the stopped jobs.        *)
(* evalsubshell() sets $? to 0 for `cmd &`; a background pipeline leaves   *)
(* it alone.  A pid the kernel cannot hand out without reusing one a job   *)
(* still names (with ReusePids FALSE) only bounds the model: the fork      *)
(* does not happen.                                                        *)
ReusableSlot(i) ==
  \/ ~jobtab[i].used
  \/ jobtab[i].state = JobDone /\ jobtab[i].waited /\ ~JobCtl

StartJob(n, bg) ==
  /\ pc = "ready"
  /\ LET free  == {i \in 1..njobs : ReusableSlot(i)}
         slot  == IF free # {} THEN Min(free) ELSE njobs + 1
         reuse == free # {} /\ jobtab[slot].used
         jt0   == IF reuse THEN FreejobTab(jobtab, slot) ELSE jobtab
         ch0   == IF reuse THEN FreejobChain(jobtab, curjob, slot) ELSE curjob
         ch1   == <<slot>> \o ch0
         forkable == {p \in Pids : os[p] = "free" /\
                                   (ReusePids \/ p \notin RecordedIn(jt0))}
         NewJob(kids) == [EmptyJob EXCEPT
                         !.used = TRUE, !.jobctl = JobCtl,
                         !.procs = [i \in DOMAIN kids |->
                                      [pid |-> kids[i], status |-> NoStatus]]]
         Linked(jt, k) == IF bg /\ k > 0 THEN SetCurjob(jt, ch1, slot, CurRunning)
                          ELSE ch1
     IN /\ free = {} => njobs + JobTabGrow <= MaxJobSlots
        /\ njobs' = IF free = {} THEN njobs + JobTabGrow ELSE njobs
        /\ \E k \in 0..n : \E kids \in Injection(1..k, forkable) :
             /\ os' = [p \in Pids |-> IF p \in Range(kids) THEN "run" ELSE os[p]]
             /\ \/ /\ k = n
                   /\ jobtab' = [jt0 EXCEPT ![slot] = NewJob(kids)]
                   /\ curjob' = Linked(jobtab', k)
                   /\ pc' \in IF bg THEN NextCommand ELSE {"fgwait"}
                   /\ cur' = IF bg THEN 0 ELSE slot
                   /\ exitstatus' = IF bg /\ n = 1 THEN 0 ELSE exitstatus
                \/ /\ ForkMayFail /\ k < n
                   /\ jobtab' = FreejobTab(jt0, slot)
                   /\ curjob' = ch0
                   /\ pc' = AfterError
                   /\ cur' = 0
                   /\ exitstatus' = 2
                \/ /\ PipeMayFail /\ k <= n - 2
                   /\ jobtab' = [jt0 EXCEPT ![slot] = NewJob(kids)]
                   /\ curjob' = Linked(jobtab', k)
                   /\ pc' = AfterError
                   /\ cur' = 0
                   /\ exitstatus' = 2
  /\ UNCHANGED <<code, gotsigchld>>

-----------------------------------------------------------------------------
(* waitforjob(): dowait(DOWAIT_BLOCK, jp) while the job runs (wait3()      *)
(* without WNOHANG blocks until a child is reportable), then the status of *)
(* its last process; a job that is done is freed.  With no child left,     *)
(* wait3() fails with ECHILD and waitforjob() spins without a state change: *)
(* the model has no step there.                                            *)
FgWaitStep ==
  /\ pc = "fgwait"
  /\ jobtab[cur].state = JobRunning
  /\ gotsigchld' = FALSE
  /\ \E p \in Pids : Reportable(p) /\ Dowait(jobtab, p)
  /\ UNCHANGED <<njobs, pc, cur, exitstatus>>

FgWaitDone ==
  /\ pc = "fgwait"
  /\ jobtab[cur].state # JobRunning
  /\ exitstatus' = GetStatus(jobtab[cur])
  /\ IF jobtab[cur].state = JobDone
     THEN /\ jobtab' = FreejobTab(jobtab, cur)
          /\ curjob' = FreejobChain(jobtab, curjob, cur)
     ELSE UNCHANGED <<jobtab, curjob>>
  /\ pc' \in NextCommand
  /\ cur' = 0
  /\ UNCHANGED <<os, code, gotsigchld, njobs>>

-----------------------------------------------------------------------------
\* Mutant: waitcmd() that looks only at the current job.
WaitAllHeadOnly ==
  /\ pc \in {"ready", "waitall"}
  /\ IF curjob = <<>> \/ jobtab[curjob[1]].state # JobRunning
     THEN /\ jobtab' = IF curjob = <<>> THEN jobtab
                       ELSE [jobtab EXCEPT ![curjob[1]].waited = TRUE]
          /\ exitstatus' = 0
          /\ pc' \in NextCommand
          /\ UNCHANGED <<os, code, gotsigchld, njobs, curjob, cur>>
     ELSE WaitcmdDowait(jobtab, "waitall", "waitallsusp")

(* The wait builtin, waitcmd().  Without operands: mark every job ahead of  *)
(* the first running one as waited; when none runs return 0, otherwise     *)
(* dowait(DOWAIT_WAITCMD) and scan again; dowait() returning <= 0 makes    *)
(* the builtin return 128 + pendingsigs.                                   *)
WaitAll ==
  /\ pc \in {"ready", "waitall"}
  /\ LET first  == SelectInSeq(curjob, LAMBDA j : jobtab[j].state = JobRunning)
         marked == {curjob[i] : i \in 1..(IF first = 0 THEN Len(curjob) ELSE first - 1)}
         jt     == [j \in DOMAIN jobtab |->
                      IF j \in marked THEN [jobtab[j] EXCEPT !.waited = TRUE]
                      ELSE jobtab[j]]
     IN IF first = 0
        THEN /\ jobtab' = jt
             /\ exitstatus' = 0
             /\ pc' \in NextCommand
             /\ UNCHANGED <<os, code, gotsigchld, njobs, curjob, cur>>
        ELSE WaitcmdDowait(jt, "waitall", "waitallsusp")

\* The second half of waitproc(): woken from sigsuspend() by SIGCHLD, it
\* clears gotsigchld and calls wait3() once more with WNOHANG, now with
\* block = 0, so whatever wait3() returns ends waitproc().
WaitWake(loop, susp) ==
  /\ pc = susp
  /\ gotsigchld
  /\ gotsigchld' = FALSE
  /\ \/ /\ \E p \in Pids : Reportable(p) /\ Dowait(jobtab, p)
        /\ pc' = loop
        /\ UNCHANGED <<cur, exitstatus>>
     \/ /\ \A p \in Pids : ~Reportable(p)
        /\ pc' \in NextCommand
        /\ cur' = 0
        /\ exitstatus' = 128
        /\ UNCHANGED <<os, code, jobtab, curjob>>
  /\ UNCHANGED njobs

(* getjob(): a job spec is %% / %+ (the current job), %- (the previous     *)
(* one) or %n; it yields the slot, or 0 where getjob() raises "No such     *)
(* job" (or, with getctl, "not created under job control").  The %string   *)
(* and %?string forms, which match command text, are not modelled.         *)
CurrentSpec  == -1
PreviousSpec == -2
JobSpecs     == {CurrentSpec, PreviousSpec} \cup 1..MaxJobSlots

GetJob(spec, getctl) ==
  LET jp == CASE spec = CurrentSpec  -> IF Len(curjob) >= 1 THEN curjob[1] ELSE 0
              [] spec = PreviousSpec -> IF Len(curjob) >= 2 THEN curjob[2] ELSE 0
              [] OTHER -> IF spec < njobs /\ jobtab[spec].used THEN spec ELSE 0
  IN IF jp # 0 /\ getctl /\ ~jobtab[jp].jobctl THEN 0 ELSE jp

\* getjob() failing is sh_error(): $? = 2 and the rest of the line is dropped.
NoSuchJob ==
  /\ exitstatus' = 2
  /\ pc' = AfterError
  /\ UNCHANGED <<os, code, gotsigchld, jobtab, njobs, curjob, cur>>

(* `wait %n`: while the job runs, dowait(DOWAIT_WAITCMD); then mark it     *)
(* waited and return its status (the job is not freed).                    *)
WaitJob(spec) ==
  /\ pc = "ready"
  /\ IF GetJob(spec, FALSE) = 0
     THEN NoSuchJob
     ELSE /\ pc' = "waitjob"
          /\ cur' = GetJob(spec, FALSE)
          /\ UNCHANGED <<os, code, gotsigchld, jobtab, njobs, curjob, exitstatus>>

(* `wait pid`: the first job of the chain whose last process is pid; none *)
(* gives 127.  For a job with no process (nprocs = 0) the code reads       *)
(* ps[-1], memory before the slot: the model lets such a job match or not. *)
WaitPid(p) ==
  /\ pc = "ready"
  /\ \E garbage \in SUBSET {j \in Range(curjob) : jobtab[j].procs = <<>>} :
     LET k == SelectInSeq(curjob, LAMBDA j :
                 \/ j \in garbage
                 \/ jobtab[j].procs # <<>> /\ Last(jobtab[j].procs).pid = p)
     IN IF k = 0
        THEN /\ exitstatus' = 127
             /\ pc' \in NextCommand
             /\ UNCHANGED <<os, code, gotsigchld, jobtab, njobs, curjob, cur>>
        ELSE /\ pc' = "waitjob"
             /\ cur' = curjob[k]
             /\ UNCHANGED <<os, code, gotsigchld, jobtab, njobs, curjob, exitstatus>>

WaitJobIter ==
  /\ pc = "waitjob"
  /\ IF jobtab[cur].state # JobRunning
     THEN /\ jobtab' = [jobtab EXCEPT ![cur].waited = TRUE]
          /\ exitstatus' = GetStatus(jobtab[cur])
          /\ pc' \in NextCommand
          /\ cur' = 0
          /\ UNCHANGED <<os, code, gotsigchld, njobs, curjob>>
     ELSE WaitcmdDowait(jobtab, "waitjob", "waitjobsusp")

-----------------------------------------------------------------------------
(* showjobs(): dowait(DOWAIT_NORMAL) (wait3() with WNOHANG) until nothing  *)
(* is reported, then showjob() for every job of the chain (only the        *)
(* changed ones from the command loop, SHOW_CHANGED): it clears `changed`  *)
(* and frees a job that is done.  pc = "loop" is the command loop of a     *)
(* shell with job control; from "ready" it is the jobs builtin.            *)
ShowjobsReap ==
  /\ pc \in {"loop", "ready", "jobs"}
  /\ gotsigchld' = FALSE
  /\ \E p \in Pids : Reportable(p) /\ Dowait(jobtab, p)
  /\ pc' = IF pc = "ready" THEN "jobs" ELSE pc
  /\ UNCHANGED <<njobs, cur, exitstatus>>

ShowjobsShow ==
  /\ pc \in {"loop", "ready", "jobs"}
  /\ \A p \in Pids : ~Reportable(p)
  /\ LET shown == {j \in Range(curjob) : pc # "loop" \/ jobtab[j].changed}
         gone  == {j \in shown : jobtab[j].state = JobDone}
     IN /\ jobtab' = [j \in DOMAIN jobtab |->
                        IF j \in gone THEN EmptyJob
                        ELSE IF j \in shown THEN [jobtab[j] EXCEPT !.changed = FALSE]
                        ELSE jobtab[j]]
        /\ curjob' = SelectSeq(curjob, LAMBDA j : j \notin gone)
  /\ gotsigchld' = FALSE
  /\ pc' \in IF pc = "loop" THEN {"ready"} ELSE NextCommand
  /\ exitstatus' = IF pc = "loop" THEN exitstatus ELSE 0
  /\ UNCHANGED <<os, code, njobs, cur>>

-----------------------------------------------------------------------------
(* fg / bg: fgcmd() takes the job with getjob(spec, 1); bg first relinks   *)
(* it with set_curjob(CUR_RUNNING).  restartjob(): unless the job is done, *)
(* mark it running, send SIGCONT to its process group and reset the status *)
(* of every stopped process to -1; fg then waits with waitforjob().        *)
(* Both first print jp->ps->cmd: a job with no process has it NULL and the *)
(* shell dies in strlen() (pc = "crash").                                  *)
Restart(jt, j) ==
  LET procs == jt[j].procs
      stopped == {procs[i].pid : i \in {i \in DOMAIN procs : os[procs[i].pid] \in {"stop", "stopseen"}}}
  IN IF jt[j].state = JobDone
     THEN /\ jobtab' = jt
          /\ UNCHANGED <<os, gotsigchld>>
     ELSE /\ jobtab' = [jt EXCEPT ![j].state = JobRunning,
                                  ![j].procs = [i \in DOMAIN procs |->
                                     IF WIFSTOPPED(procs[i].status)
                                     THEN [procs[i] EXCEPT !.status = NoStatus]
                                     ELSE procs[i]]]
          /\ os' = [p \in Pids |-> IF p \in stopped THEN "run" ELSE os[p]]
          /\ gotsigchld' = (gotsigchld \/ stopped # {})

Crash ==
  /\ pc' = "crash"
  /\ UNCHANGED <<os, code, gotsigchld, jobtab, njobs, curjob, cur, exitstatus>>

Fg(spec) ==
  /\ pc = "ready"
  /\ LET j == GetJob(spec, TRUE)
     IN IF j = 0
        THEN NoSuchJob
        ELSE IF jobtab[j].procs = <<>> THEN Crash
        ELSE /\ Restart(jobtab, j)
             /\ pc' = "fgwait"
             /\ cur' = j
             /\ UNCHANGED <<code, njobs, curjob, exitstatus>>

Bg(spec) ==
  /\ pc = "ready"
  /\ LET j == GetJob(spec, TRUE)
     IN IF j = 0
        THEN NoSuchJob
        ELSE IF jobtab[j].procs = <<>> THEN Crash
        ELSE /\ curjob' = SetCurjob(jobtab, curjob, j, CurRunning)
             /\ Restart(jobtab, j)
             /\ exitstatus' = 0
             /\ pc' \in NextCommand
             /\ UNCHANGED <<code, njobs, cur>>

-----------------------------------------------------------------------------
(* The children.  Each may exit at any time (also while stopped, killed by *)
(* a signal); with ExternalSignals it may be stopped or continued by a     *)
(* signal the shell did not send.  Each of these raises SIGCHLD in the     *)
(* shell (the handler is installed without SA_NOCLDSTOP).                  *)
ChildExit(p, c) ==
  /\ os[p] \in {"run", "stop", "stopseen"}
  /\ os' = [os EXCEPT ![p] = "dead"]
  /\ code' = [code EXCEPT ![p] = c]
  /\ gotsigchld' = TRUE
  /\ UNCHANGED <<jobtab, njobs, curjob, pc, cur, exitstatus>>

ChildStop(p) ==
  /\ ExternalSignals
  /\ os[p] = "run"
  /\ os' = [os EXCEPT ![p] = "stop"]
  /\ gotsigchld' = TRUE
  /\ UNCHANGED <<code, jobtab, njobs, curjob, pc, cur, exitstatus>>

ChildCont(p) ==
  /\ ExternalSignals
  /\ os[p] \in {"stop", "stopseen"}
  /\ os' = [os EXCEPT ![p] = "run"]
  /\ gotsigchld' = TRUE
  /\ UNCHANGED <<code, jobtab, njobs, curjob, pc, cur, exitstatus>>

-----------------------------------------------------------------------------
Init ==
  /\ os = [p \in Pids |-> "free"]
  /\ code = [p \in Pids |-> 0]
  /\ gotsigchld = FALSE
  /\ jobtab = [i \in 1..MaxJobSlots |-> EmptyJob]
  /\ njobs = 0
  /\ curjob = <<>>
  /\ pc = Top
  /\ cur = 0
  /\ exitstatus = 0

Shell ==
  \/ \E n \in 1..MaxStages, bg \in BOOLEAN : StartJob(n, bg)
  \/ FgWaitStep \/ FgWaitDone
  \/ WaitAll \/ WaitWake("waitall", "waitallsusp")
  \/ \E spec \in JobSpecs : WaitJob(spec)
  \/ \E p \in Pids : WaitPid(p)
  \/ WaitJobIter \/ WaitWake("waitjob", "waitjobsusp")
  \/ ShowjobsReap \/ ShowjobsShow
  \/ \E spec \in JobSpecs : Fg(spec) \/ Bg(spec)

Children ==
  \E p \in Pids :
    \/ \E c \in ExitCodes : ChildExit(p, c)
    \/ ChildStop(p)
    \/ ChildCont(p)

Next == Shell \/ Children

\* Where the shell is running rather than reading a command.
Busy == {"loop", "fgwait", "waitall", "waitallsusp", "waitjob", "waitjobsusp", "jobs"}
Labels == Busy \cup {"ready", "exit", "crash"}

\* The shell is scheduled whenever it has work and is not reading a command;
\* every command a child runs ends (an assumption about the commands).
Fairness ==
  /\ WF_vars(pc \in Busy /\ Shell)
  /\ \A p \in Pids : WF_vars(\E c \in ExitCodes : ChildExit(p, c))

Spec == Init /\ [][Next]_vars /\ Fairness

-----------------------------------------------------------------------------
(* Properties.                                                              *)

TypeOK ==
  /\ os \in [Pids -> OsStates]
  /\ code \in [Pids -> ExitCodes \cup {0}]
  /\ gotsigchld \in BOOLEAN
  /\ jobtab \in [1..MaxJobSlots -> Job]
  /\ njobs \in {k * JobTabGrow : k \in 0..(MaxJobSlots \div JobTabGrow)}
  /\ curjob \in Seq(1..MaxJobSlots)
  /\ pc \in Labels
  /\ cur \in 0..MaxJobSlots
  /\ exitstatus \in 0..255

\* makejob(), freejob(), set_curjob() and growjobtab() keep the curjob chain
\* and the `used` flags in step: every used slot of the allocated table is on
\* the chain exactly once and nothing else is.
CurjobChainIsTable ==
  /\ IsInjective(curjob)
  /\ Range(curjob) = UsedSlots(jobtab)
  /\ \A j \in UsedSlots(jobtab) : j <= njobs

\* dowait() never loses a child: a process the shell still records as not
\* reported (status -1) is one the kernel has not reaped.
ShellViewSound ==
  \A j \in UsedSlots(jobtab) : \A i \in DOMAIN jobtab[j].procs :
    jobtab[j].procs[i].status = NoStatus => os[jobtab[j].procs[i].pid] # "free"

\* The wait builtin without operands returns only when no job is running,
\* with status 0 (waitcmd() and the 128 + pendingsigs exit of waitproc()).
WaitReturnsOnlyWhenIdle ==
  [][ (pc \in {"waitall", "waitallsusp"} /\ pc' \notin {"waitall", "waitallsusp"})
      => (exitstatus' = 0 /\ \A j \in UsedSlots(jobtab') : jobtab'[j].state # JobRunning) ]_vars

\* waitforjob(), the wait builtin, showjobs() and the command loop's report
\* all end: the shell gets back to reading commands.
ShellReturnsToPrompt == pc \in Busy ~> pc \notin Busy

\* getjob("%n") finds job n whenever slot n is in use.
JobNumberResolves ==
  \A n \in 1..njobs : jobtab[n].used => GetJob(n, FALSE) = n

\* The shell never dies of a bad pointer in fg or bg.
ShellNeverCrashes == pc # "crash"

=============================================================================
