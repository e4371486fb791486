-------------------------------- MODULE Redir --------------------------------
(***************************************************************************)
(* Redirections (src/mk/mkdash.c, the redir.c part): redirect(), which     *)
(* applies a list of redirections and records in a redirtab how to undo    *)
(* them, savefd(), popredir() and unwindredir().                           *)
(*                                                                         *)
(* The kernel's descriptor table is `fdtab`: the descriptors a             *)
(* redirection may name (UserFds, single digits in the code), the one      *)
(* open() lands on when all of those are open (Spare), and the             *)
(* descriptors >= 10 that savefd() moves a descriptor to (SaveFds).  A     *)
(* descriptor holds the name of what it refers to or Closed; every file a  *)
(* redirection opens is Opened.  Descriptor 0 is taken to stay open, so    *)
(* open() returns the lowest closed one of UserFds, or Spare.              *)
(*                                                                         *)
(* `redirlist` is the stack of redirtabs, innermost last; a redirtab is    *)
(* its renamed[] array: EMPTY, CLOSED, REALLY_CLOSED or the descriptor the *)
(* original was saved to.  These operators are used by Traps, whose        *)
(* evaluator runs them.                                                    *)
(***************************************************************************)
EXTENDS Integers, Sequences, FiniteSets

LOCAL SeqX == INSTANCE SequencesExt

CONSTANTS
  UserFds,      \* descriptors redirections name, e.g. {1, 2}
  SaveFds,      \* descriptors >= 10 savefd() can get from F_DUPFD
  InitFiles     \* what each of UserFds refers to when the shell starts

Closed == "closed"
Opened == "file"
Spare == CHOOSE d \in 2..10 : d - 1 \in UserFds /\ \A u \in UserFds : u < d
AllFds == UserFds \cup {Spare} \cup SaveFds

ASSUME /\ UserFds \subseteq 1..9
       /\ SaveFds \subseteq 10..20
       /\ \A u \in UserFds : InitFiles[u] \notin {Closed, Opened}

VARIABLES
  fdtab,        \* the kernel's descriptor table
  redirlist     \* the redirtabs pushed, innermost last

REALLY_CLOSED == -3
EMPTY == -2
CLOSED == -1

\* One redirection node: n>file (op "file"), n>&m (op "dup") or n>&- (op
\* "close").  `dupfd` is m; it is ignored for the other two.
Redirection == [fd : UserFds, op : {"file", "dup", "close"}, dupfd : UserFds]
Renamed == [UserFds -> {REALLY_CLOSED, EMPTY, CLOSED} \cup SaveFds]

RedirTypeOK ==
  /\ fdtab \in [AllFds -> {Closed, Opened} \cup {InitFiles[u] : u \in UserFds}]
  /\ redirlist \in Seq(Renamed)

RedirInit ==
  /\ fdtab = [d \in AllFds |-> IF d \in UserFds THEN InitFiles[d] ELSE Closed]
  /\ redirlist = <<>>

LowestClosed(t, S) == CHOOSE d \in S : t[d] = Closed /\ \A e \in S : t[e] = Closed => d <= e

\* openredirect(): a file is opened on the lowest free descriptor; n>&m
\* gives m, or -2 when m is n; n>&- gives -1.
OpenRedirect(t, n) ==
  CASE n.op = "file"  -> LowestClosed(t, UserFds \cup {Spare})
    [] n.op = "close" -> -1
    [] OTHER          -> IF n.dupfd = n.fd THEN -2 ELSE n.dupfd

\* savefd(from, from): fcntl(F_DUPFD, 10).  EBADF (from is closed): nothing
\* happens and -1 (CLOSED) is returned.  Any other failure (no descriptor
\* >= 10 left, EMFILE): from is closed and sh_error() raises.
SaveFd(t, from) ==
  LET free == {d \in SaveFds : t[d] = Closed}
  IN CASE t[from] = Closed -> [t |-> t, newfd |-> CLOSED, err |-> FALSE]
       [] free = {}        -> [t |-> [t EXCEPT ![from] = Closed], newfd |-> CLOSED, err |-> TRUE]
       [] OTHER ->
            LET s == LowestClosed(t, SaveFds)
            IN [t |-> [t EXCEPT ![s] = t[from], ![from] = Closed], newfd |-> s, err |-> FALSE]

\* dupredirect(n, f): n>&m dup2()s m onto n (EBADF when m is closed:
\* sh_error), n>&- closes n; an opened file is dup2()ed onto n and closed.
DupRedirect(t, n, f) ==
  CASE n.op # "file" /\ f >= 0 ->
         IF t[f] = Closed THEN [t |-> t, err |-> TRUE]
         ELSE [t |-> [t EXCEPT ![n.fd] = t[f]], err |-> FALSE]
    [] n.op # "file" -> [t |-> [t EXCEPT ![n.fd] = Closed], err |-> FALSE]
    [] OTHER -> [t |-> [t EXCEPT ![n.fd] = t[f], ![f] = Closed], err |-> FALSE]

\* The body of redirect()'s loop for one node, with REDIR_PUSH: st is the
\* descriptor table, the renamed[] of the new redirtab, and whether an
\* error has been raised (which ends the loop).  `fails`: the file cannot
\* be opened (openredirect() raises).
RedirectOne(st, n, fails) ==
  LET newfd == OpenRedirect(st.t, n)
      t0    == IF n.op = "file" THEN [st.t EXCEPT ![newfd] = Opened] ELSE st.t
      i0    == st.r[n.fd]
      moved == i0 = EMPTY /\ n.fd # newfd
      save  == SaveFd(t0, n.fd)
      i1    == IF i0 # EMPTY THEN i0 ELSE IF moved THEN save.newfd ELSE CLOSED
      r1    == [st.r EXCEPT ![n.fd] = IF i1 = newfd THEN REALLY_CLOSED ELSE i1]
      t1    == IF moved THEN save.t ELSE t0
      fd    == IF moved THEN -1 ELSE n.fd
      dup   == DupRedirect(t1, n, newfd)
  IN CASE st.err                -> st
       [] fails /\ n.op = "file" -> [st EXCEPT !.err = TRUE]
       [] newfd < -1            -> st
       [] moved /\ save.err     -> [st EXCEPT !.t = save.t, !.err = TRUE]
       [] fd = newfd            -> [t |-> t1, r |-> r1, err |-> FALSE]
       [] OTHER                 -> [t |-> dup.t, r |-> r1, err |-> dup.err]

\* redirect(list, REDIR_PUSH) on table t into a fresh redirtab (pushredir()
\* fills renamed[] with EMPTY); the open of node `fail` fails (0: none).
Redirect(t, list, fail) ==
  SeqX!FoldLeftDomain(LAMBDA st, k : RedirectOne(st, list[k], k = fail),
                      [t |-> t, r |-> [u \in UserFds |-> EMPTY], err |-> FALSE],
                      list)

\* mutant: a descriptor that was closed before is left open
PopTableNoClose(t, rp, drop) ==
  [d \in AllFds |->
     CASE d \in UserFds /\ ~drop /\ rp[d] \in SaveFds -> t[rp[d]]
       [] d \in SaveFds /\ \E u \in UserFds : rp[u] = d -> Closed
       [] OTHER -> t[d]]

\* popredir(drop) of redirtab rp on table t: unless dropping, put each
\* descriptor back (close it for CLOSED, dup2 the saved one); close the
\* saved descriptors either way.
PopTable(t, rp, drop) ==
  [d \in AllFds |->
     CASE d \in UserFds /\ ~drop /\ rp[d] = CLOSED -> Closed
       [] d \in UserFds /\ ~drop /\ rp[d] \in SaveFds -> t[rp[d]]
       [] d \in SaveFds /\ \E u \in UserFds : rp[u] = d -> Closed
       [] OTHER -> t[d]]

\* unwindredir(stop), stop being the redirtab at depth k of `stack`, on
\* table t: popredir(0) until only the first k remain.
UnwindTable(t, stack, k) ==
  SeqX!FoldLeft(LAMBDA tt, rp : PopTable(tt, rp, FALSE), t,
                SeqX!Reverse(SubSeq(stack, k + 1, Len(stack))))

-----------------------------------------------------------------------------
(* Refinement mapping to RedirStack: the descriptors a script names, and   *)
(* for each redirtab what its renamed[] will give back: the value saved in *)
(* a descriptor >= 10, or Closed for CLOSED and REALLY_CLOSED (the          *)
(* descriptor was closed before).  EMPTY entries are not part of the frame.*)
(* Traps instantiates RedirStack with these and its redirection lists.     *)

FdValues == {Closed, Opened} \cup {InitFiles[u] : u \in UserFds}

AbsFrame(rp) ==
  [d \in {u \in UserFds : rp[u] # EMPTY} |->
     IF rp[d] \in SaveFds THEN fdtab[rp[d]] ELSE Closed]
====
