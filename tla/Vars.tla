-------------------------------- MODULE Vars --------------------------------
(***************************************************************************)
(* dash's variable store, local-variable frames and function table         *)
(* (src/mk/mkdash.c: setvar/setvareq 11721-11806, exportcmd, localcmd,    *)
(* mklocal, poplocalvars, pushlocalvars, unwindlocalvars, unsetcmd        *)
(* 11881-12040; evalcommand's assignments 2764-2906; evalfun 2941-2977;   *)
(* defun/unsetfunc 3483-3537; freefunc 12923).                            *)
(*                                                                         *)
(* One step is one simple command run to its end.  The C functions are    *)
(* operators from a store record to the next store record, so a step      *)
(* composes them in the order evalcommand calls them.  Texts, struct var   *)
(* live in the blocks of Heap; a freed block may be handed out again.     *)
(* struct localvar blocks are only linked and freed, never compared, so  *)
(* they are counted: nlv allocated, lostlv left unlinked.                *)
(* NoAddr is text outside the heap (the environment,                     *)
(* the command's own argument on the stack).                              *)
(***************************************************************************)
EXTENDS Integers, Sequences, FiniteSets

CONSTANTS Names,      \* variable names
          Vals,       \* values
          Opts,       \* settings of optlist
          NoVal,      \* the value of a text "name" without '='
          NoEq,       \* an argument without '='
          Absent,     \* no struct var for the name
          InitVal,    \* Names -> Vals \cup {NoVal}: the environment
          Heap,       \* bound: the heap blocks (model values)
          NoAddr,     \* the address of a text outside the heap
          MaxLocals,  \* bound: localvar records per frame
          MaxLvps,    \* bound: struct localvar blocks
          MaxDepth,   \* bound: nested function calls and `command eval`s
          FuncIds,    \* bound: funcnode blocks (model values)
          NoFunc      \* no function

ASSUME InitVal \in [Names -> Vals \cup {NoVal}]

VEXPORT == "export"
VREADONLY == "readonly"
VSTRFIXED == "strfixed"
VTEXTFIXED == "textfixed"
VUNSET == "unset"
VNOSAVE == "nosave"
\* The flags setvareq() compares with VUNSET.
Mask == {VEXPORT, VREADONLY, VSTRFIXED, VUNSET}

OptKey == "-"
Text == [a : Heap \cup {NoAddr}, v : Vals \cup {NoVal} \cup Opts]
NoText == [a |-> NoAddr, v |-> NoVal]

(***************************************************************************)
(* The store: vt the hash table (one struct var per name or Absent), lv    *)
(* localvar_stack (frames, innermost last; a frame lists its records in   *)
(* the order mklocal made them), heap the allocated blocks, opts optlist. *)
(* Which free block malloc returns does not matter to what follows, so   *)
(* NewAddr picks any, and the addresses are symmetric.                   *)
(* bad records a free of an unallocated block or a use of a struct var    *)
(* through a stale pointer; full that malloc found no block (the bound);   *)
(* stranded the blocks a failing mklocal left without an owner; err that   *)
(* sh_error was raised.                                                    *)
(***************************************************************************)
NewAddr(s) == IF Heap \subseteq s.heap THEN NoAddr ELSE CHOOSE a \in Heap \ s.heap : TRUE

\* ckmalloc
Malloc(s, a) == IF a = NoAddr THEN [s EXCEPT !.full = TRUE] ELSE [s EXCEPT !.heap = @ \cup {a}]

\* ckfree
Free(s, a) == IF a \in s.heap THEN [s EXCEPT !.heap = @ \ {a}] ELSE [s EXCEPT !.bad = TRUE]

\* vp->text = s; vp->flags = flags, copying s by savestr() unless it is owned.
\* (The VNOSAVE bit that setvar() passes is never read back from vp->flags.)
Store(s, n, a, t, fl) ==
    IF fl \cap {VTEXTFIXED, VNOSAVE} = {}
    THEN LET c == NewAddr(s)
         IN  [Malloc(s, c) EXCEPT !.vt[n] = [a |-> a, text |-> [t EXCEPT !.a = c], flags |-> fl]]
    ELSE [s EXCEPT !.vt[n] = [a |-> a, text |-> t, flags |-> fl \ {VNOSAVE}]]

\* out_free: the text is freed when the caller handed it over.
FreeIfOwned(s, t, fl) == IF fl \cap {VTEXTFIXED, VNOSAVE} = {VNOSAVE} THEN Free(s, t.a) ELSE s

setvareq(s, n, t, fl) ==
    LET vp == s.vt[n] IN
    IF vp # Absent
    THEN IF VREADONLY \in vp.flags
         THEN [(IF VNOSAVE \in fl THEN Free(s, t.a) ELSE s) EXCEPT !.err = TRUE]
         ELSE LET s1 == IF VTEXTFIXED \in vp.flags THEN s ELSE Free(s, vp.text.a)
              IN  IF (fl \cap Mask) \cup (vp.flags \cap {VSTRFIXED}) = {VUNSET}
                  THEN FreeIfOwned([Free(s1, vp.a) EXCEPT !.vt[n] = Absent], t, fl)
                  ELSE Store(s1, n, vp.a, t, fl \cup (vp.flags \ {VTEXTFIXED, VNOSAVE, VUNSET}))
    ELSE IF fl \cap Mask = {VUNSET}
         THEN FreeIfOwned(s, t, fl)
         ELSE LET a == NewAddr(s) IN Store(Malloc(s, a), n, a, t, fl)

\* setvar(name, val, flags): the text "name=val" (or "name") is malloc'd here
\* and handed to setvareq with VNOSAVE.
setvar(s, n, v, fl) ==
    LET a == NewAddr(s)
    IN  setvareq(Malloc(s, a), n, [a |-> a, v |-> v],
                 fl \cup {VNOSAVE} \cup (IF v = NoVal THEN {VUNSET} ELSE {}))

unsetvar(s, n) == setvar(s, n, NoVal, {})

\* mklocal(name): k is a name or "-", v the value after '=' or NoEq.  The
\* record is linked into the top frame only after setvareq() returned.
mklocal(s, k, v) ==
    LET s0 == IF s.nlv = MaxLvps THEN [s EXCEPT !.full = TRUE] ELSE [s EXCEPT !.nlv = @ + 1]
        vp == IF k = OptKey THEN Absent ELSE s0.vt[k]
        r  == IF k = OptKey
              THEN LET p == NewAddr(s0) IN
                   [st |-> Malloc(s0, p), text |-> [a |-> p, v |-> s0.opts], flags |-> {}]
              ELSE IF vp = Absent
              THEN [st |-> IF v = NoEq THEN setvar(s0, k, NoVal, {VSTRFIXED})
                           ELSE setvareq(s0, k, [a |-> NoAddr, v |-> v], {VSTRFIXED}),
                    text |-> NoText, flags |-> {VUNSET}]
              ELSE LET s1 == [s0 EXCEPT !.vt[k].flags = @ \cup {VSTRFIXED, VTEXTFIXED}]
                   IN [st |-> IF v = NoEq THEN s1 ELSE setvareq(s1, k, [a |-> NoAddr, v |-> v], {}),
                       text |-> vp.text, flags |-> vp.flags]
        lvp == [k |-> k, text |-> r.text, flags |-> r.flags,
                vpa |-> IF k = OptKey THEN NoAddr ELSE r.st.vt[k].a]
    IN  IF r.st.err
        THEN [r.st EXCEPT !.lostlv = @ + 1, !.stranded = @ \cup
                   (IF vp # Absent /\ VTEXTFIXED \notin vp.flags THEN {vp.text.a} ELSE {})]
        ELSE [r.st EXCEPT !.lv[Len(r.st.lv)] = Append(@, lvp)]

\* Mutant: poplocalvars() forgets ckfree(lvp).
FreeLvpLeak(s) == s

\* ckfree(lvp)
FreeLvp(s) == IF s.nlv = 0 THEN [s EXCEPT !.bad = TRUE] ELSE [s EXCEPT !.nlv = @ - 1]

\* One record of poplocalvars(keep).  A record whose struct var is no
\* longer the one in the table is a use of freed memory.
PopOne(s, lvp, keep) ==
    LET k == lvp.k
        vp == IF k = OptKey THEN Absent ELSE s.vt[k]
    IN
    IF k # OptKey /\ (vp = Absent \/ vp.a # lvp.vpa)
    THEN FreeLvp([s EXCEPT !.bad = TRUE])
    ELSE LET s1 ==
      IF keep
      THEN LET same == lvp.flags # {VUNSET} /\ vp.text = lvp.text
               bits == {VSTRFIXED} \cup (IF same THEN {VTEXTFIXED} ELSE {})
               sf == IF lvp.flags # {VUNSET} /\ ~same /\ VTEXTFIXED \notin lvp.flags
                     THEN Free(s, lvp.text.a) ELSE s
               nf == (vp.flags \ bits) \cup (lvp.flags \cap bits)
               s2 == [sf EXCEPT !.vt[k].flags = nf]
           IN  IF nf \cap Mask = {VUNSET} THEN unsetvar(s2, k) ELSE s2
      ELSE IF k = OptKey
      THEN [Free(s, lvp.text.a) EXCEPT !.opts = lvp.text.v]
      ELSE IF lvp.flags = {VUNSET}
      THEN unsetvar([s EXCEPT !.vt[k].flags = @ \ {VSTRFIXED, VREADONLY}], k)
      ELSE [(IF VTEXTFIXED \in vp.flags THEN s ELSE Free(s, vp.text.a))
              EXCEPT !.vt[k] = [@ EXCEPT !.flags = lvp.flags, !.text = lvp.text]]
    IN FreeLvp(s1)

\* poplocalvars(keep): the top frame's records, newest first.
RECURSIVE PopRecords(_, _, _)
PopRecords(s, f, keep) ==
    IF f = <<>> THEN s
    ELSE PopRecords(PopOne(s, f[Len(f)], keep), SubSeq(f, 1, Len(f) - 1), keep)

poplocalvars(s, keep) ==
    PopRecords([s EXCEPT !.lv = SubSeq(@, 1, Len(@) - 1)], s.lv[Len(s.lv)], keep)

pushlocalvars(s) == [s EXCEPT !.lv = Append(@, <<>>)]

RECURSIVE unwindlocalvars(_, _)
unwindlocalvars(s, stop) ==
    IF Len(s.lv) <= stop THEN s ELSE unwindlocalvars(poplocalvars(s, FALSE), stop)

(***************************************************************************)
(* The function table: tab the funcnode of the one function name f (NoFunc *)
(* when undefined), fcount each funcnode's count, flive the allocated ones.*)
(***************************************************************************)
\* Mutant: the funcnode is freed when its count reaches 0.
freefuncAtZero(s, id) ==
    IF id = NoFunc THEN s
    ELSE IF id \notin s.flive THEN [s EXCEPT !.bad = TRUE]
    ELSE IF s.fcount[id] - 1 <= 0
    THEN [s EXCEPT !.fcount[id] = -1, !.flive = @ \ {id}]
    ELSE [s EXCEPT !.fcount[id] = @ - 1]

\* freefunc(f): if (f && --f->count < 0) ckfree(f)
freefunc(s, id) ==
    IF id = NoFunc THEN s
    ELSE IF id \notin s.flive THEN [s EXCEPT !.bad = TRUE]
    ELSE IF s.fcount[id] - 1 < 0
    THEN [s EXCEPT !.fcount[id] = -1, !.flive = @ \ {id}]
    ELSE [s EXCEPT !.fcount[id] = @ - 1]

\* defun: copyfunc() mallocs a funcnode with count 0; addcmdentry() frees
\* the function the name had.
defun(s, id) ==
    LET s1 == [s EXCEPT !.flive = @ \cup {id}, !.fcount[id] = 0]
    IN  [freefunc(s1, s.tab) EXCEPT !.tab = id]

\* unsetfunc -> delete_cmd_entry -> freefunc
unsetfunc(s) == IF s.tab = NoFunc THEN s ELSE [freefunc(s, s.tab) EXCEPT !.tab = NoFunc]

VARIABLES vartab, localvars, heap, nlv, lostlv, bad, stranded, optlist,
          tab, fcount, flive,
          calls,   \* the function calls and `command eval`s being run, innermost last
          last     \* the command of the last step, for the refinement below

vars == <<vartab, localvars, heap, nlv, lostlv, bad, stranded, optlist, tab, fcount, flive, calls, last>>

S == [vt |-> vartab, lv |-> localvars, heap |-> heap, nlv |-> nlv, lostlv |-> lostlv,
      bad |-> bad, full |-> FALSE,
      stranded |-> stranded, opts |-> optlist, err |-> FALSE,
      tab |-> tab, fcount |-> fcount, flive |-> flive]

Commit(r) ==
    /\ ~r.full
    /\ vartab' = r.vt
    /\ localvars' = r.lv
    /\ heap' = r.heap
    /\ nlv' = r.nlv
    /\ lostlv' = r.lostlv
    /\ bad' = r.bad
    /\ stranded' = r.stranded
    /\ optlist' = r.opts
    /\ tab' = r.tab
    /\ fcount' = r.fcount
    /\ flive' = r.flive

Cmd(op, k, v, ok) == [op |-> op, k |-> k, v |-> v, ok |-> ok]

(***************************************************************************)
(* An error longjmps to the innermost handler that does not re-raise it:   *)
(* evalbltin() of a `command eval` (a regular builtin, so evalcommand goes  *)
(* on to out: and unwinds to its localvar_stop), or main's reset, which    *)
(* runs unwindlocalvars(0).  On the way, the handler of every evalfun()    *)
(* it passes frees the funcnode, without popping the function's frame.     *)
(***************************************************************************)
Catcher == LET ks == {i \in DOMAIN calls : calls[i].kind = "eval"}
           IN  IF ks = {} THEN 0 ELSE CHOOSE i \in ks : \A j \in ks : j <= i

RECURSIVE FreeCalls(_, _)
FreeCalls(s, cs) == IF cs = <<>> THEN s
                    ELSE FreeCalls(freefunc(s, cs[Len(cs)].node), SubSeq(cs, 1, Len(cs) - 1))

Raise(r, c) ==
    LET k == Catcher
        stop == IF k = 0 THEN 0 ELSE calls[k].stop
        r1 == FreeCalls(r, SubSeq(calls, k + 1, Len(calls)))
    IN  /\ Commit(unwindlocalvars(r1, stop))
        /\ calls' = SubSeq(calls, 1, k - 1)
        /\ last' = c

\* The end of a command: a raised error goes to Raise.
Done(r, c, cs) ==
    IF r.err THEN Raise([r EXCEPT !.err = FALSE], [c EXCEPT !.ok = FALSE])
    ELSE Commit(r) /\ calls' = cs /\ last' = c

\* evalcommand's own frame, popped with keep = 1 before a special builtin.
SpecialBuiltin(s) == poplocalvars(pushlocalvars(s), TRUE)

\* The environment's variables: setvareq(env, VEXPORT|VTEXTFIXED) in initvar.
EnvAddr == CHOOSE ea \in [Names -> Heap] : \A m, n \in Names : m # n => ea[m] # ea[n]
EnvNames == {n \in Names : InitVal[n] # NoVal}

Init ==
    /\ vartab = [n \in Names |-> IF n \in EnvNames
                  THEN [a |-> EnvAddr[n], text |-> [a |-> NoAddr, v |-> InitVal[n]], flags |-> {VEXPORT, VTEXTFIXED}]
                  ELSE Absent]
    /\ localvars = <<>>
    /\ heap = {EnvAddr[n] : n \in EnvNames}
    /\ nlv = 0
    /\ lostlv = 0
    /\ bad = FALSE
    /\ stranded = {}
    /\ optlist \in Opts
    /\ tab = NoFunc
    /\ fcount = [i \in FuncIds |-> -1]
    /\ flive = {}
    /\ calls = <<>>
    /\ last = Cmd("none", NoEq, NoEq, TRUE)

(***************************************************************************)
(* The commands.  evalcommand pushes its own frame (2764) and mklocal()s    *)
(* each assignment in front of the command into it (2795-2804).  For an    *)
(* assignment alone or a special builtin it pops that frame with keep = 1  *)
(* (2876-2880); for a function too (2897); otherwise the frame is popped   *)
(* with keep = 0 at out: (2906), undoing the assignments.                  *)
(***************************************************************************)
Prefixed(n, v) == IF v = NoEq THEN pushlocalvars(S) ELSE mklocal(pushlocalvars(S), n, v)

\* Mutant: an assignment alone pops its frame with keep = 0.
AssignCmdRestores(n, v) ==
    LET mk == Prefixed(n, v)
    IN  Done(IF mk.err THEN mk ELSE poplocalvars(mk, FALSE), Cmd("assign", n, v, TRUE), calls)

\* `n=v`
AssignCmd(n, v) ==
    LET mk == Prefixed(n, v)
    IN  Done(IF mk.err THEN mk ELSE poplocalvars(mk, TRUE), Cmd("assign", n, v, TRUE), calls)

\* `n=v true`: a regular builtin.
PrefixCmd(n, v) ==
    LET mk == Prefixed(n, v)
    IN  Done(IF mk.err THEN mk ELSE unwindlocalvars(mk, Len(localvars)), Cmd("prefix", n, v, TRUE), calls)

\* `local k[=v]`: localcmd() into the frame on top after evalcommand's own.
LocalCmd(k, v) ==
    LET s0 == SpecialBuiltin(S)
    IN  /\ s0.lv # <<>> => Len(s0.lv[Len(s0.lv)]) < MaxLocals
        /\ Done(IF s0.lv = <<>> THEN [s0 EXCEPT !.err = TRUE] ELSE mklocal(s0, k, v),
                Cmd("local", k, v, TRUE), calls)

\* `export n[=v]`, `readonly n[=v]`: exportcmd().
ExportCmd(op, n, v) ==
    LET s0 == SpecialBuiltin(S)
        flag == IF op = "export" THEN VEXPORT ELSE VREADONLY
        r == IF v # NoEq THEN setvar(s0, n, v, {flag})
             ELSE IF s0.vt[n] # Absent THEN [s0 EXCEPT !.vt[n].flags = @ \cup {flag}]
             ELSE setvar(s0, n, NoVal, {flag})
    IN  Done(r, Cmd(op, n, v, TRUE), calls)

\* `unset n`, `unset -f f`: unsetcmd().
UnsetCmd(n) == Done(unsetvar(SpecialBuiltin(S), n), Cmd("unset", n, NoEq, TRUE), calls)

UnsetFCmd == Done(unsetfunc(SpecialBuiltin(S)), Cmd("unsetf", NoEq, NoEq, TRUE), calls)

\* `set -o ...`: setcmd() changes optlist.
SetOptCmd(o) == Done([SpecialBuiltin(S) EXCEPT !.opts = o], Cmd("setopt", OptKey, o, TRUE), calls)

\* `f() { ... }`: evaltree's NDEFUN calls defun().
DefunCmd ==
    \E id \in FuncIds \ flive :
        /\ id = CHOOSE j \in FuncIds \ flive : TRUE
        /\ Done(defun(S, id), Cmd("defun", NoEq, NoEq, TRUE), calls)

\* Mutant: the function is entered without popping evalcommand's frame.
CallCmdNoPop(n, v) ==
    LET mk == Prefixed(n, v)
        r == IF tab \in mk.flive THEN [mk EXCEPT !.fcount[tab] = @ + 1] ELSE [mk EXCEPT !.bad = TRUE]
    IN  /\ tab # NoFunc
        /\ Len(calls) < MaxDepth
        /\ IF mk.err THEN Done(mk, Cmd("call", n, v, TRUE), calls)
           ELSE Done(pushlocalvars(r), Cmd("call", n, v, TRUE),
                     Append(calls, [kind |-> "func", node |-> tab, stop |-> Len(localvars)]))

\* `[n=v] f` with f defined: poplocalvars(1), then evalfun() counts the
\* funcnode and pushes the function's frame.
CallCmd(n, v) ==
    LET mk == Prefixed(n, v)
        r == IF tab \in mk.flive THEN [mk EXCEPT !.fcount[tab] = @ + 1] ELSE [mk EXCEPT !.bad = TRUE]
    IN  /\ tab # NoFunc
        /\ Len(calls) < MaxDepth
        /\ IF mk.err THEN Done(mk, Cmd("call", n, v, TRUE), calls)
           ELSE Done(pushlocalvars(poplocalvars(r, TRUE)), Cmd("call", n, v, TRUE),
                     Append(calls, [kind |-> "func", node |-> tab, stop |-> Len(localvars)]))

\* `[n=v] f` with no function f: status 127, bail to out:.
NotFoundCmd(n, v) ==
    LET mk == Prefixed(n, v)
    IN  /\ tab = NoFunc
        /\ Done(IF mk.err THEN mk ELSE unwindlocalvars(mk, Len(localvars)), Cmd("notfound", n, v, TRUE), calls)

\* The function body ends (or runs `return`): evalfun pops the function's
\* frame and frees its hold on the funcnode; evalcommand then unwinds to
\* its localvar_stop.
FuncReturn ==
    /\ calls # <<>>
    /\ calls[Len(calls)].kind = "func"
    /\ LET c == calls[Len(calls)]
       IN Done(unwindlocalvars(freefunc(poplocalvars(S, FALSE), c.node), c.stop),
               Cmd("return", NoEq, NoEq, TRUE), SubSeq(calls, 1, Len(calls) - 1))

\* Mutant: localvar_stop taken one frame too low.
EvalEnterLowStop(n, v) ==
    LET mk == Prefixed(n, v)
    IN  /\ Len(calls) < MaxDepth
        /\ Done(mk, Cmd("enter", n, v, TRUE),
                Append(calls, [kind |-> "eval", node |-> NoFunc, stop |-> Len(localvars) - 1]))

\* `[n=v] command eval '...'`: a regular builtin; its frame stays pushed,
\* with the assignment in it, while the evaluated commands run.
EvalEnter(n, v) ==
    LET mk == Prefixed(n, v)
    IN  /\ Len(calls) < MaxDepth
        /\ Done(mk, Cmd("enter", n, v, TRUE),
                Append(calls, [kind |-> "eval", node |-> NoFunc, stop |-> Len(localvars)]))

\* The evaluated commands end: evalcommand's out: unwinds its frame.
EvalLeave ==
    /\ calls # <<>>
    /\ calls[Len(calls)].kind = "eval"
    /\ Done(unwindlocalvars(S, calls[Len(calls)].stop), Cmd("leave", NoEq, NoEq, TRUE),
            SubSeq(calls, 1, Len(calls) - 1))

\* A special builtin fails (`shift 5`): sh_error.
ErrorCmd == Done([SpecialBuiltin(S) EXCEPT !.err = TRUE], Cmd("error", NoEq, NoEq, TRUE), calls)

Next ==
    \/ \E n \in Names, v \in Vals : AssignCmd(n, v) \/ PrefixCmd(n, v)
    \/ \E n \in Names, v \in Vals \cup {NoEq} :
          LocalCmd(n, v) \/ CallCmd(n, v) \/ NotFoundCmd(n, v) \/ EvalEnter(n, v)
    \/ LocalCmd(OptKey, NoEq)
    \/ \E op \in {"export", "readonly"}, n \in Names, v \in Vals \cup {NoEq} : ExportCmd(op, n, v)
    \/ \E n \in Names : UnsetCmd(n)
    \/ UnsetFCmd
    \/ \E o \in Opts : SetOptCmd(o)
    \/ DefunCmd
    \/ FuncReturn
    \/ EvalLeave
    \/ ErrorCmd

Spec == Init /\ [][Next]_vars

-----------------------------------------------------------------------------
Flags == {VEXPORT, VREADONLY, VSTRFIXED, VTEXTFIXED, VUNSET}
Var == [a : Heap, text : Text, flags : SUBSET Flags]
Lvp == [k : Names \cup {OptKey}, text : Text, flags : SUBSET Flags, vpa : Heap \cup {NoAddr}]

TypeOK ==
    /\ vartab \in [Names -> Var \cup {Absent}]
    /\ localvars \in Seq(Seq(Lvp))
    /\ heap \subseteq Heap
    /\ nlv \in 0..MaxLvps
    /\ lostlv \in 0..MaxLvps
    /\ optlist \in Opts
    /\ tab \in FuncIds \cup {NoFunc}
    /\ flive \subseteq FuncIds
    /\ calls \in Seq([kind : {"func", "eval"}, node : FuncIds \cup {NoFunc}, stop : Nat])

RecordsIn(f) == {f[j] : j \in DOMAIN f}
AllRecords == UNION {RecordsIn(localvars[i]) : i \in DOMAIN localvars}

\* Every heap block the shell can reach: struct vars, their texts and the
\* texts that localvar records saved.
Reachable ==
    ({vartab[n].a : n \in {m \in Names : vartab[m] # Absent}}
     \cup {vartab[n].text.a : n \in {m \in Names : vartab[m] # Absent}}
     \cup {l.text.a : l \in AllRecords}) \ {NoAddr}

RECURSIVE SumLens(_)
SumLens(fs) == IF fs = <<>> THEN 0 ELSE Len(fs[1]) + SumLens(Tail(fs))

(***************************************************************************)
(* Heap ownership of setvareq/mklocal/poplocalvars: no block is freed      *)
(* twice and no struct var is used through a stale localvar pointer; every *)
(* block the shell can reach is allocated; and every allocated block is   *)
(* reachable, except the text a mklocal() that raised "is read only" has  *)
(* marked VTEXTFIXED; and every struct localvar is linked in a frame,     *)
(* except the ones such a mklocal() never linked.                          *)
(***************************************************************************)
HeapOwned ==
    /\ ~bad
    /\ Reachable \subseteq heap
    /\ heap \ Reachable \subseteq stranded
    /\ nlv = SumLens(localvars) + lostlv

(***************************************************************************)
(* The funcnode count of evalfun/defun/freefunc: a funcnode is allocated   *)
(* exactly while the table or a running call refers to it, and its count  *)
(* is the number of those references minus one.                            *)
(***************************************************************************)
Refs(id) == (IF tab = id THEN 1 ELSE 0) + Cardinality({i \in DOMAIN calls : calls[i].node = id})

FuncnodeRefcount ==
    /\ ~bad
    /\ \A id \in FuncIds : (id \in flive) = (Refs(id) > 0)
    /\ \A id \in flive : fcount[id] = Refs(id) - 1

(***************************************************************************)
(* Each running function and `command eval` owns exactly one frame of      *)
(* localvar_stack, at its depth: errors unwound through evalfun (which does *)
(* not pop) and returns leave no frame behind and pop none too many.       *)
(***************************************************************************)
FramesMatchCalls ==
    /\ Len(localvars) = Len(calls)
    /\ \A i \in DOMAIN calls : calls[i].stop = i - 1

(***************************************************************************)
(* Refinement: the store seen through the values a script can observe.    *)
(***************************************************************************)
AbsOf(e) ==
    IF e = Absent THEN [set |-> FALSE, v |-> NoVal, exp |-> FALSE, ro |-> FALSE]
    ELSE [set |-> VUNSET \notin e.flags,
          v |-> IF VUNSET \in e.flags THEN NoVal ELSE e.text.v,
          exp |-> VEXPORT \in e.flags,
          ro |-> VREADONLY \in e.flags]

Saved(l) ==
    IF l.k = OptKey THEN l.text.v
    ELSE IF l.flags = {VUNSET} THEN AbsOf(Absent)
    ELSE AbsOf([text |-> l.text, flags |-> l.flags])

\* A frame's value for k is the one its oldest record of k saved.
AbsFrame(f) ==
    [k \in {f[j].k : j \in DOMAIN f} |->
        Saved(f[CHOOSE j \in DOMAIN f : f[j].k = k /\ \A i \in 1..j - 1 : f[i].k # k])]

Abs == INSTANCE VarScopes WITH
    vals <- [k \in Names \cup {OptKey} |-> IF k = OptKey THEN optlist ELSE AbsOf(vartab[k])],
    frames <- [i \in DOMAIN localvars |-> AbsFrame(localvars[i])],
    last <- last

VarScopesRefined == Abs!Spec

=============================================================================
