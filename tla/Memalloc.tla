------------------------------ MODULE Memalloc ------------------------------
(***************************************************************************)
(* The shell's stack allocator (src/mk/mkdash.c, "memalloc"): a chain of   *)
(* malloc'd stack_blocks, the globals stackp / stacknxt / stacknleft /     *)
(* sstrend, the marks callers keep in struct stackmark, and the growing    *)
(* "stack string" built at stackblock() by STPUTC / makestrspace.          *)
(*                                                                         *)
(* A pointer is a record [b |-> block address, o |-> offset in its space]. *)
(* Block address 0 is stackbase (static, never freed); the others come     *)
(* from malloc, which here hands out the lowest free address, so an       *)
(* address freed by popstackmark or moved away by realloc is reused at     *)
(* once.  Sizes are in bytes of a scaled-down machine: MINSIZE stands for  *)
(* SHELL_ALIGN(504), ALIGN for SHELL_SIZE + 1, GROWMIN for the 128 of      *)
(* growstackblock.                                                         *)
(*                                                                         *)
(* Besides the allocator's own state the module keeps what its callers     *)
(* hold: the marks (a sequence, innermost last), the objects stalloc has   *)
(* returned and that are still in use (each with the place w its bytes    *)
(* were written to, the mark depth it was allocated at and an "ok" flag   *)
(* that drops when its block is freed or moved), the stack string in progress and the object the last step      *)
(* returned (for stunalloc).                                               *)
(***************************************************************************)
EXTENDS Integers, SequencesExt, FiniteSets

CONSTANTS
  MINSIZE,   \* space of stackbase and least space of a malloc'd block
  ALIGN,     \* SHELL_ALIGN rounds up to a multiple of this
  GROWMIN,   \* growstackblock adds this when doubling gives less
  Addrs,     \* addresses malloc may return (a finite set of positive integers)
  MaxBlock,  \* bound: no block grows beyond this many bytes
  MaxReq,    \* bound: largest stalloc / padvance / makestrspace request
  MaxObjs,   \* bound: objects held by callers at once
  MaxMarks   \* bound: nesting depth of marks

Base == 0
Ptr == [b : Addrs \cup {Base}, o : 0..MaxBlock]
NoObj == [p |-> [b |-> Base, o |-> 0], w |-> [b |-> Base, o |-> 0],
          n |-> 0, d |-> 0, ok |-> FALSE]

VARIABLES
  stackp, stacknxt, stacknleft, sstrend,  \* the allocator's globals
  size,     \* size[a]: bytes of space of block a, 0 when a is not allocated
  prev,     \* prev[a]: the stack_block.prev link
  marks,    \* struct stackmark of every caller that holds one, innermost last
  objs,     \* stalloc'd objects still in use
  str,      \* the stack string: st \in {off, on, parked}, n = p - stackblock(),
            \* at = where it was written, k = the mark it is parked under
  last,     \* the object returned by the last step, or NoObj
  crash     \* a NULL dereference or pointer arithmetic across blocks

vars == <<stackp, stacknxt, stacknleft, sstrend, size, prev, marks, objs, str, last, crash>>

(* The whole state as one record, so the allocator's routines can be      *)
(* written as functions from state to state and composed as in the code. *)
H == [stackp |-> stackp, stacknxt |-> stacknxt, stacknleft |-> stacknleft,
      sstrend |-> sstrend, size |-> size, prev |-> prev, marks |-> marks,
      objs |-> objs, crash |-> crash, bound |-> FALSE]

Set(h) ==
  /\ ~h.bound
  /\ stackp' = h.stackp
  /\ stacknxt' = h.stacknxt
  /\ stacknleft' = h.stacknleft
  /\ sstrend' = h.sstrend
  /\ size' = h.size
  /\ prev' = h.prev
  /\ marks' = h.marks
  /\ objs' = h.objs
  /\ crash' = h.crash

\* SHELL_ALIGN
ShellAlign(n) == ((n + ALIGN - 1) \div ALIGN) * ALIGN
Larger(a, b) == IF a >= b THEN a ELSE b
At(p, k) == [b |-> p.b, o |-> p.o + k]

(* malloc: the lowest free address; running out of addresses or growing *)
(* past MaxBlock ends the exploration of that path (h.bound).           *)
Malloc(h, len) ==
  LET free == {a \in Addrs : h.size[a] = 0}
      a == CHOOSE x \in free : \A y \in free : x <= y
  IN IF free = {} \/ len > MaxBlock THEN [h EXCEPT !.bound = TRUE]
     ELSE [h EXCEPT !.size[a] = len, !.stackp = a]

(* free (ckfree) of block a: what still points into it dangles.          *)
Free(h, a) ==
  [h EXCEPT !.size[a] = 0,
            !.objs = {[x EXCEPT !.ok = x.ok /\ x.p.b # a] : x \in @},
            !.marks = [i \in DOMAIN h.marks |->
                         [h.marks[i] EXCEPT !.ok = @ /\ h.marks[i].stackp # a]]]

(* stalloc, the new-block part: when the request does not fit what is   *)
(* left, push a new block of at least MINSIZE bytes.                     *)
StallocBlock(h, nbytes) ==
  LET aligned == ShellAlign(nbytes)
      blocksize == Larger(aligned, MINSIZE)
      g == Malloc(h, blocksize)
  IN IF aligned <= h.stacknleft THEN h
     ELSE [g EXCEPT !.prev[g.stackp] = h.stackp,
                    !.stacknxt = [b |-> g.stackp, o |-> 0],
                    !.stacknleft = blocksize,
                    !.sstrend = [b |-> g.stackp, o |-> blocksize]]

\* mutant: stacknleft loses the request, not its aligned size
stallocUnaligned(h, nbytes) ==
  LET g == StallocBlock(h, nbytes)
  IN [g EXCEPT !.stacknxt = At(@, ShellAlign(nbytes)),
               !.stacknleft = @ - nbytes]

\* stalloc: the pointer returned, and the state after it
StallocPtr(h, nbytes) == StallocBlock(h, nbytes).stacknxt
stalloc(h, nbytes) ==
  LET g == StallocBlock(h, nbytes)
  IN [g EXCEPT !.stacknxt = At(@, ShellAlign(nbytes)),
               !.stacknleft = @ - ShellAlign(nbytes)]

\* stunalloc: give back everything from p on (p must be in the top block)
stunalloc(h, p) ==
  IF p.b # h.stackp \/ p.o > h.stacknxt.o
  THEN [h EXCEPT !.crash = TRUE]
  ELSE [h EXCEPT !.stacknleft = @ + (h.stacknxt.o - p.o), !.stacknxt = p]

\* pushstackmark: record the top and grab len bytes above it
MarkOf(h) == [stackp |-> h.stackp, stacknxt |-> h.stacknxt,
              stacknleft |-> h.stacknleft, ok |-> TRUE]
pushstackmark(h, len) ==
  stalloc([h EXCEPT !.marks = Append(@, MarkOf(h))], len)

\* mutant: no grab at the start of a block
setstackmarkNoGrab(h) == pushstackmark(h, 0)

\* setstackmark: grab one byte when the top is the start of a malloc'd block
SetMarkGrab(h) == IF h.stacknxt.o = 0 /\ h.stackp # Base THEN 1 ELSE 0
setstackmark(h) == pushstackmark(h, SetMarkGrab(h))

(* popstackmark: free blocks until stackp equals the mark's; a mark      *)
(* whose block is no longer in the chain runs stackp to stackbase.prev   *)
(* (NULL) and dereferences it.                                            *)
RECURSIVE FreeTo(_, _)
FreeTo(h, a) ==
  IF h.stackp = a THEN h
  ELSE IF h.stackp = Base THEN [h EXCEPT !.crash = TRUE]
  ELSE FreeTo(Free([h EXCEPT !.stackp = h.prev[h.stackp]], h.stackp), a)

popstackmark(h, m) ==
  LET g == FreeTo(h, m.stackp)
  IN IF g.crash THEN g
     ELSE [g EXCEPT !.stacknxt = m.stacknxt,
                    !.stacknleft = m.stacknleft,
                    !.sstrend = At(m.stacknxt, m.stacknleft)]

(* growstackblock: double what is left (plus GROWMIN when that is small);*)
(* realloc the top block when the top is its start, else stalloc a new  *)
(* area, copy what was left into it and hand it back as free space.      *)
GrowLen(h) ==
  IF 2 * h.stacknleft < GROWMIN THEN 2 * h.stacknleft + GROWMIN
  ELSE 2 * h.stacknleft

growstackblock(h) ==
  LET newlen == GrowLen(h)
      old == h.stackp
      r == Free(Malloc(h, newlen), old)   \* realloc that moves the block
      g == stalloc(h, newlen)
  IN IF h.stacknxt.o = 0 /\ h.stackp # Base
     THEN [r EXCEPT !.prev[r.stackp] = h.prev[old],
                    !.stacknxt = [b |-> r.stackp, o |-> 0],
                    !.stacknleft = newlen,
                    !.sstrend = [b |-> r.stackp, o |-> newlen]]
     ELSE [g EXCEPT !.stacknxt = StallocPtr(h, newlen),
                    !.stacknleft = @ + newlen]

\* makestrspace: grow until newlen bytes fit after the len bytes in use
RECURSIVE makestrspace(_, _, _)
makestrspace(h, newlen, len) ==
  IF h.bound \/ h.stacknleft - len >= newlen THEN h
  ELSE makestrspace(growstackblock(h), newlen, len)

(* padvance: grow until len bytes fit, write the path at stackblock()    *)
(* and return stalloc(len).                                                *)
RECURSIVE GrowTo(_, _)
GrowTo(h, len) ==
  IF h.bound \/ h.stacknleft >= len THEN h ELSE GrowTo(growstackblock(h), len)

-----------------------------------------------------------------------------
(* The callers' steps.  Each runs one routine of the allocator the way     *)
(* the code's callers use it; the names say which caller.                 *)

Depth == Len(marks)
NewObj(p, w, n) == [p |-> p, w |-> w, n |-> n, d |-> Depth, ok |-> TRUE]
Room == Cardinality(objs) < MaxObjs

Init ==
  /\ stackp = Base
  /\ stacknxt = [b |-> Base, o |-> 0]
  /\ stacknleft = MINSIZE
  /\ sstrend = [b |-> Base, o |-> MINSIZE]
  /\ size = [a \in Addrs \cup {Base} |-> IF a = Base THEN MINSIZE ELSE 0]
  /\ prev = [a \in Addrs |-> Base]
  /\ marks = <<>>
  /\ objs = {}
  /\ str = [st |-> "off", n |-> 0, at |-> [b |-> Base, o |-> 0], k |-> 0]
  /\ last = NoObj
  /\ crash = FALSE

(* stalloc(n) by a caller that keeps the object (yylex's variable names,  *)
(* savestr-free copies in expansion).                                     *)
Stalloc(n) ==
  LET x == NewObj(StallocPtr(H, n), StallocPtr(H, n), n)
  IN /\ str.st # "on"
     /\ Room
     /\ Set([stalloc(H, n) EXCEPT !.objs = @ \cup {x}])
     /\ last' = x
     /\ UNCHANGED str

(* padvance(path, name): grow until len bytes fit, write the path at      *)
(* stackblock(), return stalloc(len).                                     *)
Padvance(len) ==
  LET g == GrowTo(H, len)
      x == NewObj(StallocPtr(g, len), g.stacknxt, len)
  IN /\ str.st # "on"
     /\ Room
     /\ Set([stalloc(g, len) EXCEPT !.objs = @ \cup {x}])
     /\ last' = x
     /\ UNCHANGED str

(* stunalloc of what the previous step returned (find_command and        *)
(* find_dot_file after padvance, 3090/3204 after a stalloc).             *)
Stunalloc ==
  /\ last # NoObj
  /\ Set([stunalloc(H, last.p) EXCEPT !.objs = @ \ {last}])
  /\ last' = NoObj
  /\ UNCHANGED str

SetStackMark ==
  /\ str.st # "on"
  /\ Depth < MaxMarks
  /\ Set(setstackmark(H))
  /\ last' = NoObj
  /\ UNCHANGED str

(* popstackmark(&smark) of the innermost mark by the caller that set it, *)
(* which then returns (evalfor, evalcase, evalcommand, casematch,        *)
(* chkmail, cmdloop's iteration).                                         *)
PopStackMark ==
  /\ Depth > 0
  /\ str.st = "off" \/ (str.st = "parked" /\ str.k < Depth)
  /\ Set([popstackmark(H, marks[Depth]) EXCEPT !.objs = {x \in @ : x.d < Depth},
                                                !.marks = Front(@)])
  /\ last' = NoObj
  /\ UNCHANGED str

(* evalstring keeps its mark across popstackmark: it pops once per       *)
(* command it has run and parses the next one under the same mark.       *)
PopStackMarkKeep ==
  /\ Depth > 0
  /\ str.st = "off" \/ (str.st = "parked" /\ str.k < Depth)
  /\ Set([popstackmark(H, marks[Depth]) EXCEPT !.objs = {x \in @ : x.d < Depth}])
  /\ last' = NoObj
  /\ UNCHANGED str

(* The caller of the innermost mark returns without popping it (evalstring *)
(* after parsecmd returns NEOF): what it allocated joins the outer region. *)
DropMark ==
  /\ Depth > 0
  /\ str.st = "off" \/ (str.st = "parked" /\ str.k < Depth)
  /\ marks' = Front(marks)
  /\ objs' = {[x EXCEPT !.d = IF @ = Depth THEN Depth - 1 ELSE @] : x \in objs}
  /\ last' = NoObj
  /\ UNCHANGED <<stackp, stacknxt, stacknleft, sstrend, size, prev, str, crash>>

\* STARTSTACKSTR
StartStackStr ==
  /\ str.st = "off"
  /\ str' = [st |-> "on", n |-> 0, at |-> stacknxt, k |-> 0]
  /\ last' = NoObj
  /\ UNCHANGED <<stackp, stacknxt, stacknleft, sstrend, size, prev, marks, objs, crash>>

(* STPUTC: when p reaches sstrend, growstackstr() first; the string is   *)
(* copied to the new stackblock().                                       *)
StPutc ==
  LET h == IF At(stacknxt, str.n) = sstrend THEN growstackblock(H) ELSE H
  IN /\ str.st = "on"
     /\ Set(h)
     /\ str' = [str EXCEPT !.n = @ + 1, !.at = h.stacknxt]
     /\ last' = NoObj

(* stnputs(s, n, p): makestrspace when n bytes do not fit, then copy.    *)
Stnputs(n) ==
  LET h == IF n > sstrend.o - (stacknxt.o + str.n)
           THEN makestrspace(H, n, str.n) ELSE H
  IN /\ str.st = "on"
     /\ Set(h)
     /\ str' = [str EXCEPT !.n = @ + n, !.at = h.stacknxt]
     /\ last' = NoObj

(* grabstackstr(p): stalloc(p - stackblock()) makes the string an object; *)
(* every caller has put the terminating NUL before p, so it is not empty. *)
GrabStackStr ==
  LET x == NewObj(StallocPtr(H, str.n), str.at, str.n)
  IN /\ str.st = "on"
     /\ str.n >= 1
     /\ Room
     /\ Set([stalloc(H, str.n) EXCEPT !.objs = @ \cup {x}])
     /\ str' = [str EXCEPT !.st = "off"]
     /\ last' = NoObj

\* the string was scratch space (a prompt, a pathname tried) and is dropped
DropStackStr ==
  /\ str.st = "on"
  /\ str' = [str EXCEPT !.st = "off"]
  /\ last' = NoObj
  /\ UNCHANGED <<stackp, stacknxt, stacknleft, sstrend, size, prev, marks, objs, crash>>

(* expari / expbackq: pushstackmark(&sm, p - start) grabs the string,    *)
(* the arithmetic or command substitution allocates above it, and        *)
(* popstackmark(&sm) hands the string back as the string in progress.    *)
(* expari's string holds at least the CTLARI it searches back for.       *)
PushStackMarkStr ==
  LET h == pushstackmark(H, str.n)
      x == [NewObj(StallocPtr([H EXCEPT !.marks = Append(@, MarkOf(H))], str.n),
                   str.at, str.n) EXCEPT !.d = Depth + 1]
  IN /\ str.st = "on"
     /\ str.n >= 1
     /\ Depth < MaxMarks
     /\ Room
     /\ Set([h EXCEPT !.objs = @ \cup {x}])
     /\ str' = [str EXCEPT !.st = "parked", !.k = Depth + 1]
     /\ last' = NoObj

PopStackMarkStr ==
  LET h == popstackmark(H, marks[Depth])
  IN /\ str.st = "parked"
     /\ str.k = Depth
     /\ Set([h EXCEPT !.objs = {x \in @ : x.d < Depth}, !.marks = Front(@)])
     /\ str' = [str EXCEPT !.st = "on"]
     /\ last' = NoObj

Next ==
  \/ \E n \in 1..MaxReq : Stalloc(n)
  \/ \E n \in 1..MaxReq : Padvance(n)
  \/ Stunalloc
  \/ SetStackMark
  \/ PopStackMark
  \/ DropMark
  \/ StartStackStr
  \/ StPutc
  \/ \E n \in 1..MaxReq : Stnputs(n)
  \/ GrabStackStr
  \/ DropStackStr
  \/ PushStackMarkStr
  \/ PopStackMarkStr

Spec == Init /\ [][Next]_vars

(* With evalstring's loop: a mark popped and used again.                  *)
SpecReuse == Init /\ [][Next \/ PopStackMarkKeep]_vars

-----------------------------------------------------------------------------
TypeOK ==
  /\ stackp \in Addrs \cup {Base}
  /\ stacknxt \in Ptr
  /\ stacknleft \in 0..MaxBlock
  /\ size \in [Addrs \cup {Base} -> 0..MaxBlock]
  /\ marks \in Seq([stackp : Addrs \cup {Base}, stacknxt : Ptr,
                    stacknleft : 0..MaxBlock, ok : BOOLEAN])
  /\ crash \in BOOLEAN

(* The allocator's contract with its callers, through every sequence of  *)
(* stalloc, stunalloc, marks, pops and string growth: nothing is         *)
(* dereferenced at NULL; stacknxt / stacknleft / sstrend describe the    *)
(* free tail of the top block; every object in use lies in a block that  *)
(* was neither freed nor moved by realloc since it was returned, and     *)
(* below stacknxt when in the top block (so the next stalloc cannot hand *)
(* it out again); every mark a caller holds names a live block; and the  *)
(* string in progress is at stackblock() and within sstrend.            *)
AllocatorSafe ==
  /\ ~crash
  /\ stacknxt.b = stackp
  /\ stacknxt.o + stacknleft = size[stackp]
  /\ sstrend = At(stacknxt, stacknleft)
  /\ \A x \in objs :
       /\ x.ok
       /\ x.p.o + x.n <= size[x.p.b]
       /\ x.p.b = stackp => x.p.o + x.n <= stacknxt.o
  /\ \A i \in DOMAIN marks : marks[i].ok
  /\ str.st = "on" => str.at = stacknxt /\ str.n <= stacknleft

(* What a caller wrote at stackblock() is what stalloc then returns: the *)
(* path padvance built after its grow loop, the string grabstackstr and  *)
(* pushstackmark take over.  It needs stacknleft to stay a multiple of   *)
(* the alignment, or the stalloc that follows opens a new block.         *)
WrittenIsReturned == \A x \in objs : x.w = x.p

=============================================================================
