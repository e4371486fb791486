------------------------------- MODULE Input -------------------------------
(***************************************************************************)
(* dash's input stack and alias store (src/mk/mkdash.c).                  *)
(*                                                                         *)
(* The shell reads commands from a stack of input files (struct           *)
(* parsefile): the base file (the terminal or script) and one file per    *)
(* running `eval`, `.` or trap string (setinputstring/setinputfile push   *)
(* it, popfile pops it).  When the lexer reads a word that names an alias *)
(* (readtoken, 8797-8804), pushstring() pushes the alias value as a       *)
(* strpush frame on the current file and marks the alias ALIASINUSE, so   *)
(* it is not expanded inside itself; preadbuffer() pops the frame with    *)
(* popstring() once its text is read.  `alias n=v` (setalias) and         *)
(* `unalias` change the table while frames may still be reading the old  *)
(* value: setalias does not free the value of an alias in use, and        *)
(* freealias() only marks such an alias ALIASDEAD, leaving popstring() to *)
(* free it.                                                                *)
(*                                                                         *)
(* Every evalstring() or cmdloop() reading a file is a loop level; an     *)
(* error (sh_error, EXERROR) ends the levels above the handler that       *)
(* catches it.  evalbltin() catches it for a non-special builtin, so      *)
(* `command eval` catches an error of its string; main's handler runs     *)
(* reset(), which empties the current buffer and pops every file above    *)
(* the base one.                                                           *)
(*                                                                         *)
(* Data are abstracted: an alias value is the heap address savestr()      *)
(* returned (a member of Strs) and whether it is empty; a position in a   *)
(* buffer is whether text is left to read (parsenleft > 0).  `live` is    *)
(* the set of addresses malloc has handed out and not taken back.         *)
(***************************************************************************)
EXTENDS Naturals, Sequences, FiniteSets

CONSTANTS Names,        \* alias names
          Strs,         \* addresses a string from savestr() may get
          Null,         \* no address
          MaxFiles,     \* bound on the input files stacked by eval and .
          MaxPush,      \* bound on the alias frames of one file
          Interactive   \* iflag: main's handler resets instead of exiting

VARIABLES atab,    \* Names -> the alias table entry
          live,    \* addresses allocated and not freed
          files,   \* the parsefile stack, base first
          loops,   \* the evalstring()/cmdloop() levels: the builtin that began each
          status   \* "run" or "exited"

vars == <<atab, live, files, loops, status>>

Alias == [def : BOOLEAN, val : Strs \cup {Null}, empty : BOOLEAN,
          inuse : BOOLEAN, dead : BOOLEAN]
NoAlias == [def |-> FALSE, val |-> Null, empty |-> FALSE, inuse |-> FALSE, dead |-> FALSE]

\* A strpush frame: the alias read, its string, and whether the text it
\* interrupted had more to read (prevnleft > 0).
Frame == [ap : Names, string : Strs, prevmore : BOOLEAN]
\* A parsefile: its strpush chain, and whether the current buffer has text.
File == [strpush : Seq(Frame), more : BOOLEAN]

Top == files[Len(files)]
SetTop(f) == [files EXCEPT ![Len(files)] = f]

\* Every strpush frame of every file.
Frames == UNION {{files[i].strpush[j] : j \in DOMAIN files[i].strpush} : i \in DOMAIN files}

Running == status = "run"

(***************************************************************************)
(* The heap operations, on a record h = [tab, live] (and a file).          *)
(***************************************************************************)

\* freealias(): an alias in use is only marked dead; otherwise its name,
\* value and entry are freed.
freealias(h, n) ==
    IF h.tab[n].inuse
    THEN [h EXCEPT !.tab[n].dead = TRUE]
    ELSE [h EXCEPT !.tab[n] = NoAlias, !.live = @ \ {h.tab[n].val}]

\* (A popstring() that forgets the deferred unalias.)
popstringNoUnalias(h, f) ==
    LET sp == f.strpush[Len(f.strpush)]
        h1 == [h EXCEPT !.live = IF sp.string # h.tab[sp.ap].val THEN @ \ {sp.string} ELSE @,
                        !.tab[sp.ap].inuse = FALSE]
    IN  [h1 EXCEPT !.file = [strpush |-> SubSeq(f.strpush, 1, Len(f.strpush) - 1),
                            more |-> sp.prevmore]]

\* (A popstring() that unaliases whether or not unalias was asked for.)
popstringAlwaysFree(h, f) ==
    LET sp == f.strpush[Len(f.strpush)]
        h1 == [h EXCEPT !.live = IF sp.string # h.tab[sp.ap].val THEN @ \ {sp.string} ELSE @,
                        !.tab[sp.ap].inuse = FALSE]
    IN  [freealias(h1, sp.ap) EXCEPT !.file = [strpush |-> SubSeq(f.strpush, 1, Len(f.strpush) - 1),
                                              more |-> sp.prevmore]]

\* popstring() on file f: free the frame's string unless it is still the
\* alias value, clear ALIASINUSE, and finish a deferred unalias.
popstring(h, f) ==
    LET sp == f.strpush[Len(f.strpush)]
        h1 == [h EXCEPT !.live = IF sp.string # h.tab[sp.ap].val THEN @ \ {sp.string} ELSE @,
                        !.tab[sp.ap].inuse = FALSE]
        h2 == IF h1.tab[sp.ap].dead THEN freealias(h1, sp.ap) ELSE h1
    IN  [h2 EXCEPT !.file = [strpush |-> SubSeq(f.strpush, 1, Len(f.strpush) - 1),
                            more |-> sp.prevmore]]

\* popfile(): pop every strpush frame of the top file, then the file.
RECURSIVE PopStrings(_, _)
PopStrings(h, f) == IF f.strpush = <<>> THEN h ELSE LET r == popstring(h, f) IN PopStrings(r, r.file)

\* (A popfile() that drops the file without popping its strpush frames.)
popfileKeepStrings(h) == [h EXCEPT !.files = SubSeq(h.files, 1, Len(h.files) - 1)]

popfile(h) ==
    LET r == PopStrings(h, h.files[Len(h.files)])
    IN  [r EXCEPT !.files = SubSeq(h.files, 1, Len(h.files) - 1)]

RECURSIVE PopFiles(_, _)
PopFiles(h, k) == IF k = 0 THEN h ELSE PopFiles(popfile(h), k - 1)

Heap == [tab |-> atab, live |-> live, files |-> files, file |-> Top]
Commit(h) == atab' = h.tab /\ live' = h.live /\ files' = h.files

(***************************************************************************)
(* The lexer.                                                              *)
(***************************************************************************)

\* The last word of the current text is read (a word that is not an alias,
\* or an alias lookupalias() refuses, is read the same way).
ReadLast ==
    /\ Running
    /\ Top.more
    /\ files' = SetTop([Top EXCEPT !.more = FALSE])
    /\ UNCHANGED <<atab, live, loops, status>>

\* lookupalias(n, 1): the alias is defined and not being expanded.
LookupAlias(n) == atab[n].def /\ ~atab[n].inuse

\* pushstring(val, ap) on file f: a frame that saves where the text it
\* interrupts stands, and the alias text becomes the current buffer.
pushstring(f, n, more) ==
    [strpush |-> Append(f.strpush, [ap |-> n, string |-> atab[n].val, prevmore |-> more]),
     more |-> TRUE]

\* readtoken() reads word n, which lookupalias(n, 1) finds, and pushes its
\* value (an empty value is not pushed).  more: whether text follows the
\* word.
ExpandAlias(n, more) ==
    /\ Running
    /\ Top.more
    /\ LookupAlias(n)
    /\ ~atab[n].empty
    /\ Len(Top.strpush) < MaxPush
    /\ files' = SetTop(pushstring(Top, n, more))
    /\ atab' = [atab EXCEPT ![n].inuse = TRUE]
    /\ UNCHANGED <<live, loops, status>>

\* preadbuffer(): at the end of an alias text, popstring().
PopString ==
    /\ Running
    /\ ~Top.more
    /\ Top.strpush # <<>>
    /\ LET r == popstring(Heap, Top) IN Commit([r EXCEPT !.files = SetTop(r.file)])
    /\ UNCHANGED <<loops, status>>

\* preadbuffer(): the base file reads the next line from the terminal.
Refill ==
    /\ Running
    /\ Len(files) = 1
    /\ ~Top.more
    /\ Top.strpush = <<>>
    /\ files' = SetTop([Top EXCEPT !.more = TRUE])
    /\ UNCHANGED <<atab, live, loops, status>>

(***************************************************************************)
(* The commands.                                                           *)
(***************************************************************************)

\* (A setalias() that frees the old value even while it is being read.)
SetAliasFreeInUse(n, s, empty) ==
    /\ Running
    /\ LET old == atab[n]
           freed == IF old.def THEN live \ {old.val} ELSE live
       IN  /\ s \notin freed
           /\ live' = freed \cup {s}
           /\ atab' = [atab EXCEPT ![n] = IF old.def
                                          THEN [old EXCEPT !.val = s, !.empty = empty, !.dead = FALSE]
                                          ELSE [NoAlias EXCEPT !.def = TRUE, !.val = s, !.empty = empty]]
    /\ UNCHANGED <<files, loops, status>>

\* `alias n=v`: setalias().  The old value is freed first unless the alias
\* is in use, then savestr() copies v to a fresh address s.
SetAlias(n, s, empty) ==
    /\ Running
    /\ LET old == atab[n]
           freed == IF old.def /\ ~old.inuse THEN live \ {old.val} ELSE live
       IN  /\ s \notin freed
           /\ live' = freed \cup {s}
           /\ atab' = [atab EXCEPT ![n] = IF old.def
                                          THEN [old EXCEPT !.val = s, !.empty = empty, !.dead = FALSE]
                                          ELSE [NoAlias EXCEPT !.def = TRUE, !.val = s, !.empty = empty]]
    /\ UNCHANGED <<files, loops, status>>

\* setalias() when savestr() fails: the old value of an alias not in use
\* is already freed and ap->val still points at it.  `alias` is a regular
\* builtin, so evalbltin() catches the error and the shell goes on.  (A new
\* alias is allocated and linked only after its strings, so nothing else
\* changes.)
SetAliasOom(n) ==
    /\ Running
    /\ atab[n].def
    /\ ~atab[n].inuse
    /\ live' = live \ {atab[n].val}
    /\ UNCHANGED <<atab, files, loops, status>>

\* `unalias n`: unalias() of a defined alias.
Unalias(n) ==
    /\ Running
    /\ atab[n].def
    /\ LET r == freealias(Heap, n) IN atab' = r.tab /\ live' = r.live
    /\ UNCHANGED <<files, loops, status>>

\* `unalias -a`: rmaliases() runs freealias() on every entry.
RmAliases ==
    /\ Running
    /\ \E n \in Names : atab[n].def
    /\ atab' = [n \in Names |-> IF atab[n].inuse THEN [atab[n] EXCEPT !.dead = TRUE] ELSE NoAlias]
    /\ live' = live \ {atab[n].val : n \in {m \in Names : atab[m].def /\ ~atab[m].inuse}}
    /\ UNCHANGED <<files, loops, status>>

(***************************************************************************)
(* The loops that read files, and the errors that end them.                *)
(***************************************************************************)

\* `eval s` or `command eval s` (or `.`, a trap string): evalstring() runs
\* setinputstring(), whose pushfile() puts a new file on the stack, and
\* reads it in a new loop.  more: whether s is not empty.
EvalEnter(via, more) ==
    /\ Running
    /\ Len(files) < MaxFiles
    /\ files' = Append(files, [strpush |-> <<>>, more |-> more])
    /\ loops' = Append(loops, via)
    /\ UNCHANGED <<atab, live, status>>

\* (An end of input that pops the top-level loop as if it were eval's.)
EvalEndAny ==
    /\ Running
    /\ Len(loops) >= 1
    /\ Len(files) > 1
    /\ ~Top.more
    /\ Top.strpush = <<>>
    /\ Commit(popfile(Heap))
    /\ loops' = SubSeq(loops, 1, Len(loops) - 1)
    /\ UNCHANGED status

\* parsecmd() returns NEOF to the innermost evalstring(): it calls
\* popfile(), which pops whatever file is on top, and returns.
EvalEnd ==
    /\ Running
    /\ Len(loops) > 1
    /\ Len(files) > 1
    /\ ~Top.more
    /\ Top.strpush = <<>>
    /\ Commit(popfile(Heap))
    /\ loops' = SubSeq(loops, 1, Len(loops) - 1)
    /\ UNCHANGED status

\* A command sets evalskip (break, continue, return): evalstring() stops
\* reading and calls popfile(), and so does each enclosing evalstring()
\* until the loop or function that clears evalskip; k loops end.
EvalSkip(k) ==
    /\ Running
    /\ k \in 1..(Len(loops) - 1)
    /\ Commit(PopFiles(Heap, k))
    /\ loops' = SubSeq(loops, 1, Len(loops) - k)
    /\ UNCHANGED status

\* cmdloop(1) gets NEOF: the top-level loop ends and the shell exits.
\* It happens when the file on top is a string file that no loop owns.
Eof ==
    /\ Running
    /\ Len(loops) = 1
    /\ Len(files) > 1
    /\ ~Top.more
    /\ Top.strpush = <<>>
    /\ status' = "exited"
    /\ UNCHANGED <<atab, live, files, loops>>

\* reset(): parsenleft = 0 on the current file, then popallfiles().
reset == PopFiles([Heap EXCEPT !.files = SetTop([Top EXCEPT !.more = FALSE])], Len(files) - 1)

\* sh_error() or a syntax error in the loop on top.  The innermost loop
\* begun by `command eval` is where evalbltin() catches it: the loops above
\* end, nothing else is undone.  With no such loop main's handler catches
\* it: reset() and cmdloop(1) again, or exit when not interactive.
Error ==
    /\ Running
    /\ LET catchers == {i \in 2..Len(loops) : loops[i] = "command"}
           c == CHOOSE i \in catchers : \A j \in catchers : j <= i
       IN  IF catchers # {}
           THEN /\ loops' = SubSeq(loops, 1, c - 1)
                /\ UNCHANGED <<atab, live, files, status>>
           ELSE IF Interactive
                THEN /\ Commit(reset)
                     /\ loops' = <<"base">>
                     /\ UNCHANGED status
                ELSE /\ status' = "exited"
                     /\ UNCHANGED <<atab, live, files, loops>>

Init ==
    /\ atab = [n \in Names |-> NoAlias]
    /\ live = {}
    /\ files = <<[strpush |-> <<>>, more |-> FALSE]>>
    /\ loops = <<"base">>
    /\ status = "run"

Next ==
    \/ ReadLast
    \/ \E n \in Names, more \in BOOLEAN : ExpandAlias(n, more)
    \/ PopString
    \/ Refill
    \/ \E n \in Names, s \in Strs, empty \in BOOLEAN : SetAlias(n, s, empty)
    \/ \E n \in Names : Unalias(n)
    \/ RmAliases
    \/ \E via \in {"eval", "command"}, more \in BOOLEAN : EvalEnter(via, more)
    \/ EvalEnd
    \/ \E k \in 1..MaxFiles : EvalSkip(k)
    \/ Eof
    \/ Error

Spec == Init /\ [][Next]_vars

\* The same shell where strdup() may fail in setalias().
NextOom == Next \/ \E n \in Names : SetAliasOom(n)
SpecOom == Init /\ [][NextOom]_vars

(***************************************************************************)
(* Properties.                                                             *)
(***************************************************************************)

TypeOK ==
    /\ atab \in [Names -> Alias]
    /\ live \subseteq Strs
    /\ files \in Seq(File)
    /\ Len(files) \in 1..MaxFiles
    /\ loops \in Seq({"base", "eval", "command"})
    /\ loops # <<>>
    /\ loops[1] = "base"
    /\ status \in {"run", "exited"}

\* No alias text the lexer may still read, and no alias value the lexer
\* may push, is freed memory: setalias() keeps the value of an alias in
\* use, popstring() frees a frame's string only when setalias() has
\* replaced it, and freealias() defers the free of an alias in use.
NoDanglingString ==
    /\ \A fr \in Frames : fr.string \in live
    /\ \A n \in Names : atab[n].def => atab[n].val \in live

\* The alias marked ALIASINUSE is exactly the one with a strpush frame
\* reading it, on whatever file: lookupalias(n, 1) refuses to expand it a
\* second time, and popstring(), from preadbuffer() or from popfile() when
\* eval's file or reset() drops the file, clears the mark.
AliasInUseOncePushed ==
    \A n \in Names :
        Cardinality({<<i, j>> \in (DOMAIN files) \X (1..MaxPush) :
                        j \in DOMAIN files[i].strpush /\ files[i].strpush[j].ap = n})
        = IF atab[n].inuse THEN 1 ELSE 0

\* An alias is marked ALIASDEAD only while in use: popstring() of the
\* frame that held it completes the unalias.
DeadOnlyInUse ==
    \A n \in Names : atab[n].dead => atab[n].def /\ atab[n].inuse

\* The alias table as the shell means it: an alias unaliased while in use
\* (ALIASDEAD) is gone, whatever is left to free.
Visible == [n \in Names |-> IF atab[n].def /\ ~atab[n].dead THEN atab[n].val ELSE Null]

\* Reading input, popping alias frames and files, eval beginning and
\* ending, and errors never change the aliases: only `alias` and `unalias`
\* do (popstring() frees an alias only when `unalias` asked for it).
AliasesChangeOnlyByCommand ==
    [][Visible' # Visible => files' = files /\ loops' = loops]_vars

(***************************************************************************)
(* Properties the code does not keep (see the README).                     *)
(***************************************************************************)

\* Every allocated string is an alias value or the text of a strpush
\* frame.  setalias() on an alias in use keeps the value being read; a
\* second setalias() before popstring() replaces the first new value
\* without freeing it.
StringsOwned ==
    live \subseteq {fr.string : fr \in Frames} \cup {atab[n].val : n \in {m \in Names : atab[m].def}}

\* Each input file above the base one belongs to the evalstring() loop
\* reading it.  An error caught by evalbltin() (`command eval`) ends the
\* loop but leaves its file on the stack.
FilesMatchLoops == Len(files) = Len(loops)

====
