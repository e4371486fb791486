------------------------------- MODULE MCTraps -------------------------------
(* Instantiation of Traps for TLC: two signals besides EXIT, one level of  *)
(* loop, and enough signals for one to arrive while another's trap runs.   *)
(* Redirections name descriptors 1 and 2.                                  *)
EXTENDS Traps, TLC

MCExitCodes == {0, 1}
MCAllActions == {"cmd", "brk", "ret", "err"}
MCCmdAction == {"cmd"}

MCUserFds == {1, 2}
MCInitFiles == (1 :> "stdout" @@ 2 :> "stderr")

R(n, op, m) == [fd |-> n, op |-> op, dupfd |-> m]
\* Commands and exec:
\*   >f 2>&1   (the file lands on 1 itself when `exec >&-` closed it)
\*   >&- 2>f   (the file is opened on 1, just closed, and moved to 2)
\*   2>&1      (fails with EBADF when 1 is closed)
MCRedirLists ==
  { <<R(1, "file", 1), R(2, "dup", 1)>>,
    <<R(1, "close", 1), R(2, "file", 2)>>,
    <<R(2, "dup", 1)>> }
\* Blocks: >f 2>&1 and 2>f.  (A block list that closes a descriptor already
\* closed records REALLY_CLOSED, which RedirRefinesStack finds wrong; see
\* the README.)
MCBlockLists ==
  { <<R(1, "file", 1), R(2, "dup", 1)>>,
    <<R(2, "file", 2)>> }
MCNoRedirs == {}
====
