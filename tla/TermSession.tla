---------------------------- MODULE TermSession ----------------------------
(***************************************************************************)
(* The terminal program around the widget (flterm/term_sh.cxx, pseudo.cpp  *)
(* and gterm_if::SendBack): a shell on the other side of a pty, whose two  *)
(* buffers are finite; keys, and answers to the shell's queries, written   *)
(* to the non-blocking master; the read callback that takes a read without *)
(* data for the end of the shell; and the ways in which the session ends.  *)
(* The buffers and the shell are the environment: the kernel and /bin/sh.  *)
(***************************************************************************)
EXTENDS Integers, Sequences, FiniteSets

CONSTANTS
  Cap,        \* room of each of the two buffers of the pty
  MaxRead,    \* most that one read of mfd_cb takes (1000 bytes)
  MaxShown    \* bound: pieces of output that the shell writes

ASSUME SessionAssumption == Cap \in Nat \ {0} /\ MaxRead \in Nat \ {0}
                            /\ MaxShown \in Nat

VARIABLES
  child,     \* forked: before it opens the slave; running; exited
  opened,    \* the slave has been opened
  to_term,   \* output of the shell that was not read yet
  to_child,  \* input for the shell that it has not read yet
  written,   \* how many pieces the shell wrote
  shown,     \* how many pieces ProcessInput has processed
  at,        \* where main is: the event loop, SendBack, quit_cb's sleep, or the end:
             \* over, when the shell ended; closed, when the user ended the session
  owed,      \* answers of the ProcessInput under way that are not written yet
  cut        \* some write found no room

vars == <<child, opened, to_term, to_child, written, shown, at, owed, cut>>

Pieces == {"text", "query"}
Inputs == {"key", "answer", "exit"}
Ends == {"over", "closed"}

Init == /\ child = "forked" /\ opened = FALSE
        /\ to_term = <<>> /\ to_child = <<>>
        /\ written = 0 /\ shown = 0
        /\ at = "loop" /\ owed = 0 /\ cut = FALSE

----------------------------------------------------------------------------
(* The child: spawn's slave side, then the shell                           *)

\* pts_slave opens the slave, and the shell is executed on it.
SlaveStarts == /\ child = "forked"
               /\ child' = "running" /\ opened' = TRUE
               /\ UNCHANGED <<to_term, to_child, written, shown, at, owed, cut>>

\* pts_slave fails: spawn returns -1 in the child and main exits there.
SlaveFails == /\ child = "forked"
              /\ child' = "exited"
              /\ UNCHANGED <<opened, to_term, to_child, written, shown, at, owed, cut>>

\* The shell's writes wait for room.
ShellWrites == /\ child = "running" /\ at \notin Ends
               /\ Len(to_term) < Cap /\ written < MaxShown
               /\ \E p \in Pieces : to_term' = Append(to_term, p)
               /\ written' = written + 1
               /\ UNCHANGED <<child, opened, to_child, shown, at, owed, cut>>

ShellReads == /\ child = "running" /\ to_child # <<>>
              /\ to_child' = Tail(to_child)
              /\ child' = IF Head(to_child) = "exit" THEN "exited" ELSE child
              /\ UNCHANGED <<opened, to_term, written, shown, at, owed, cut>>

\* The shell exits by itself, or finds that the master is closed.
ShellExits == /\ child = "running"
              /\ child' = "exited"
              /\ UNCHANGED <<opened, to_term, to_child, written, shown, at, owed, cut>>

----------------------------------------------------------------------------
(* The terminal: one thread, which runs callbacks                          *)

\* A write that waits for room, as without O_NONBLOCK, for the mutation tests.
WriteWaits(what) == /\ Len(to_child) < Cap
                    /\ to_child' = Append(to_child, what)
                    /\ UNCHANGED cut

\* SendBack's write to the non-blocking master; its result is not looked at.
Write(what) == /\ to_child' = IF Len(to_child) < Cap THEN Append(to_child, what)
                              ELSE to_child
               /\ cut' = (cut \/ Len(to_child) = Cap)

\* Processes the whole buffer, not what was read, for the mutation tests.
Mfd_cbWhole ==
  /\ at = "loop" /\ to_term # <<>>
  /\ to_term' = SubSeq(to_term, MaxRead + 1, Len(to_term))
  /\ shown' = shown + MaxRead
  /\ UNCHANGED <<child, opened, to_child, written, at, owed, cut>>

\* mfd_cb with data: ProcessInput works through them, and writes the answers to
\* the queries among them.
Mfd_cb ==
  /\ at = "loop"
  /\ LET n == IF Len(to_term) < MaxRead THEN Len(to_term) ELSE MaxRead
         queries == {k \in 1 .. n : to_term[k] = "query"}
     IN  /\ n > 0
         /\ to_term' = SubSeq(to_term, n + 1, Len(to_term))
         /\ shown' = shown + n
         /\ owed' = Cardinality(queries)
         /\ at' = IF queries = {} THEN "loop" ELSE "answering"
  /\ UNCHANGED <<child, opened, to_child, written, cut>>

Answer == /\ at = "answering"
          /\ Write("answer")
          /\ owed' = owed - 1
          /\ at' = IF owed = 1 THEN "loop" ELSE "answering"
          /\ UNCHANGED <<child, opened, to_term, written, shown>>

\* The end of the shell is acted on before its last output is read, for the mutation tests.
Mfd_cbEndEarly == /\ at = "loop"
                  /\ opened /\ child = "exited"
                  /\ at' = "over"
                  /\ UNCHANGED <<child, opened, to_term, to_child, written, shown, owed, cut>>

\* Without output a read fails or returns nothing only when the slave has been
\* opened and is closed again: mfd_cb hides the windows and Fl::run returns.
Mfd_cbEnd == /\ at = "loop" /\ to_term = <<>>
             /\ opened /\ child = "exited"
             /\ at' = "over"
             /\ UNCHANGED <<child, opened, to_term, to_child, written, shown, owed, cut>>

\* Fl_Term::handle: a key that is sent.
Key == /\ at = "loop"
       /\ Write("key")
       /\ UNCHANGED <<child, opened, to_term, written, shown, at, owed>>

\* quit_cb writes a command for the shell, and sleeps.
Quit == /\ at = "loop"
        /\ Write("exit")
        /\ at' = "quitting"
        /\ UNCHANGED <<child, opened, to_term, written, shown, owed>>

QuitHides == /\ at = "quitting"
             /\ at' = "closed"
             /\ UNCHANGED <<child, opened, to_term, to_child, written, shown, owed, cut>>

\* The user closes the window.
Close == /\ at = "loop"
         /\ at' = "closed"
         /\ UNCHANGED <<child, opened, to_term, to_child, written, shown, owed, cut>>

Terminal == Mfd_cb \/ Answer \/ Mfd_cbEnd \/ Key \/ Quit \/ QuitHides \/ Close
Shell == SlaveStarts \/ SlaveFails \/ ShellWrites \/ ShellReads \/ ShellExits

\* Without a shell nothing need happen any more.
Over == child = "exited" /\ UNCHANGED vars

Next == Terminal \/ Shell \/ Over

\* The event loop serves the master again and again, whatever keys there are; a
\* callback that has begun goes on; the kernel starts the child.
Fairness == /\ SF_vars(Mfd_cb) /\ SF_vars(Mfd_cbEnd)
            /\ WF_vars(Answer) /\ WF_vars(QuitHides)
            /\ WF_vars(SlaveStarts \/ SlaveFails)

Spec == Init /\ [][Next]_vars /\ Fairness

----------------------------------------------------------------------------
(* Properties                                                              *)

\* Every variable has its type; the terminal never shows what was not written.
TypeOK == /\ child \in {"forked", "running", "exited"} /\ opened \in BOOLEAN
          /\ to_term \in Seq(Pieces) /\ Len(to_term) <= Cap
          /\ to_child \in Seq(Inputs) /\ Len(to_child) <= Cap
          /\ written \in 0 .. MaxShown /\ shown = written - Len(to_term)
          /\ at \in {"loop", "answering", "quitting"} \cup Ends
          /\ owed \in 0 .. MaxRead /\ cut \in BOOLEAN

\* What the shell writes is processed, unless the user ends the session: terminal and
\* shell never wait for each other, even when the shell asks and never reads the
\* answers (SendBack in mfd_cb), and the end of the shell, which mfd_cb learns from a
\* read without data, does not overtake the output before it.
OutputIsProcessed == \A n \in 1 .. MaxShown : written >= n ~> (shown >= n \/ at = "closed")

\* The end of a shell that came up ends the session.
EndsWithShell == child = "exited" /\ opened ~> at \in Ends
============================================================================
