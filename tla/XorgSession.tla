---------------------------- MODULE XorgSession ----------------------------
(***************************************************************************)
(* launch_with_xorg_server() of auth.c: the child that Launch calls the    *)
(* session, when the session is an X11 one.  It starts an X server, reads  *)
(* the display number from it, starts the user's session on that display,  *)
(* and ends both when one of them ends.  The handlers that lidm set for    *)
(* SIGTERM and SIGINT are still in place, as this process never execs.     *)
(***************************************************************************)
EXTENDS FiniteSets

CONSTANT Faults         \* "fork_x", "fork_s"  that fork() fails
                        \* "garble"            X does not write a number
                        \* "regroup"           the session leaves the group;
                        \*                     X does so by itself

ASSUME XFaultsAssumption == Faults \subseteq {"fork_x", "fork_s", "garble", "regroup"}

Procs == {"x", "s"}     \* the X server and the session, forked in this order

VARIABLES pc,           \* where the launcher is
          proc,         \* the state of each child
          display,      \* the pipe: "none", then what X wrote, or "closed"
          victim,       \* whom pid_to_kill names: a child, or -1 for "all"
          group,        \* children in the launcher's process group
          signalled     \* who was sent SIGTERM

vars == <<pc, proc, display, victim, group, signalled>>

Exited == {"exit_ok", "exit_fail", "exit_nomem", "exit_interrupt"}
PipeOpen == proc["x"] \in {"forked", "starting"}     \* X holds the write end
Alive(p) == proc[p] \in {"forked", "starting", "running"}

XTypeOK == /\ pc \in {"pipe", "fork_x", "read", "wait_x", "env", "fork_s", "wait",
                      "kill", "wait_other", "sigterm"} \cup Exited
           /\ proc \in [Procs -> {"none", "forked", "starting", "running",
                                     "zombie", "reaped"}]
           /\ display \in {"none", "sent", "garbled", "closed"}
           /\ victim \in Procs \cup {"nobody", "all"}
           /\ group \subseteq Procs
           /\ signalled \subseteq Procs \cup {"all"}

Init == /\ pc = "pipe"
        /\ proc = [p \in Procs |-> "none"]
        /\ display = "none" /\ victim = "nobody"
        /\ group = {} /\ signalled = {}

Pipe == /\ pc = "pipe"
        /\ pc' \in {"fork_x", "exit_fail"}
        /\ UNCHANGED <<proc, display, victim, group, signalled>>

(* fork() for p; its failure is not looked at and leaves the pid -1.       *)
Forks(p, fault) == \/ /\ proc' = [proc EXCEPT ![p] = "forked"]
                      /\ group' = group \cup {p}
                   \/ fault \in Faults /\ UNCHANGED <<proc, group>>

ForkX == /\ pc = "fork_x"
         /\ Forks("x", "fork_x")
         /\ pc' = "read"
         /\ UNCHANGED <<display, victim, signalled>>

(* A slip: the launcher goes on whatever the read returned.                *)
GetDisplayUnchecked == /\ pc = "read"
                       /\ display = "sent" \/ ~ PipeOpen
                       /\ pc' = "env"
                       /\ UNCHANGED <<proc, display, victim, group, signalled>>

(* A slip: the launcher keeps the write end open itself.                   *)
GetDisplayNoEof == /\ pc = "read"
                   /\ display = "sent" /\ pc' = "env"
                   /\ UNCHANGED <<proc, display, victim, group, signalled>>

(* x_get_display(): a number, or what is none, or end-of-file once no X    *)
(* has the pipe open.  X runs on where its number was not understood.      *)
GetDisplay == /\ pc = "read"
              /\ \/ display = "sent" /\ pc' = "env"
                 \/ display # "sent" /\ ~ PipeOpen /\ pc' = "wait_x"
              /\ UNCHANGED <<proc, display, victim, group, signalled>>

(* waitpid(xorg_pid): any child when the fork failed, and there is none.   *)
AbortWait == /\ pc = "wait_x" /\ proc["x"] \in {"none", "zombie"}
             /\ proc' = IF proc["x"] = "zombie"
                        THEN [proc EXCEPT !["x"] = "reaped"] ELSE proc
             /\ pc' = "exit_fail"
             /\ UNCHANGED <<display, victim, group, signalled>>

(* The DISPLAY string and its place in the environment, or no memory.      *)
PushDisplay == /\ pc = "env"
               /\ pc' \in {"fork_s", "exit_nomem"}
               /\ UNCHANGED <<proc, display, victim, group, signalled>>

ForkSession == /\ pc = "fork_s"
               /\ Forks("s", "fork_s")
               /\ pc' = "wait"
               /\ UNCHANGED <<display, victim, signalled>>

(* A slip: the pid that waitpid() returned is the one to kill.             *)
OtherIsSelf(p) == p

(* pid ^ xorg_pid ^ xorg_session_pid, the pid of the other child.          *)
Other(p) == LET q == CHOOSE r \in Procs : r # p
            IN  IF proc[q] = "none" THEN "all" ELSE q

WaitAny == /\ pc = "wait"
           /\ \E p \in Procs : /\ proc[p] = "zombie"
                               /\ proc' = [proc EXCEPT ![p] = "reaped"]
                               /\ victim' = Other(p)
           /\ pc' = "kill"
           /\ UNCHANGED <<display, group, signalled>>

(* A slip: the other child is waited for and not killed.                   *)
KillOtherNot == /\ pc = "kill"
                /\ pc' = "wait_other"
                /\ UNCHANGED <<proc, display, victim, group, signalled>>

(* kill(pid_to_kill, SIGTERM): -1 stands for every process of the user.    *)
KillOther == /\ pc = "kill"
             /\ signalled' = signalled \cup {victim}
             /\ pc' = "wait_other"
             /\ UNCHANGED <<proc, display, victim, group>>

(* A slip: the launcher does not wait for the one it killed.               *)
WaitOtherNot == /\ pc = "wait_other"
                /\ pc' = "exit_ok"
                /\ UNCHANGED <<proc, display, victim, group, signalled>>

WaitOther == /\ pc = "wait_other"
             /\ IF victim = "all" THEN UNCHANGED proc
                ELSE /\ proc[victim] = "zombie"
                     /\ proc' = [proc EXCEPT ![victim] = "reaped"]
             /\ pc' = "exit_ok"
             /\ UNCHANGED <<display, victim, group, signalled>>

(* A slip: the handler waits without the kill().                           *)
SigtermNoKill == /\ pc \notin Exited \cup {"sigterm"}
                 /\ pc' = "sigterm"
                 /\ UNCHANGED <<proc, display, victim, group, signalled>>

(* handle_sigterm(), inherited from lidm, at any point: kill() reaches the *)
(* process group only.                                                     *)
Sigterm == /\ pc \notin Exited \cup {"sigterm"}
           /\ signalled' = signalled \cup {p \in group : Alive(p)}
           /\ pc' = "sigterm"
           /\ UNCHANGED <<proc, display, victim, group>>

ReapAll == /\ pc = "sigterm" /\ \A p \in Procs : ~ Alive(p)
           /\ proc' = [p \in Procs |-> IF proc[p] = "zombie" THEN "reaped" ELSE proc[p]]
           /\ pc' = "exit_ok"
           /\ UNCHANGED <<display, victim, group, signalled>>

(* signal_handler() of ui.c for SIGINT, inherited as well: exit(), with no *)
(* regard to the children.                                                 *)
Interrupt == /\ pc \notin Exited
             /\ pc' = "exit_interrupt"
             /\ UNCHANGED <<proc, display, victim, group, signalled>>

----------------------------------------------------------------------------
(* execle() of X, and the exec of the session in its own child.            *)
Exec(p) == /\ proc[p] = "forked" /\ p \notin signalled
           /\ proc' = [proc EXCEPT ![p] = IF p = "x" THEN "starting" ELSE "running"]
           /\ UNCHANGED <<pc, display, victim, group, signalled>>

(* A child fails before or at its exec, or ends; X closes its pipe end.    *)
Ends(p) == /\ Alive(p)
           /\ proc' = [proc EXCEPT ![p] = "zombie"]
           /\ display' = IF p = "x" /\ display = "none" THEN "closed" ELSE display
           /\ UNCHANGED <<pc, victim, group, signalled>>

(* -displayfd: X writes the number when it is ready and closes the pipe.   *)
XReady == /\ proc["x"] = "starting"
          /\ proc' = [proc EXCEPT !["x"] = "running"]
          /\ \/ display' = "sent"
             \/ "garble" \in Faults /\ display' = "garbled"
          /\ UNCHANGED <<pc, victim, group, signalled>>

(* X, started without -keeptty, detaches itself from lidm's process group  *)
(* once it runs; a session may do so.                                      *)
Regroup(p) == /\ \/ p = "x" /\ proc[p] \in {"starting", "running"}
                 \/ p = "s" /\ "regroup" \in Faults /\ proc[p] = "running"
              /\ group' = group \ {p}
              /\ UNCHANGED <<pc, proc, display, victim, signalled>>

Launcher == \/ Pipe \/ ForkX \/ GetDisplay \/ AbortWait \/ PushDisplay
            \/ ForkSession \/ WaitAny \/ KillOther \/ WaitOther \/ ReapAll
Next == \/ Launcher \/ Sigterm \/ Interrupt \/ XReady
        \/ \E p \in Procs : Exec(p) \/ Ends(p) \/ Regroup(p)

Spec == Init /\ [][Next]_vars

(* X becomes ready or ends; whoever was sent SIGTERM ends.                 *)
FairSpec == /\ Spec
            /\ WF_vars(Launcher)
            /\ WF_vars(Exec("x") \/ XReady \/ (PipeOpen /\ Ends("x")))
            /\ \A p \in Procs : WF_vars(p \in signalled /\ Ends(p))

----------------------------------------------------------------------------
(* The session is started only on a display that X reported.               *)
SessionHasDisplay == proc["s"] # "none" => display = "sent"

(* When the launcher is gone neither X nor the session is left, or lidm    *)
(* would close the PAM session under them (auth.c 177-233, 188).  Two of   *)
(* its exits do leave them: without memory for DISPLAY X stays, but never  *)
(* a session (auth.c 194-203), and after SIGINT both may (ui.c 616-619).   *)
NoOrphans == /\ pc \in {"exit_ok", "exit_fail"} =>
                  \A p \in Procs : proc[p] \in {"none", "reaped"}
             /\ pc = "exit_nomem" => proc["s"] = "none"

(* The pid that is killed has not been reaped, so it cannot have become    *)
(* the pid of another process (auth.c 222-231).                            *)
KillsUnreaped == pc = "kill" /\ victim \in Procs => proc[victim] # "reaped"

(* The inductive invariant behind the three properties above: it ties the  *)
(* place of the launcher to its children, the pipe and the pid to kill.    *)
Starting == {"pipe", "fork_x", "read", "wait_x", "env", "fork_s"}
Gone(p) == proc[p] \in {"none", "reaped"}
XInv ==
  /\ XTypeOK /\ SessionHasDisplay /\ NoOrphans
  /\ pc \in {"pipe", "fork_x"} => proc["x"] = "none"
  /\ pc \in Starting => proc["s"] = "none"
  /\ pc \in Starting \cup {"wait"} => \A p \in Procs : proc[p] # "reaped"
  /\ pc = "wait_x" => display # "sent" /\ ~ PipeOpen
  /\ pc \in {"env", "fork_s", "wait", "kill", "wait_other"} => display = "sent"
  /\ proc["x"] \in {"none", "forked", "starting"} => display = "none"
  /\ proc["x"] = "running" => display \in {"sent", "garbled"}
  /\ pc \in {"kill", "wait_other"} =>
       \/ victim \in Procs /\ ~ Gone(victim) /\ \A p \in Procs \ {victim} : Gone(p)
       \/ victim = "all" /\ \A p \in Procs : Gone(p)

(* When X or the session dies, the other one is ended and the launcher     *)
(* too, unless a SIGTERM comes in between (auth.c 218-219).                *)
OneEndsBoth == (pc = "wait" /\ \E p \in Procs : proc[p] = "zombie") ~>
                 pc \in Exited \cup {"sigterm"}

(* An X server that never reports a display does not keep the launcher,    *)
(* unless it runs on after an answer that is no number (auth.c 186-191).   *)
StartupResolves == pc = "read" ~> \/ pc \notin {"read", "wait_x"}
                                  \/ display = "garbled" /\ proc["x"] = "running"

(* SIGTERM to the launcher ends it, after both its children, unless one    *)
(* lives on that left the process group that the handler signals, as X     *)
(* does by itself (signal_handler.c 12-16).                                *)
SigtermEnds == pc = "sigterm" ~>
  pc \in Exited \/ \E p \in Procs : Alive(p) /\ p \notin group

(* auth.c 218-219: only X and the session are waited for and killed.  The  *)
(* code kills every process of the user when the second fork failed.       *)
KillsOnlyItsOwn == "all" \notin signalled
=============================================================================
