----------------------------- MODULE XorgProofs -----------------------------
(***************************************************************************)
(* The safety of the launcher of an X11 session, whatever may fail: proofs *)
(* that XInv is an invariant of XorgSession, and what follows from it.     *)
(***************************************************************************)
EXTENDS XorgSession, TLAPS

(* Of two children one is the other of the other.                          *)
LEMMA TheOther ==
  ASSUME NEW p \in Procs
  PROVE  /\ p = "x" => (CHOOSE r \in Procs : r # p) = "s"
         /\ p = "s" => (CHOOSE r \in Procs : r # p) = "x"
<1>1. \E r \in Procs : r # p
  BY DEF Procs
<1>2. (CHOOSE r \in Procs : r # p) \in Procs /\ (CHOOSE r \in Procs : r # p) # p
  BY <1>1
<1> QED BY <1>2 DEF Procs

(* The pid that the exclusive or yields once p was reaped: the other child *)
(* if it was forked, and everybody if not.                                 *)
LEMMA VictimOf ==
  ASSUME NEW p \in Procs
  PROVE  \/ Other(p) \in Procs \ {p} /\ proc[Other(p)] # "none"
         \/ Other(p) = "all" /\ \A q \in Procs \ {p} : proc[q] = "none"
BY TheOther DEF Other, Procs

(* The launcher's own steps keep the invariant.                            *)
LEMMA LauncherStep == XInv /\ Launcher => XInv'
<1> SUFFICES ASSUME XInv, Launcher PROVE XInv'
  OBVIOUS
<1> USE DEF XInv, XTypeOK, Starting, Gone, Procs, Exited, SessionHasDisplay, NoOrphans
<1>1. CASE Pipe
  BY <1>1 DEF Pipe, PipeOpen
<1>2. CASE ForkX
  BY <1>2 DEF ForkX, Forks, PipeOpen
<1>3. CASE GetDisplay
  BY <1>3 DEF GetDisplay, PipeOpen
<1>4. CASE AbortWait
  BY <1>4 DEF AbortWait, PipeOpen
<1>5. CASE PushDisplay
  BY <1>5 DEF PushDisplay, PipeOpen
<1>6. CASE ForkSession
  BY <1>6 DEF ForkSession, Forks, PipeOpen
<1>7. CASE WaitAny
  <2>1. PICK p \in Procs : /\ proc[p] = "zombie"
                           /\ proc' = [proc EXCEPT ![p] = "reaped"]
                           /\ victim' = Other(p)
    BY <1>7 DEF WaitAny
  <2>2. \/ victim' \in Procs \ {p} /\ proc[victim'] # "none"
        \/ victim' = "all" /\ \A q \in Procs \ {p} : proc[q] = "none"
    BY <2>1, VictimOf
  <2> QED BY <1>7, <2>1, <2>2 DEF WaitAny, PipeOpen
<1>8. CASE KillOther
  BY <1>8 DEF KillOther, PipeOpen
<1>9. CASE WaitOther
  BY <1>9 DEF WaitOther, PipeOpen
<1>10. CASE ReapAll
  BY <1>10 DEF ReapAll, Alive, PipeOpen
<1> QED BY <1>1, <1>2, <1>3, <1>4, <1>5, <1>6, <1>7, <1>8, <1>9, <1>10 DEF Launcher

(* So does every step, whoever takes it.                                   *)
LEMMA XStep == XInv /\ [Next]_vars => XInv'
<1> SUFFICES ASSUME XInv, [Next]_vars PROVE XInv'
  OBVIOUS
<1> USE DEF XInv, XTypeOK, Starting, Gone, Procs, Exited, SessionHasDisplay, NoOrphans
<1>1. CASE Launcher
  BY <1>1, LauncherStep
<1>2. CASE Sigterm
  BY <1>2 DEF Sigterm, Alive, PipeOpen
<1>3. CASE XReady
  BY <1>3 DEF XReady, PipeOpen
<1>4. ASSUME NEW p \in Procs, Regroup(p) PROVE XInv'
  BY <1>4 DEF Regroup, PipeOpen
<1>5. ASSUME NEW p \in Procs, Exec(p) PROVE XInv'
  BY <1>5 DEF Exec, PipeOpen
<1>6. ASSUME NEW p \in Procs, Ends(p) PROVE XInv'
  BY <1>6 DEF Ends, Alive, PipeOpen
<1>7. CASE Interrupt
  BY <1>7 DEF Interrupt, PipeOpen
<1>8. CASE UNCHANGED vars
  BY <1>8 DEF vars, PipeOpen
<1> QED BY <1>1, <1>2, <1>3, <1>4, <1>5, <1>6, <1>7, <1>8 DEF Next

(* The inductive invariant holds in every behaviour.                       *)
THEOREM XInvCorrect == Spec => []XInv
<1>1. Init => XInv
  BY DEF Init, XInv, XTypeOK, Starting, Gone, Procs, Exited, SessionHasDisplay,
         NoOrphans, PipeOpen
<1> QED BY <1>1, XStep, PTL DEF Spec

(* The session is started only on a display that X reported.               *)
THEOREM DisplayFirst == Spec => []SessionHasDisplay
<1>1. XInv => SessionHasDisplay
  BY DEF XInv
<1> QED BY <1>1, XInvCorrect, PTL

(* Neither X nor the session outlives the launcher, unless it exits for    *)
(* lack of memory, with X but no session left, or on SIGINT.               *)
THEOREM NobodyOrphaned == Spec => []NoOrphans
<1>1. XInv => NoOrphans
  BY DEF XInv
<1> QED BY <1>1, XInvCorrect, PTL

(* The launcher never kills a pid that it has reaped.                      *)
THEOREM VictimUnreaped == Spec => []KillsUnreaped
<1>1. XInv => KillsUnreaped
  BY DEF XInv, KillsUnreaped, Gone, Procs
<1> QED BY <1>1, XInvCorrect, PTL
=============================================================================
