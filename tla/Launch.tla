------------------------------- MODULE Launch -------------------------------
(***************************************************************************)
(* One login attempt after another, from Enter at the prompt to the return *)
(* of launch(): auth.c (launch, forked), pam.c (get_pamh and the           *)
(* environment), ui.c (restore_all and the SIGINT handler) and             *)
(* signal_handler.c.  The processes are lidm itself and one child per      *)
(* attempt; they share a pipe, the terminal and signals.                   *)
(*                                                                         *)
(* The pipe of an attempt carries one message from the child to lidm and,  *)
(* by the end-of-file that lidm causes when it closes its own write end,   *)
(* the permission for the child to start the session.  Both processes read *)
(* the same end, so the child can read a byte of its own message: it then  *)
(* starts early.  lidm reads the 15 bytes that are left and, as the        *)
(* compiler zeroes the whole struct child_msg, finds err = false in them.  *)
(***************************************************************************)
EXTENDS Naturals, FiniteSets

CONSTANTS MaxAttempts,  \* bound on the login attempts
          Faults        \* what may go wrong around the two processes:
                        \* "fork"    fork() fails
                        \* "kill"    someone kills the child before its exec
                        \* "regroup" a session leaves lidm's process group

ASSUME MaxAttemptsAssumption == MaxAttempts \in Nat \ {0}
ASSUME FaultsAssumption == Faults \subseteq {"fork", "kill", "regroup"}

Attempts == 1 .. MaxAttempts

VARIABLES pc,           \* where lidm is
          n,            \* attempts begun: n is the one that launch() serves
          pam,          \* per attempt, what PAM granted and was not asked back
          child,        \* per attempt, where its child is
          dropped,      \* per attempt, the child's steps from root to the user
          failed,       \* attempts whose child's wait status is not 0
          msg,          \* per attempt, the message in the pipe
          held,         \* attempts whose pipe's write end lidm holds open
          early,        \* attempts whose child read a byte of its message
          group,        \* attempts whose child is in lidm's process group
          signalled,    \* attempts whose child was sent SIGTERM
          term          \* the terminal's mode

vars == <<pc, n, pam, child, dropped, failed, msg, held, early, group,
          signalled, term>>

pamVars == <<pam>>
childVars == <<child, dropped, failed, early, group, signalled>>
pipeVars == <<msg, held>>

----------------------------------------------------------------------------
(* The steps of get_pamh() in their order, what each one makes PAM hold,   *)
(* and the calls that give it back.                                        *)
PamUp == {"getpwnam", "start", "authenticate", "acct_mgmt", "establish_cred",
          "open_session", "reinitialize_cred"}
AfterUp == [getpwnam |-> "start", start |-> "authenticate",
            authenticate |-> "acct_mgmt", acct_mgmt |-> "establish_cred",
            establish_cred |-> "open_session",
            open_session |-> "reinitialize_cred",
            reinitialize_cred |-> "env"]
Gains == [getpwnam |-> {}, start |-> {"handle"}, authenticate |-> {"auth"},
          acct_mgmt |-> {"acct"}, establish_cred |-> {"cred"},
          open_session |-> {"session"}, reinitialize_cred |-> {}]
OfHandle == {"handle", "auth", "acct"}     \* what pam_end() frees
Granted == OfHandle \cup {"cred", "session"}

PamDown == {"delete_cred", "close_session", "end"}
Returns == [delete_cred |-> {"cred"}, close_session |-> {"session"},
            end |-> OfHandle]

Exited == {"exit_success", "exit_sigterm", "exit_interrupt"}
Serving == PamUp \cup {"env", "fork", "read", "restore", "release", "wait"}
             \cup PamDown

(* The child's way to the user's privileges, in its order.                 *)
CredSteps == {"chdir", "setgid", "initgroups", "setuid"}
AfterCred == [chdir |-> "setgid", setgid |-> "initgroups",
              initgroups |-> "setuid", setuid |-> "send"]
BeforeExec == CredSteps \cup {"failing", "send", "sync", "exec"}
Alive(a) == child[a] \in BeforeExec \cup {"session"}
Able(a) == Alive(a) /\ child[a] # "failing"     \* may become a session

----------------------------------------------------------------------------
Init == /\ pc = "prompt"
        /\ n = 0
        /\ pam = [a \in Attempts |-> {}]
        /\ child = [a \in Attempts |-> "none"]
        /\ dropped = [a \in Attempts |-> {}]
        /\ failed = {}
        /\ msg = [a \in Attempts |-> "none"]
        /\ held = {} /\ early = {} /\ group = {} /\ signalled = {}
        /\ term = "raw"                            \* setup() ran

(* Enter, or the key bound to fido: load() calls launch().  MaxAttempts is *)
(* the model's own bound; lidm takes any number of attempts.               *)
Begin == /\ pc = "prompt" /\ n < MaxAttempts
         /\ n' = n + 1
         /\ pc' = "getpwnam"
         /\ UNCHANGED <<pamVars, childVars, pipeVars, term>>

PamSucceeds == /\ pc \in PamUp
               /\ pam' = [pam EXCEPT ![n] = @ \cup Gains[pc]]
               /\ pc' = AfterUp[pc]
               /\ UNCHANGED <<n, childVars, pipeVars, term>>

(* A slip: the result of pam_acct_mgmt() goes unchecked.                   *)
PamFailsUnchecked == /\ pc \in PamUp
                     /\ pam' = [pam EXCEPT ![n] = IF pc = "acct_mgmt" THEN @
                                                  ELSE @ \ OfHandle]
                     /\ pc' = IF pc = "acct_mgmt" THEN AfterUp[pc] ELSE "prompt"
                     /\ UNCHANGED <<n, childVars, pipeVars, term>>

(* CHECK_PAM_RET: pam_end() and nothing else, whatever was granted before. *)
PamFails == /\ pc \in PamUp
            /\ pam' = [pam EXCEPT ![n] = @ \ OfHandle]
            /\ pc' = "prompt"
            /\ UNCHANGED <<n, childVars, pipeVars, term>>

(* The environment of the session is complete, or launch() returns false   *)
(* with the handle lost.                                                   *)
Environment == /\ pc = "env"
               /\ pc' \in {"fork", "prompt"}
               /\ UNCHANGED <<n, pamVars, childVars, pipeVars, term>>

(* fork() is not checked: with no child lidm reads as well.  Nor is pipe();*)
(* that it fails is left out.                                              *)
Fork == /\ pc = "fork"
        /\ held' = held \cup {n}
        /\ pc' = "read"
        /\ \/ /\ child' = [child EXCEPT ![n] = "chdir"]
              /\ group' = group \cup {n}
           \/ /\ "fork" \in Faults
              /\ UNCHANGED <<child, group>>
        /\ UNCHANGED <<n, pamVars, dropped, failed, early, signalled, msg, term>>

(* A slip: the callback is not called.                                     *)
ReadMsgNoCallback == /\ pc = "read" /\ msg[n] \in {"ok", "err"}
                     /\ msg' = [msg EXCEPT ![n] = "taken"]
                     /\ pc' = IF msg[n] = "err" THEN "prompt" ELSE "release"
                     /\ UNCHANGED <<n, pamVars, childVars, held, term>>

(* The read blocks until there is a message: lidm holds a write end itself *)
(* and so never sees end-of-file.                                          *)
ReadMsg == /\ pc = "read" /\ msg[n] \in {"ok", "err"}
           /\ msg' = [msg EXCEPT ![n] = "taken"]
           /\ pc' = IF msg[n] = "err" THEN "prompt" ELSE "restore"
           /\ UNCHANGED <<n, pamVars, childVars, held, term>>

(* cb(): the callback that load() passes is restore_all.                   *)
Restore == /\ pc = "restore"
           /\ term' = "orig"
           /\ pc' = "release"
           /\ UNCHANGED <<n, pamVars, childVars, pipeVars>>

(* A slip: PAM is torn down without the waitpid() before it.               *)
ReleaseNoWait == /\ pc = "release"
                 /\ held' = held \ {n}
                 /\ pc' = "delete_cred"
                 /\ UNCHANGED <<n, pamVars, childVars, msg, term>>

Release == /\ pc = "release"
           /\ held' = held \ {n}
           /\ pc' = "wait"
           /\ UNCHANGED <<n, pamVars, childVars, msg, term>>

Wait == /\ pc = "wait" /\ child[n] = "zombie"
        /\ child' = [child EXCEPT ![n] = "reaped"]
        /\ pc' = "delete_cred"
        /\ UNCHANGED <<n, pamVars, dropped, failed, early, group, signalled,
                       pipeVars, term>>

(* A slip: a bad exit code returns before the session is closed.           *)
TearDownEarlyReturn ==
  /\ pc \in PamDown
  /\ pam' = [pam EXCEPT ![n] = @ \ Returns[pc]]
  /\ pc' = CASE n \in failed -> "prompt"
             [] n \notin failed /\ pc = "delete_cred" -> "close_session"
             [] n \notin failed /\ pc = "close_session" -> "end"
             [] OTHER -> "exit_success"
  /\ UNCHANGED <<n, childVars, pipeVars, term>>

(* A slip: the exit code is not looked at.                                 *)
TearDownAnyExit ==
  /\ pc \in PamDown
  /\ pam' = [pam EXCEPT ![n] = @ \ Returns[pc]]
  /\ pc' = CASE pc = "delete_cred" -> "close_session"
             [] pc = "close_session" -> "end"
             [] pc = "end" -> "exit_success"
  /\ UNCHANGED <<n, childVars, pipeVars, term>>

(* The three calls after waitpid(), then exit(0) or the prompt again.      *)
TearDown == /\ pc \in PamDown
            /\ pam' = [pam EXCEPT ![n] = @ \ Returns[pc]]
            /\ \/ pc = "delete_cred" /\ pc' = "close_session" /\ UNCHANGED term
               \/ pc = "close_session" /\ pc' = "end" /\ UNCHANGED term
               \/ pc = "end" /\ n \in failed /\ pc' = "prompt" /\ UNCHANGED term
               \/ pc = "end" /\ n \notin failed /\ pc' = "exit_success"
                    /\ term' = "orig"              \* atexit(restore_all)
            /\ held' = IF pc' = "exit_success" THEN {} ELSE held
            /\ UNCHANGED <<n, childVars, msg>>

(* A slip: the handler waits for children it never signalled.              *)
SigtermNoKill == /\ pc \notin Exited \cup {"sigterm"}
                 /\ pc' = "sigterm"
                 /\ UNCHANGED <<n, pamVars, childVars, pipeVars, term>>

(* handle_sigterm() in lidm, wherever it is: SIGTERM to the process group, *)
(* reap every child, _exit(0).                                             *)
Sigterm == /\ pc \notin Exited \cup {"sigterm"}
           /\ signalled' = signalled \cup {a \in group : Alive(a)}
           /\ pc' = "sigterm"
           /\ UNCHANGED <<n, pamVars, child, dropped, failed, early, group,
                          pipeVars, term>>

ReapAll == /\ pc = "sigterm"
           /\ ~ \E a \in Attempts : Alive(a)
           /\ child' = [a \in Attempts |->
                          IF child[a] = "zombie" THEN "reaped" ELSE child[a]]
           /\ held' = {}
           /\ pc' = "exit_sigterm"
           /\ UNCHANGED <<n, pamVars, dropped, failed, early, group, signalled,
                          msg, term>>

(* signal_handler() of ui.c, for SIGINT.                                   *)
Interrupt == /\ pc \notin Exited
             /\ term' = "orig"
             /\ held' = {}
             /\ pc' = "exit_interrupt"
             /\ UNCHANGED <<n, pamVars, childVars, msg>>

----------------------------------------------------------------------------
(* A child runs its own code only until a SIGTERM reaches it.              *)
Runs(a) == a \notin signalled

Dies(a, bad) == /\ child' = [child EXCEPT ![a] = "zombie"]
                /\ failed' = IF bad THEN failed \cup {a} ELSE failed

DropPrivilege(a) == /\ Runs(a) /\ child[a] \in CredSteps
                    /\ dropped' = [dropped EXCEPT ![a] = @ \cup {child[a]}]
                    /\ child' = [child EXCEPT ![a] = AfterCred[@]]
                    /\ UNCHANGED <<pc, n, pamVars, failed, early, group,
                                   signalled, pipeVars, term>>

(* A slip: SEND_ERR does not exit, and the child goes on as it is.         *)
DropFailsGoesOn(a) == /\ Runs(a) /\ child[a] \in CredSteps
                      /\ child' = [child EXCEPT ![a] = AfterCred[@]]
                      /\ msg' = [msg EXCEPT ![a] = "err"]
                      /\ UNCHANGED <<pc, n, pamVars, dropped, failed, early, group,
                                     signalled, held, term>>

(* SEND_ERR up to its _exit(): the message is in the pipe and the child    *)
(* still lives, while lidm may read it, go back to the prompt and on.      *)
DropFails(a) == /\ Runs(a) /\ child[a] \in CredSteps
                /\ child' = [child EXCEPT ![a] = "failing"]
                /\ msg' = [msg EXCEPT ![a] = "err"]
                /\ UNCHANGED <<pc, n, pamVars, dropped, failed, early, group,
                               signalled, held, term>>

(* The _exit(EXIT_FAILURE) of SEND_ERR.  Nobody waits for this child.      *)
FailExits(a) == /\ Runs(a) /\ child[a] = "failing"
                /\ Dies(a, TRUE)
                /\ UNCHANGED <<pc, n, pamVars, dropped, early, group, signalled,
                               pipeVars, term>>

(* A slip: the message stays in a buffer of the child.                     *)
SendOkBuffered(a) == /\ Runs(a) /\ child[a] = "send"
                     /\ child' = [child EXCEPT ![a] = "sync"]
                     /\ UNCHANGED <<pc, n, pamVars, dropped, failed, early, group,
                                    signalled, pipeVars, term>>

SendOk(a) == /\ Runs(a) /\ child[a] = "send"
             /\ msg' = [msg EXCEPT ![a] = "ok"]
             /\ child' = [child EXCEPT ![a] = "sync"]
             /\ UNCHANGED <<pc, n, pamVars, dropped, failed, early, group,
                            signalled, held, term>>

(* DUMMY_READ returns a byte of the child's own message if it is still in  *)
(* the pipe, and otherwise end-of-file when no write end is left.          *)
DummyRead(a) == /\ Runs(a) /\ child[a] = "sync"
                /\ \/ msg[a] = "ok" /\ early' = early \cup {a}
                   \/ msg[a] # "ok" /\ a \notin held /\ UNCHANGED early
                /\ child' = [child EXCEPT ![a] = "exec"]
                /\ UNCHANGED <<pc, n, pamVars, dropped, failed, group, signalled,
                               pipeVars, term>>

(* The session is exec'd, or it is what launch_with_xorg_server() runs;    *)
(* or the exec fails.                                                      *)
Exec(a) == /\ Runs(a) /\ child[a] = "exec"
           /\ \/ child' = [child EXCEPT ![a] = "session"] /\ UNCHANGED failed
              \/ Dies(a, TRUE)
           /\ UNCHANGED <<pc, n, pamVars, dropped, early, group, signalled,
                          pipeVars, term>>

SessionEnds(a) == /\ child[a] = "session"
                  /\ \E bad \in BOOLEAN : Dies(a, bad)
                  /\ UNCHANGED <<pc, n, pamVars, dropped, early, group,
                                 signalled, pipeVars, term>>

(* The handler is inherited until the exec: it has no child to reap there  *)
(* and ends the child with status 0.                                       *)
HandleSigterm(a) == /\ a \in signalled /\ child[a] \in BeforeExec
                    /\ Dies(a, FALSE)
                    /\ UNCHANGED <<pc, n, pamVars, dropped, early, group,
                                   signalled, pipeVars, term>>

(* A signal from outside; for SIGINT the child still has signal_handler(). *)
Killed(a) == /\ "kill" \in Faults /\ child[a] \in BeforeExec
             /\ \E bad \in BOOLEAN : Dies(a, bad)
             /\ term' \in {term, "orig"}
             /\ UNCHANGED <<pc, n, pamVars, dropped, early, group, signalled,
                            pipeVars>>

Regroup(a) == /\ "regroup" \in Faults /\ child[a] = "session"
              /\ group' = group \ {a}
              /\ UNCHANGED <<pc, n, pamVars, child, dropped, failed, early,
                             signalled, pipeVars, term>>

----------------------------------------------------------------------------
Lidm == \/ PamSucceeds \/ PamFails \/ Environment \/ Fork \/ ReadMsg \/ Restore
        \/ Release \/ Wait \/ TearDown \/ ReapAll
Child(a) == \/ DropPrivilege(a) \/ DropFails(a) \/ FailExits(a) \/ SendOk(a)
            \/ DummyRead(a) \/ Exec(a) \/ HandleSigterm(a)
Outside(a) == SessionEnds(a) \/ Killed(a) \/ Regroup(a)

Next == \/ Begin \/ Sigterm \/ Interrupt \/ Lidm
        \/ \E a \in Attempts : Child(a) \/ Outside(a)

Spec == Init /\ [][Next]_vars

(* The kernel runs both processes, PAM calls return, and a session that    *)
(* was sent SIGTERM ends.  Nobody has to press a key or to log out.        *)
FairSpec == /\ Spec
            /\ WF_vars(Lidm)
            /\ \A a \in Attempts : /\ WF_vars(Child(a))
                                   /\ WF_vars(a \in signalled /\ SessionEnds(a))

----------------------------------------------------------------------------
TypeOK == /\ pc \in {"prompt", "sigterm"} \cup Serving \cup Exited
          /\ n \in 0 .. MaxAttempts
          /\ pc \in Serving => n # 0
          /\ pam \in [Attempts -> SUBSET Granted]
          /\ child \in [Attempts -> {"none", "session", "zombie", "reaped"}
                                      \cup BeforeExec]
          /\ dropped \in [Attempts -> SUBSET CredSteps]
          /\ msg \in [Attempts -> {"none", "ok", "err", "taken"}]
          /\ {failed, held, early, group, signalled} \subseteq SUBSET Attempts
          /\ term \in {"raw", "orig"}

(* A session runs only for the attempt launch() serves, with the user's    *)
(* privileges and no others, and while PAM holds for it everything that    *)
(* get_pamh() obtained: nothing was closed under it (auth.c 302-358).      *)
SessionIsLegit == \A a \in Attempts : child[a] = "session" =>
                    a = n /\ dropped[a] = CredSteps /\ Granted \subseteq pam[a]

(* Unless the child read its own message, a session starts on a terminal   *)
(* that restore_all() gave back, after lidm let it go (auth.c 264, 348).   *)
HandedOver == \A a \in Attempts : child[a] = "session" /\ a \notin early =>
                term = "orig" /\ a \notin held

(* While lidm prompts, asks PAM for the next attempt, tears one down or    *)
(* has ended with success, the only processes of an attempt that may be    *)
(* left are those between the error they reported and their _exit(), for   *)
(* launch() does not wait for them (auth.c 342-345); no other may still    *)
(* become a session.  After SIGTERM there is none at all.                  *)
NoneLeftBehind ==
  /\ pc \in {"prompt", "exit_success"} \cup PamUp \cup PamDown =>
       \A a \in Attempts : ~ Able(a)
  /\ pc = "exit_sigterm" => \A a \in Attempts : ~ Alive(a)

(* When launch() has waited for a child, PAM holds nothing more for it by  *)
(* the time lidm prompts again or exits with success (auth.c 354-361).     *)
ReapedIsClosed == pc \notin {"sigterm", "exit_sigterm", "exit_interrupt"} =>
  \A a \in Attempts : child[a] = "reaped" =>
    pam[a] = {} \/ (a = n /\ pc \in PamDown)

(* lidm exits with success only after a child that ended well.             *)
(* The wait status it relies on is that of the session (auth.c 360).       *)
SuccessIsEarned == pc = "exit_success" => child[n] = "reaped" /\ n \notin failed

----------------------------------------------------------------------------
(* The inductive invariant behind the properties above.                    *)
Fresh(a) == child[a] = "none" /\ dropped[a] = {} /\ msg[a] = "none"
Unserved == \A a \in Attempts :
  /\ a > n => pam[a] = {} /\ Fresh(a)
  /\ a = n /\ pc \in PamUp \cup {"env", "fork"} => Fresh(a)

Before == [getpwnam |-> {}, start |-> {}, authenticate |-> {"handle"},
           acct_mgmt |-> {"handle", "auth"}, establish_cred |-> OfHandle,
           open_session |-> OfHandle \cup {"cred"},
           reinitialize_cred |-> Granted]
PamInOrder ==
  /\ pc \in PamUp => Before[pc] \subseteq pam[n]
  /\ pc \in {"env", "fork", "read", "restore", "release", "wait"} =>
       Granted \subseteq pam[n]
  /\ pc = "close_session" => "cred" \notin pam[n]
  /\ pc = "end" => pam[n] \subseteq OfHandle
  /\ pc \in PamDown => child[n] = "reaped"

AtWork == {"read", "restore", "release", "wait", "sigterm", "exit_interrupt"}
Living == \A a \in Attempts :
            /\ Alive(a) => /\ a <= n /\ pc # "exit_sigterm"
                           /\ Granted \subseteq pam[a]
            /\ Able(a) => /\ a = n /\ pc \in AtWork /\ msg[a] # "err"
                          /\ a \notin held => term = "orig"

DroppedAt == [chdir |-> {}, setgid |-> {"chdir"},
              initgroups |-> {"chdir", "setgid"},
              setuid |-> {"chdir", "setgid", "initgroups"}]
Dropping == \A a \in Attempts :
  /\ child[a] \in CredSteps => dropped[a] = DroppedAt[child[a]]
  /\ child[a] \in {"send", "sync", "exec", "session"} => dropped[a] = CredSteps

Synced ==
  /\ \A a \in Attempts : child[a] \in {"exec", "session"} /\ a \notin early =>
                            a \notin held
  /\ pc = "release" => term = "orig"

Inv == /\ TypeOK /\ Unserved /\ PamInOrder /\ Living /\ Dropping /\ Synced
       /\ ReapedIsClosed /\ SuccessIsEarned

(* What Login sees of an attempt.                                          *)
Account(a) == IF a > n THEN "idle"
              ELSE IF Granted \subseteq pam[a]
                   THEN IF a = n /\ pc \in Serving THEN "open" ELSE "abandoned"
                   ELSE IF a = n /\ pc \in PamUp THEN "verifying" ELSE "shut"
SessionOf(a) == IF child[a] \in {"zombie", "reaped"} THEN "over"
                ELSE IF child[a] = "session" THEN "running" ELSE "pending"

L == INSTANCE Login WITH account <- [a \in Attempts |-> Account(a)],
                         session <- [a \in Attempts |-> SessionOf(a)]

(* launch() and the processes it starts keep the promise Login states.     *)
KeepsPromise == L!Spec

SessionRuns == n # 0 /\ child[n] = "session"

(* The one way to hang: no child is left to write, and lidm itself holds   *)
(* the pipe open that it reads.                                            *)
BlockedOnOwnPipe == pc = "read" /\ msg[n] = "none" /\ child[n] \in {"none", "zombie"}

(* Every call of launch() comes back, ends lidm, or has its session run,   *)
(* whatever fails, unless the child died or was never there before its     *)
(* message (auth.c 335-341).                                               *)
LaunchProgresses == pc \in Serving ~>
  pc \in Exited \cup {"prompt"} \/ SessionRuns \/ BlockedOnOwnPipe

(* SIGTERM ends lidm, whatever lidm and the child were doing, unless a     *)
(* session that left the process group lives on (signal_handler.c 8-19).   *)
SigtermEnds == pc = "sigterm" ~>
  pc \in Exited \/ \E a \in Attempts : Alive(a) /\ a \notin group

(* The session that ended is torn down in PAM, unless a signal ends lidm.  *)
EndedIsClosed == (pc = "wait" /\ child[n] = "zombie") ~>
                   pc \in Exited \/ (n # 0 /\ pam[n] = {})

----------------------------------------------------------------------------
(* What the project's texts say and the code does not do; a run refutes it.*)

(* README.md 73: arrow keys navigate and typing overrides, which takes the *)
(* terminal mode that setup() chose, also after a session that failed.     *)
RawAtPrompt == pc = "prompt" => term = "raw"
=============================================================================
