---------------------------- MODULE LaunchProofs ----------------------------
(***************************************************************************)
(* Proofs about Launch, for any number of attempts and any set of faults:  *)
(* its invariants, and that it implements Login.                           *)
(***************************************************************************)
EXTENDS Launch, TLAPS

USE DEF Attempts, pamVars, childVars, pipeVars

(* Every step keeps the types (the ground of every other proof).           *)
LEMMA TypeStep == TypeOK /\ [Next]_vars => TypeOK'
<1> SUFFICES ASSUME TypeOK, [Next]_vars PROVE TypeOK'
  OBVIOUS
<1> USE MaxAttemptsAssumption
    DEF TypeOK, Serving, Exited, BeforeExec, PamUp, PamDown, CredSteps,
        Granted, OfHandle
<1>1. CASE Begin
  BY <1>1 DEF Begin
<1>2. CASE Sigterm
  BY <1>2 DEF Sigterm
<1>3. CASE Interrupt
  BY <1>3 DEF Interrupt
<1>4. CASE PamSucceeds
  BY <1>4 DEF PamSucceeds, Gains, AfterUp
<1>5. CASE PamFails
  BY <1>5 DEF PamFails
<1>6. CASE Environment
  BY <1>6 DEF Environment
<1>7. CASE Fork
  BY <1>7 DEF Fork
<1>8. CASE ReadMsg
  BY <1>8 DEF ReadMsg
<1>9. CASE Restore
  BY <1>9 DEF Restore
<1>10. CASE Release
  BY <1>10 DEF Release
<1>11. CASE Wait
  BY <1>11 DEF Wait
<1>12. CASE TearDown
  BY <1>12 DEF TearDown, Returns
<1>13. CASE ReapAll
  BY <1>13 DEF ReapAll
<1>14. ASSUME NEW a \in Attempts, Child(a) PROVE TypeOK'
  <2>1. CASE DropPrivilege(a)
    <3>1. AfterCred[child[a]] \in BeforeExec
      BY <2>1 DEF DropPrivilege, AfterCred
    <3>2. child' \in [Attempts -> {"none", "session", "zombie", "reaped"} \cup BeforeExec]
      BY <2>1, <3>1 DEF DropPrivilege
    <3>3. dropped' \in [Attempts -> SUBSET CredSteps]
      BY <2>1 DEF DropPrivilege
    <3> QED BY <2>1, <3>2, <3>3 DEF DropPrivilege
  <2>2. CASE DropFails(a)
    BY <2>2 DEF DropFails
  <2>7. CASE FailExits(a)
    BY <2>7 DEF FailExits, Dies
  <2>3. CASE SendOk(a)
    BY <2>3 DEF SendOk
  <2>4. CASE DummyRead(a)
    BY <2>4 DEF DummyRead
  <2>5. CASE Exec(a)
    BY <2>5 DEF Exec, Dies
  <2>6. CASE HandleSigterm(a)
    BY <2>6 DEF HandleSigterm, Dies
  <2> QED BY <1>14, <2>1, <2>2, <2>3, <2>4, <2>5, <2>6, <2>7 DEF Child
<1>15. ASSUME NEW a \in Attempts, Outside(a) PROVE TypeOK'
  <2>1. CASE SessionEnds(a)
    BY <2>1 DEF SessionEnds, Dies
  <2>2. CASE Killed(a)
    BY <2>2 DEF Killed, Dies
  <2>3. CASE Regroup(a)
    BY <2>3 DEF Regroup
  <2> QED BY <1>15, <2>1, <2>2, <2>3 DEF Outside
<1>16. CASE UNCHANGED vars
  BY <1>16 DEF vars
<1> QED BY <1>1, <1>2, <1>3, <1>4, <1>5, <1>6, <1>7, <1>8, <1>9, <1>10,
           <1>11, <1>12, <1>13, <1>14, <1>15, <1>16 DEF Next, Lidm

(* The variables keep their types in every behaviour.                      *)
THEOREM TypeCorrect == Spec => []TypeOK
<1>1. Init => TypeOK
  BY MaxAttemptsAssumption DEF Init, TypeOK, Serving, Exited, BeforeExec,
     PamUp, PamDown
<1> QED BY <1>1, TypeStep, PTL DEF Spec

(* Every step keeps the inductive invariant.                               *)
LEMMA InvStep == Inv /\ [Next]_vars => Inv'
<1> SUFFICES ASSUME Inv, [Next]_vars PROVE Inv'
  OBVIOUS
<1>0. TypeOK'
  BY TypeStep DEF Inv
<1> USE MaxAttemptsAssumption, <1>0
    DEF Inv, TypeOK, Unserved, Fresh, PamInOrder, Before, Living, AtWork, Alive, Able,
        Dropping, DroppedAt, Synced, ReapedIsClosed, SuccessIsEarned, Serving,
        Exited, BeforeExec, PamUp, PamDown, CredSteps, Granted, OfHandle
<1>1. CASE Begin
  BY <1>1 DEF Begin
<1>2. CASE Sigterm
  BY <1>2 DEF Sigterm
<1>3. CASE Interrupt
  BY <1>3 DEF Interrupt
<1>4. CASE PamSucceeds
  BY <1>4 DEF PamSucceeds, Gains, AfterUp
<1>5. CASE PamFails
  BY <1>5 DEF PamFails
<1>6. CASE Environment
  BY <1>6 DEF Environment
<1>7. CASE Fork
  <2> USE <1>7 DEF Fork
  <2>1. Unserved'
    OBVIOUS
  <2>2. PamInOrder'
    OBVIOUS
  <2>3. Living'
    <3>1. child[n] = "none" /\ pam' = pam /\ msg' = msg /\ msg[n] # "err"
      OBVIOUS
    <3> QED BY <3>1
  <2>4. Dropping'
    <3>1. dropped' = dropped /\ dropped[n] = {}
      OBVIOUS
    <3>2. ASSUME NEW a \in Attempts
          PROVE /\ child'[a] \in CredSteps => dropped'[a] = DroppedAt[child'[a]]
                /\ child'[a] \in {"send", "sync", "exec", "session"} =>
                     dropped'[a] = CredSteps
      <4>1. CASE child'[a] = child[a]
        BY <3>1, <4>1
      <4>2. CASE child'[a] = "chdir" /\ a = n
        BY <3>1, <4>2
      <4> QED BY <4>1, <4>2
    <3> QED BY <3>2
  <2>5. Synced'
    OBVIOUS
  <2>6. ReapedIsClosed' /\ SuccessIsEarned'
    OBVIOUS
  <2> QED BY <1>0, <2>1, <2>2, <2>3, <2>4, <2>5, <2>6
<1>8. CASE ReadMsg
  BY <1>8 DEF ReadMsg
<1>9. CASE Restore
  BY <1>9 DEF Restore
<1>10. CASE Release
  BY <1>10 DEF Release
<1>11. CASE Wait
  BY <1>11 DEF Wait
<1>12. CASE TearDown
  BY <1>12 DEF TearDown, Returns
<1>13. CASE ReapAll
  BY <1>13 DEF ReapAll
<1>14. ASSUME NEW a \in Attempts, Child(a) PROVE Inv'
  <2>1. CASE DropPrivilege(a)
    <3> USE <2>1 DEF DropPrivilege, AfterCred
    <3>1. Unserved'
      OBVIOUS
    <3>2. PamInOrder' /\ ReapedIsClosed' /\ SuccessIsEarned'
      OBVIOUS
    <3>3. Living'
      OBVIOUS
    <3>4. Dropping'
      <4>1. /\ dropped'[a] = DroppedAt[child[a]] \cup {child[a]}
            /\ child'[a] = AfterCred[child[a]]
        OBVIOUS
      <4>2. CASE child[a] = "chdir"
        BY <4>1, <4>2
      <4>3. CASE child[a] = "setgid"
        BY <4>1, <4>3
      <4>4. CASE child[a] = "initgroups"
        BY <4>1, <4>4
      <4>5. CASE child[a] = "setuid"
        BY <4>1, <4>5
      <4> QED BY <4>2, <4>3, <4>4, <4>5
    <3>5. Synced'
      OBVIOUS
    <3> QED BY <1>0, <3>1, <3>2, <3>3, <3>4, <3>5
  <2>2. CASE DropFails(a)
    BY <2>2 DEF DropFails
  <2>7. CASE FailExits(a)
    BY <2>7 DEF FailExits, Dies
  <2>3. CASE SendOk(a)
    BY <2>3 DEF SendOk
  <2>4. CASE DummyRead(a)
    BY <2>4 DEF DummyRead
  <2>5. CASE Exec(a)
    <3>1. CASE Dies(a, TRUE)
      BY <2>5, <3>1 DEF Exec, Dies
    <3>2. CASE child' = [child EXCEPT ![a] = "session"] /\ UNCHANGED failed
      <4> USE <2>5, <3>2 DEF Exec
      <4>1. Unserved' /\ PamInOrder' /\ ReapedIsClosed' /\ SuccessIsEarned'
        OBVIOUS
      <4>2. Living'
        OBVIOUS
      <4>3. Dropping'
        OBVIOUS
      <4>4. Synced'
        OBVIOUS
      <4> QED BY <1>0, <4>1, <4>2, <4>3, <4>4
    <3> QED BY <2>5, <3>1, <3>2 DEF Exec
  <2>6. CASE HandleSigterm(a)
    BY <2>6 DEF HandleSigterm, Dies
  <2> QED BY <1>14, <2>1, <2>2, <2>3, <2>4, <2>5, <2>6, <2>7 DEF Child
<1>15. ASSUME NEW a \in Attempts, Outside(a) PROVE Inv'
  <2>1. CASE SessionEnds(a)
    BY <2>1 DEF SessionEnds, Dies
  <2>2. CASE Killed(a)
    BY <2>2 DEF Killed, Dies
  <2>3. CASE Regroup(a)
    BY <2>3 DEF Regroup
  <2> QED BY <1>15, <2>1, <2>2, <2>3 DEF Outside
<1>16. CASE UNCHANGED vars
  BY <1>16 DEF vars
<1> QED BY <1>1, <1>2, <1>3, <1>4, <1>5, <1>6, <1>7, <1>8, <1>9, <1>10, <1>11,
           <1>12, <1>13, <1>14, <1>15, <1>16 DEF Next, Lidm

(* The inductive invariant holds in every behaviour.                       *)
THEOREM InvCorrect == Spec => []Inv
<1>1. Init => Inv
  BY MaxAttemptsAssumption
     DEF Init, Inv, TypeOK, Unserved, Fresh, PamInOrder, Living, Alive, Able,
         Dropping, Synced, ReapedIsClosed, SuccessIsEarned, Serving, Exited,
         BeforeExec, PamUp, PamDown, CredSteps
<1> QED BY <1>1, InvStep, PTL DEF Spec

(* A session runs only for the attempt in hand, as the user and nobody     *)
(* else, and while PAM holds everything that get_pamh() obtained for it.   *)
THEOREM SessionLegit == Spec => []SessionIsLegit
<1>1. Inv => SessionIsLegit
  BY DEF Inv, Living, Dropping, Alive, Able, SessionIsLegit
<1> QED BY <1>1, InvCorrect, PTL

(* A session that did not start early starts on a terminal given back.     *)
THEOREM Handover == Spec => []HandedOver
<1>1. Inv => HandedOver
  BY DEF Inv, Living, Synced, Alive, Able, HandedOver
<1> QED BY <1>1, InvCorrect, PTL

(* At the prompt, during the next attempt's PAM calls, during a tear-down  *)
(* and after exit(0), what may be left of an attempt is a child that has   *)
(* reported its error and is about to _exit(); after SIGTERM, nothing.     *)
THEOREM NothingLeft == Spec => []NoneLeftBehind
<1>1. Inv => NoneLeftBehind
  BY DEF Inv, Living, AtWork, NoneLeftBehind, PamUp, PamDown
<1> QED BY <1>1, InvCorrect, PTL

(* PAM holds nothing for a child that launch() has waited for.             *)
THEOREM ClosedAfterWait == Spec => []ReapedIsClosed
<1>1. Inv => ReapedIsClosed
  BY DEF Inv
<1> QED BY <1>1, InvCorrect, PTL

(* lidm exits with success only after a child that ended well.             *)
THEOREM SuccessEarned == Spec => []SuccessIsEarned
<1>1. Inv => SuccessIsEarned
  BY DEF Inv
<1> QED BY <1>1, InvCorrect, PTL
----------------------------------------------------------------------------
(* A step that changes neither the account nor the session of any attempt  *)
(* is a stutter of Login.                                                  *)
LEMMA Stutter ==
  ASSUME \A a \in Attempts : Account(a)' = Account(a) /\ SessionOf(a)' = SessionOf(a)
  PROVE  UNCHANGED L!vars
BY DEF L!vars

(* A step that changes the account of one attempt only moves it.           *)
LEMMA Moves ==
  ASSUME NEW a \in Attempts, NEW from, NEW to,
         Account(a) \in from, Account(a)' = to,
         \A b \in Attempts : b # a => Account(b)' = Account(b),
         \A b \in Attempts : SessionOf(b)' = SessionOf(b)
  PROVE  L!Move(a, from, to)
BY DEF L!Move

(* The processes of a step that leaves lidm and PAM alone: the account of  *)
(* every attempt stays as it is.                                           *)
LEMMA SameAccounts ==
  ASSUME UNCHANGED <<pc, n, pam>>
  PROVE  \A a \in Attempts : Account(a)' = Account(a)
BY DEF Account

(* A child that ends finishes the session of its attempt.                  *)
LEMMA Ends ==
  ASSUME Inv, NEW a \in Attempts, NEW bad \in BOOLEAN, Alive(a), Dies(a, bad),
         UNCHANGED <<pc, n, pam>>
  PROVE  L!Next
<1>1. a <= n /\ Granted \subseteq pam[a] /\ n \in Nat /\ a \in Nat
  BY DEF Inv, TypeOK, Living
<1>2. Account(a) \in {"open", "abandoned"}
  BY <1>1 DEF Account
<1>3. SessionOf(a) # "over" /\ SessionOf(a)' = "over"
  BY DEF Inv, TypeOK, Alive, BeforeExec, CredSteps, Dies, SessionOf
<1>4. \A b \in Attempts : b # a => SessionOf(b)' = SessionOf(b)
  BY DEF Inv, TypeOK, Dies, SessionOf
<1>5. L!Finish(a)
  BY <1>2, <1>3, <1>4, SameAccounts DEF L!Finish
<1> QED BY <1>5 DEF L!Next

(* When lidm stops serving, with PAM untouched, the attempt in hand is     *)
(* refused, abandoned, or was not open any more.                           *)
LEMMA Leaves ==
  ASSUME Inv, pc' \notin Serving, UNCHANGED <<n, pam>>,
         \A b \in Attempts : SessionOf(b)' = SessionOf(b)
  PROVE  L!Next \/ UNCHANGED L!vars
<1>1. \A b \in Attempts : (b = n => pc \notin Serving) => Account(b)' = Account(b)
  BY DEF Account, Serving
<1>2. CASE pc \notin Serving
  BY <1>1, <1>2, Stutter
<1>3. CASE pc \in Serving
  <2>1. PICK k \in Attempts : k = n
    BY <1>3 DEF Inv, TypeOK
  <2>2. \A b \in Attempts : b # k => Account(b)' = Account(b)
    BY <1>1, <2>1
  <2>3. \/ Account(k) = "open" /\ Account(k)' = "abandoned"
        \/ Account(k) = "verifying" /\ Account(k)' = "shut"
        \/ Account(k)' = Account(k)
    BY <1>3, <2>1 DEF Account, Serving
  <2>4. CASE Account(k) = "open" /\ Account(k)' = "abandoned"
    BY <2>1, <2>2, <2>4, Moves DEF L!Abandon, L!Next
  <2>5. CASE Account(k) = "verifying" /\ Account(k)' = "shut"
    BY <2>1, <2>2, <2>5, Moves DEF L!Refuse, L!Next
  <2>6. CASE Account(k)' = Account(k)
    BY <2>2, <2>6, Stutter
  <2> QED BY <2>3, <2>4, <2>5, <2>6
<1> QED BY <1>2, <1>3

(* Every step of Launch is a step of Login or a stutter.                   *)
LEMMA StepSimulation == Inv /\ [Next]_vars => [L!Next]_(L!vars)
<1> SUFFICES ASSUME Inv, [Next]_vars PROVE L!Next \/ UNCHANGED L!vars
  BY DEF L!vars
<1> USE MaxAttemptsAssumption
<1>0. /\ n \in 0 .. MaxAttempts /\ (pc \in Serving => n \in Attempts)
      /\ child \in [Attempts -> {"none", "session", "zombie", "reaped"}
                               \cup BeforeExec]
      /\ pam \in [Attempts -> SUBSET Granted]
  BY DEF Inv, TypeOK
<1>1. CASE Begin
  <2> PICK k \in Attempts : k = n + 1
    BY <1>0, <1>1 DEF Begin
  <2>1. n' = k /\ pc' = "getpwnam" /\ pam' = pam /\ child' = child
    BY <1>1 DEF Begin
  <2>2. \A b \in Attempts : SessionOf(b)' = SessionOf(b) /\ SessionOf(b) # "running"
    BY <1>1, <2>1 DEF Begin, SessionOf, Inv, Living, Alive, Able, AtWork
  <2>3. Account(k) = "idle" /\ Account(k)' = "verifying"
    <3>1. pam[k] = {}
      BY <1>0 DEF Inv, Unserved
    <3> QED BY <1>0, <2>1, <3>1 DEF Account, PamUp, Granted
  <2>4. \A b \in Attempts : /\ b # k => Account(b)' = Account(b)
                            /\ Account(b) \notin {"verifying", "open"}
                            /\ b < k => Account(b) # "idle"
    BY <1>0, <1>1, <2>1 DEF Begin, Account, PamUp, PamDown, Serving
  <2>5. L!Begin(k)
    <3>1. L!Move(k, {"idle"}, "verifying")
      <4>1. \A b \in Attempts : SessionOf(b)' = SessionOf(b)
        BY <2>2
      <4>2. \A b \in Attempts : b # k => Account(b)' = Account(b)
        BY <2>4
      <4> QED BY <2>3, <4>1, <4>2, Moves
    <3>2. \A b \in Attempts : /\ Account(b) \notin {"verifying", "open"}
                              /\ SessionOf(b) # "running"
                              /\ b < k => Account(b) # "idle"
      BY <2>2, <2>4
    <3> QED BY <3>1, <3>2 DEF L!Begin
  <2> QED BY <2>5 DEF L!Next
<1>2. CASE PamSucceeds
  <2> PICK k \in Attempts : k = n
    BY <1>0, <1>2 DEF PamSucceeds, Serving
  <2>1. n' = n /\ pc \in PamUp /\ pc' \in PamUp \cup {"env"} /\ child' = child
    BY <1>0, <1>2 DEF PamSucceeds, PamUp, AfterUp, Serving
  <2>2. /\ pam[n] \subseteq pam'[n]
        /\ \A b \in Attempts : b # k => pam'[b] = pam[b]
    BY <1>0, <1>2, <2>1 DEF PamSucceeds
  <2>3. \A b \in Attempts : SessionOf(b)' = SessionOf(b)
    BY <2>1 DEF SessionOf
  <2>4. \A b \in Attempts : b # k => Account(b)' = Account(b)
    BY <2>1, <2>2 DEF Account
  <2>5. Account(k)' = Account(k) \/ (Account(k) = "verifying" /\ Account(k)' = "open")
    <3>1. pc' \in PamUp \/ Granted \subseteq pam[n]
      BY <1>2 DEF PamSucceeds, AfterUp, PamUp, Inv, PamInOrder, Before
    <3> QED BY <1>0, <2>1, <2>2, <3>1 DEF Account, Serving
  <2>6. CASE Account(k)' = Account(k)
    BY <2>3, <2>4, <2>6, Stutter
  <2>7. CASE Account(k) = "verifying" /\ Account(k)' = "open"
    <3>1. L!Grant(k)
      BY <2>1, <2>3, <2>4, <2>7, Moves DEF L!Grant
    <3> QED BY <2>1, <3>1 DEF L!Next
  <2> QED BY <2>5, <2>6, <2>7
<1>3. CASE PamFails
  <2> PICK k \in Attempts : k = n
    BY <1>0, <1>3 DEF PamFails, Serving
  <2>1. /\ pc \in PamUp /\ pc' = "prompt" /\ n' = n /\ child' = child
        /\ ~ Granted \subseteq pam'[n]
        /\ \A b \in Attempts : b # k => pam'[b] = pam[b]
    BY <1>0, <1>3 DEF PamFails, Granted, OfHandle, Serving
  <2>2. \A b \in Attempts : SessionOf(b)' = SessionOf(b)
    BY <2>1 DEF SessionOf
  <2>3. \A b \in Attempts : b # k => Account(b)' = Account(b)
    BY <2>1 DEF Account
  <2>4. Account(k) \in {"verifying", "open"} /\ Account(k)' = "shut"
    BY <1>0, <2>1 DEF Account, Serving, PamUp
  <2>5. SessionOf(k) # "running"
    BY <1>0, <2>1 DEF SessionOf, Inv, Unserved, Fresh
  <2>6. CASE Account(k) = "verifying"
    BY <2>1, <2>2, <2>3, <2>4, <2>6, Moves DEF L!Refuse, L!Next
  <2>7. CASE Account(k) = "open"
    BY <2>1, <2>2, <2>3, <2>4, <2>5, <2>7, Moves DEF L!Close, L!Next
  <2> QED BY <2>4, <2>6, <2>7
<1>4. CASE Environment
  <2>1. UNCHANGED <<n, pam, child>> /\ pc = "env" /\ pc' \in {"fork", "prompt"}
    BY <1>4 DEF Environment
  <2>2. \A b \in Attempts : SessionOf(b)' = SessionOf(b)
    BY <2>1 DEF SessionOf
  <2>3. CASE pc' = "fork"
    <3>1. \A b \in Attempts : Account(b)' = Account(b)
      BY <2>1, <2>3 DEF Account, Serving, PamUp
    <3> QED BY <2>2, <3>1, Stutter
  <2>4. CASE pc' = "prompt"
    BY <2>1, <2>2, <2>4, Leaves DEF Serving, PamUp, PamDown
  <2> QED BY <2>1, <2>3, <2>4
<1>5. CASE Fork \/ Restore \/ Release \/ Wait
  <2>1. /\ UNCHANGED <<n, pam>>
        /\ {pc, pc'} \subseteq Serving \ PamUp
    BY <1>5 DEF Fork, Restore, Release, Wait, Serving, PamUp, PamDown
  <2>2. \A b \in Attempts : Account(b)' = Account(b)
    BY <2>1 DEF Account
  <2>3. \A b \in Attempts : SessionOf(b)' = SessionOf(b)
    BY <1>0, <1>5
       DEF Fork, Restore, Release, Wait, SessionOf, Inv, Unserved, Fresh, Serving
  <2> QED BY <2>2, <2>3, Stutter
<1>6. CASE ReadMsg
  <2>1. UNCHANGED <<n, pam, child>> /\ pc = "read" /\ pc' \in {"prompt", "restore"}
    BY <1>6 DEF ReadMsg
  <2>2. \A b \in Attempts : SessionOf(b)' = SessionOf(b)
    BY <2>1 DEF SessionOf
  <2>3. CASE pc' = "restore"
    <3>1. \A b \in Attempts : Account(b)' = Account(b)
      BY <2>1, <2>3 DEF Account, Serving, PamUp
    <3> QED BY <2>2, <3>1, Stutter
  <2>4. CASE pc' = "prompt"
    BY <2>1, <2>2, <2>4, Leaves DEF Serving, PamUp, PamDown
  <2> QED BY <2>1, <2>3, <2>4
<1>7. CASE TearDown
  <2> PICK k \in Attempts : k = n
    BY <1>0, <1>7 DEF TearDown, Serving
  <2>1. /\ pc \in PamDown /\ n' = n /\ child' = child
        /\ pc' \in PamDown \cup {"prompt", "exit_success"}
        /\ \A b \in Attempts : b # k => pam'[b] = pam[b]
        /\ ~ Granted \subseteq pam'[n]
    BY <1>0, <1>7
       DEF TearDown, Returns, PamDown, Serving, Granted, OfHandle, Inv, PamInOrder
  <2>2. \A b \in Attempts : SessionOf(b)' = SessionOf(b)
    BY <2>1 DEF SessionOf
  <2>3. \A b \in Attempts : b # k => Account(b)' = Account(b)
    BY <2>1 DEF Account
  <2>4. SessionOf(k) = "over"
    BY <2>1 DEF SessionOf, Inv, PamInOrder
  <2>5. Account(k)' = "shut" /\ Account(k) \in {"open", "shut"}
    BY <1>0, <2>1 DEF Account, Serving, PamUp, PamDown
  <2>6. CASE Account(k) = "open"
    BY <2>1, <2>2, <2>3, <2>4, <2>5, <2>6, Moves DEF L!Close, L!Next
  <2>7. CASE Account(k) = "shut"
    BY <2>2, <2>3, <2>5, <2>7, Stutter
  <2> QED BY <2>5, <2>6, <2>7
<1>8. CASE Sigterm \/ ReapAll \/ Interrupt
  <2>1. UNCHANGED <<n, pam>> /\ pc' \in Exited \cup {"sigterm"}
    BY <1>8 DEF Sigterm, ReapAll, Interrupt, Exited
  <2>2. \A b \in Attempts : SessionOf(b)' = SessionOf(b)
    BY <1>0, <1>8 DEF Sigterm, ReapAll, Interrupt, SessionOf
  <2> QED BY <2>1, <2>2, Leaves DEF Serving, Exited, PamUp, PamDown
<1>9. ASSUME NEW a \in Attempts, Child(a) PROVE L!Next \/ UNCHANGED L!vars
  <2>1. UNCHANGED <<pc, n, pam>>
    BY <1>9 DEF Child, DropPrivilege, DropFails, FailExits, SendOk, DummyRead, Exec, HandleSigterm
  <2>2. CASE DropPrivilege(a) \/ DropFails(a) \/ SendOk(a) \/ DummyRead(a)
    <3>1. \A b \in Attempts : SessionOf(b)' = SessionOf(b)
      BY <1>0, <2>2
         DEF DropPrivilege, DropFails, SendOk, DummyRead, SessionOf, AfterCred,
             CredSteps
    <3> QED BY <2>1, <3>1, SameAccounts, Stutter
  <2>3. CASE FailExits(a) \/ HandleSigterm(a)
    BY <2>1, <2>3, Ends DEF FailExits, HandleSigterm, Alive, BeforeExec
  <2>4. CASE Exec(a)
    <3>1. CASE Dies(a, TRUE)
      BY <2>1, <2>4, <3>1, Ends DEF Exec, Alive, BeforeExec
    <3>2. CASE child' = [child EXCEPT ![a] = "session"]
      <4>1. a = n /\ Granted \subseteq pam[a]
        BY <2>4 DEF Exec, Inv, Living, Alive, Able, BeforeExec
      <4>2. Account(a) \in {"open", "abandoned"}
        BY <1>0, <4>1 DEF Account
      <4>3. \A b \in Attempts : b > a => Account(b) = "idle"
        BY <4>1 DEF Account
      <4>4. SessionOf(a) = "pending" /\ SessionOf(a)' = "running"
        BY <1>0, <2>4, <3>2 DEF Exec, SessionOf
      <4>5. \A b \in Attempts : b # a => SessionOf(b)' = SessionOf(b)
        BY <1>0, <3>2 DEF SessionOf
      <4>6. L!Start(a)
        BY <2>1, <4>2, <4>3, <4>4, <4>5, SameAccounts DEF L!Start
      <4> QED BY <4>6 DEF L!Next
    <3> QED BY <2>4, <3>1, <3>2 DEF Exec
  <2> QED BY <1>9, <2>2, <2>3, <2>4 DEF Child
<1>10. ASSUME NEW a \in Attempts, Outside(a) PROVE L!Next \/ UNCHANGED L!vars
  <2>1. UNCHANGED <<pc, n, pam>>
    BY <1>10 DEF Outside, SessionEnds, Killed, Regroup
  <2>2. CASE SessionEnds(a) \/ Killed(a)
    BY <2>1, <2>2, Ends DEF SessionEnds, Killed, Alive
  <2>3. CASE Regroup(a)
    <3>1. \A b \in Attempts : SessionOf(b)' = SessionOf(b)
      BY <2>3 DEF Regroup, SessionOf
    <3> QED BY <2>1, <3>1, SameAccounts, Stutter
  <2> QED BY <1>10, <2>2, <2>3 DEF Outside
<1>11. CASE UNCHANGED vars
  BY <1>11 DEF vars, L!vars, Account, SessionOf
<1> QED BY <1>1, <1>2, <1>3, <1>4, <1>5, <1>6, <1>7, <1>8, <1>9, <1>10, <1>11
        DEF Next, Lidm

(* launch() and the processes it starts keep what Login promises.          *)
THEOREM Refines == Spec => KeepsPromise
<1>1. Init => L!Init
  BY MaxAttemptsAssumption DEF Init, L!Init, Account, SessionOf
<1> QED BY <1>1, StepSimulation, InvCorrect, PTL DEF Spec, KeepsPromise, L!Spec
=============================================================================
