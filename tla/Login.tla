------------------------------- MODULE Login -------------------------------
(***************************************************************************)
(* What lidm promises to whoever logs in, without saying how: a login      *)
(* attempt is verified before a session is started for it, the account     *)
(* that was opened for a session is not closed under the session, and one  *)
(* attempt is served at a time.  Launch implements this specification.     *)
(***************************************************************************)
EXTENDS Naturals

CONSTANT Attempts       \* numbers of the login attempts, in their order

VARIABLES account,      \* what the login manager holds for each attempt
          session       \* what became of the session of each attempt

vars == <<account, session>>

TypeOK == /\ account \in [Attempts -> {"idle", "verifying", "open", "shut",
                                       "abandoned"}]
          /\ session \in [Attempts -> {"pending", "running", "over"}]

Init == /\ account = [a \in Attempts |-> "idle"]
        /\ session = [a \in Attempts |-> "pending"]

Move(a, from, to) == /\ account[a] \in from
                     /\ account' = [account EXCEPT ![a] = to]
                     /\ UNCHANGED session

(* An attempt begins only when the one before it is no longer served and   *)
(* no session runs.                                                        *)
Begin(a) == /\ \A b \in Attempts : /\ account[b] \notin {"verifying", "open"}
                                   /\ session[b] # "running"
                                   /\ b < a => account[b] # "idle"
            /\ Move(a, {"idle"}, "verifying")

Refuse(a) == Move(a, {"verifying"}, "shut")
Grant(a) == Move(a, {"verifying"}, "open")

(* Only the latest attempt gets a session, and only once it was granted.   *)
Start(a) == /\ account[a] \in {"open", "abandoned"}
            /\ \A b \in Attempts : b > a => account[b] = "idle"
            /\ session[a] = "pending"
            /\ session' = [session EXCEPT ![a] = "running"]
            /\ UNCHANGED account

Finish(a) == /\ account[a] \in {"open", "abandoned"}
             /\ session[a] # "over"
             /\ session' = [session EXCEPT ![a] = "over"]
             /\ UNCHANGED account

Close(a) == session[a] # "running" /\ Move(a, {"open"}, "shut")

(* The login manager leaves, or gives the attempt up, without closing it.  *)
Abandon(a) == Move(a, {"open"}, "abandoned")

Next == \E a \in Attempts : \/ Begin(a) \/ Refuse(a) \/ Grant(a)
                            \/ Start(a) \/ Finish(a)
                            \/ Close(a) \/ Abandon(a)

Spec == Init /\ [][Next]_vars
=============================================================================
