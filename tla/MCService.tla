----------------------------- MODULE MCService ------------------------------
(***************************************************************************)
(* Two people, each with a workspace, and one rollout.  Before the app is  *)
(* first opened, q wrote a line; then p's auth.json was put in its place,  *)
(* or q logged out and p logged in.  Or p wrote a line and logged out.     *)
(***************************************************************************)
EXTENDS Service

P == [person |-> "p", workspace |-> "u"]
Q == [person |-> "q", workspace |-> "w"]

MCPeople == {P, Q}
MCConsistent == {P}

Seen(a, t) == [kind |-> "account_seen", at |-> t, workspace |-> a.workspace]
Login(t)   == [kind |-> "login_success", at |-> t, workspace |-> None]
Logout(t)  == [kind |-> "logout", at |-> t, workspace |-> None]
LineBy(a, t) == [at |-> t, value |-> 1, by |-> a, stale |-> FALSE]

MCPasts == {
    [login |-> [account |-> P, generation |-> 0],
     log |-> <<Seen(Q, 0), Seen(P, 2)>>, lines |-> <<LineBy(Q, 1)>>],
    [login |-> [account |-> P, generation |-> 0],
     log |-> <<Seen(Q, 0), Logout(2), Login(3), Seen(P, 3)>>, lines |-> <<LineBy(Q, 1)>>],
    [login |-> None, log |-> <<Seen(P, 0), Logout(2)>>, lines |-> <<LineBy(P, 1)>>]}

\* What FiledRightlyHolds asks of the world that is given.
ASSUME PastsAssumption == OnePersonPerWorkspace /\ TruthfulPasts
=============================================================================
