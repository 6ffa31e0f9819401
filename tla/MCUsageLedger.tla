---------------------------- MODULE MCUsageLedger ----------------------------
(***************************************************************************)
(* Instances of UsageLedger for TLC.  Three facts: a legacy log sample in  *)
(* the first hour of day 0, a sample of another thread in its second hour, *)
(* and a rollout fact of the first thread on day 1.  The histories are what *)
(* infer_epochs yields when one workspace covers the first day and a half, *)
(* and when an ambiguous login lies between two resolved ones; LateStart   *)
(* is the history whose very first window was ambiguous, so that its first *)
(* epoch starts in the middle of a day.                                    *)
(***************************************************************************)
EXTENDS UsageLedger, TLC

CONSTANTS prj, P, A, t1, t2

Horizon == 9

MCThreadOf == (1 :> t1) @@ (2 :> t2) @@ (3 :> t1)
MCTimeOf   == (1 :> 1) @@ (2 :> 2) @@ (3 :> 5)

FromTheStart ==
    {<<[from |-> 0, to |-> 6, acct |-> A]>>,
     <<[from |-> 0, to |-> 1, acct |-> P], [from |-> 3, to |-> Horizon, acct |-> A]>>}

LateStart == {<<[from |-> 2, to |-> Horizon, acct |-> A]>>}
=============================================================================
