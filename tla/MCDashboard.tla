----------------------------- MODULE MCDashboard -----------------------------
(***************************************************************************)
(* Instances of Dashboard for TLC.  A thread of a project, and a           *)
(* standalone conversation whose child works in the project and has a      *)
(* child, and that one has t5, deeper than a tree reaches; an hour of two  *)
(* and a day of four time units, so that the rolling window of five begins *)
(* and ends within an hour.  Usages are sums of distinct powers of two,    *)
(* but for those that the choice of evidence has to compare: the           *)
(* reconstructed usage of t1's day 0 is larger than the sampled one, that  *)
(* of t2's day 1 is equal.  The run of the stale page has the two batches  *)
(* of samples for its only writes.                                         *)
(***************************************************************************)
EXTENDS Dashboard, TLC

CONSTANTS t1, t2, t3, t4, t5, acct1, acct2

Use(cached, written, fresh, reasoning, other) ==
    <<cached, written, fresh, reasoning, other>>

Sample(id, thread, parent, time, acct, proj, quality, usage) ==
    [id |-> id, source |-> "sampling", thread |-> thread, parent |-> parent, time |-> time,
     acct |-> acct, proj |-> proj, quality |-> quality, usage |-> usage]

Rebuilt(id, thread, parent, time, acct, proj, usage) ==
    [id |-> id, source |-> "reconstruction", thread |-> thread, parent |-> parent, time |-> time,
     acct |-> acct, proj |-> proj, quality |-> "confirmed", usage |-> usage]

s1 == Sample(1, t1, NoParent, 2, acct1, 1, "confirmed", Use(1, 0, 0, 0, 2))
s2 == Sample(2, t2, t3, 5, acct2, NoProject, "confirmed", Use(4, 8, 0, 0, 0))
s3 == Sample(3, t3, t4, 5, acct1, 1, "unknown", Use(0, 16, 0, 0, 0))
s4 == Sample(4, t4, NoParent, 6, acct1, NoProject, "confirmed", Use(0, 0, 32, 1, 0))
s5 == Sample(5, t5, t2, 6, NoAccount, 1, "confirmed", Use(64, 0, 0, 0, 0))
r1 == Rebuilt(6, t1, NoParent, 2, acct1, 1, Use(128, 0, 0, 0, 0))
r2 == Rebuilt(7, t2, t3, 5, acct2, NoProject, Use(4, 0, 8, 0, 0))

MCFacts   == {s1, s2, s3, s4, s5, r1, r2}
MCBatches == {{s1, s2, s3}, {s4, s5}}
MCRebuiltBatches == {{r1}, {r2}}

Row(parent, proj, native, updated) ==
    [parent |-> parent, proj |-> proj, native |-> native, updated |-> updated]

\* A scan that knows all, and one before the children.
EarlyScan == (t1 :> Row(NoParent, 1, TRUE, 2)) @@ (t4 :> Row(NoParent, NoProject, TRUE, 4))
FullScan  == (t5 :> Row(t2, 1, TRUE, 6)) @@ (t3 :> Row(t4, 1, TRUE, 6)) @@ (t2 :> Row(t3, NoProject, TRUE, 6)) @@ EarlyScan
MCScans   == {EarlyScan, FullScan}

MCAnswers ==
    {<<acct1, [lifetime |-> 300, days |-> (0 :> 90) @@ (1 :> 20)]>>,
     <<acct1, [lifetime |-> NoValue, days |-> (0 :> 7)]>>,
     <<acct2, [lifetime |-> 50, days |-> (0 :> 0) @@ (1 :> 5)]>>}

MCAliases == [x \in {} |-> FALSE]
AllAccounts == [acct |-> Unfiltered, proj |-> Unfiltered]
=============================================================================
