------------------------------ MODULE Service -------------------------------
(***************************************************************************)
(* The app's controller and the Rust process, with the logins, logs and    *)
(* rollouts they live among.  The process has one variable that both       *)
(* write: the controller starts and stops it, its own loop does the rest.  *)
(***************************************************************************)
EXTENDS ServiceController

serviceVars == <<vars, controller>>

Init == DaemonInit /\ ControllerInit

Next ==
    \/ DaemonNext /\ UNCHANGED controller
    \/ ControllerNext /\ UNCHANGED <<login, log, files, ledger>>

\* A process at work goes on.  A tick that is due, and a server that has ended,
\* stay so until the loop, which picks at random among what is ready, takes
\* them; that a page closes its stream, nobody sees to.  A request is answered
\* or fails; the main actor runs its handlers.
Fairness ==
    /\ WF_serviceVars(Work /\ UNCHANGED controller)
    /\ SF_serviceVars(Tick /\ UNCHANGED controller)
    /\ SF_serviceVars(ServeEnds /\ UNCHANGED controller)
    /\ WF_serviceVars(StoreOfficialUsage /\ UNCHANGED controller)
    /\ WF_serviceVars(HandleTermination /\ UNCHANGED <<login, log, files, ledger>>)

Spec == Init /\ [][Next]_serviceVars /\ Fairness

-----------------------------------------------------------------------------
(* Properties *)

\* Every row and every field is of its kind, and an account that is filed
\* under is one that was logged in or the provisional one of a workspace.
ServiceTypeOK ==
    /\ epochs \in SUBSET Epoch
    /\ alias \in [Workspaces -> Alias \cup {None}]
    /\ imported \in 0 .. Len(log)
    /\ quota \in Seq(Snapshot) /\ cursors \in [Files -> Cursor \cup {None}]
    /\ \A f \in Files : files[f].lines \in Seq(Line)
    /\ proc.mode \in Modes \cup {None} /\ proc.todo \in Seq(Steps)
    /\ proc.binding \in Fingerprint \cup {None} /\ proc.left \subseteq Files
    /\ proc.alive => ctl.child /\ ctl.mode = proc.mode
    /\ Cardinality(OpenEpochs(epochs)) <= 1
    /\ torn \subseteq {"merge", "history"}
    /\ ctl.pending \in Modes \cup {None} /\ (ctl.pending # None => ctl.pending # ctl.mode)

\* account is what the ledger may call identity: itself, or its workspace's
\* provisional account.
Names(account, identity) == account \in {identity, Provisional(identity.workspace)}

\* What is filed under an account is that account's, unless the ledger could
\* not know better: quota lines go by their own time, whatever is observed,
\* imported or merged before they are read, and official answers by who was
\* asked for.
FiledRightly ==
    /\ \A i \in DOMAIN quota : quota[i].doubt \/ Names(quota[i].account, quota[i].by)
    /\ \A x \in Fingerprint : official[x] # None => Names(x, official[x])

\* Between its steps the ledger is settled, unless a process died in the
\* middle: the historical epochs are those that the imported rows call for, and
\* every epoch has the account that its workspace is linked to.
SettledUnlessTorn ==
    proc.todo = <<>> =>
        /\ "history" \notin torn =>
              InferEpochs(Markers, FirstSample) =
                {[from |-> e.from, to |-> e.to, workspace |-> e.account.workspace] : e \in Historical(epochs)}
        /\ "merge" \notin torn =>
              \A e \in epochs : alias[e.account.workspace].account = e.account

CaughtUp(f) ==
    /\ CursorMatches(cursors[f], files[f])
    /\ cursors[f].taken = SafeLine(epochs, files[f], cursors[f].taken)

\* A daemon that was told to end while it was at work: it has no server any
\* more, and its loop goes on.
MissedSignal == proc.mode = "daemon" /\ proc.handles /\ ~proc.http

\* The user leaves collection as it is, without having asked for it while the
\* process was being stopped for the other mode, and the service is not failed.
Settles(on) == app /\ enabled = on /\ ~crossed /\ ctl.state # "failed"

\* A dashboard that was told to end while a page held its stream of changes.
HeldOpen == proc.mode = "serve" /\ proc.held

\* If collection is left on, the daemon runs and takes every quota line up to
\* the first one that no epoch covers, through mode switches, restarts and
\* replaced files, unless a page holds the dashboard's server open.  If it is
\* left off, the daemon stops, unless the signal came while it was at work.
CollectionFollows ==
    /\ <>[](Settles(TRUE) /\ ~HeldOpen) => []<>(proc.mode = "daemon" /\ \A f \in Files : CaughtUp(f))
    /\ <>[](Settles(FALSE) /\ ~MissedSignal) => <>[](proc.mode # "daemon")

-----------------------------------------------------------------------------
(* What rows and lines must say of the past for FiledRightly to hold. *)

\* Nobody shares a workspace.
OnePersonPerWorkspace == \A a \in People, b \in People : a.workspace = b.workspace => a = b

\* The rows show a logged in at t: they have seen the workspace no earlier than
\* the first sample, and no logout since then.
Witnessed(rows, a, t) ==
    \E i \in DOMAIN rows :
        /\ rows[i].kind = "account_seen" /\ rows[i].workspace = a.workspace
        /\ FirstSample <= rows[i].at /\ rows[i].at <= t
        /\ \A j \in DOMAIN rows :
              rows[j].kind = "logout" => rows[j].at <= rows[i].at \/ t < rows[j].at

\* The lines of a rollout, at time t, are of people whom the rows show logged in.
LinesTrue(lines, rows, l, t) ==
    \A k \in DOMAIN lines :
        /\ lines[k].by \in People /\ lines[k].at <= t
        /\ Witnessed(rows, lines[k].by, lines[k].at)
        /\ lines[k].at = t /\ l # None => lines[k].by = l.account

\* So is who is logged in, and since then no other workspace was seen.
LoginTrue(l, rows, t) ==
    l # None =>
        /\ l.generation <= t
        /\ Witnessed(rows, l.account, t)
        /\ \A i \in DOMAIN rows :
              /\ rows[i].kind = "account_seen"
              /\ l.generation <= rows[i].at /\ FirstNow <= rows[i].at
              => rows[i].workspace = l.account.workspace

\* The log reaches back to the first sample, and it tells the truth of what
\* happened before the app was first opened.
TruthfulPasts ==
    /\ FirstSample <= FirstNow
    /\ \A past \in Pasts : /\ LinesTrue(past.lines, past.log, past.login, FirstNow)
                           /\ LoginTrue(past.login, past.log, FirstNow)
=============================================================================
