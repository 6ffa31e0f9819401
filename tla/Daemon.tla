------------------------------- MODULE Daemon -------------------------------
(***************************************************************************)
(* The Rust process in its two modes (src/src/main.rs): run_daemon, which  *)
(* collects, and run_dashboard_only, which serves the page.  Both observe  *)
(* auth.json, read the login history, fetch official usage and answer      *)
(* HTTP; the daemon also files the quota lines of rollouts.                *)
(*                                                                         *)
(* A transaction is a step, and the process may be killed between any two. *)
(* The import of samples and the reconstruction, which run in the same     *)
(* loop, are SamplingCollector and Reconstruction.                         *)
(***************************************************************************)
EXTENDS QuotaTail

CONSTANTS
    People,        \* the accounts that log in
    Files,         \* rollouts of recent root sessions
    Pasts,         \* what may have happened before the app is first opened:
                   \* records of the login, the log's rows and a rollout's lines
    FirstNow,      \* the time of that
    FirstSample,   \* time of the first sample in the log
    Recent,        \* the longest time that five seconds may be
    ObserveEvery,  \* ticks between two observations of auth.json
    MaxTime        \* bound on what happens from outside: logins, lines, requests
                   \* of the user and faults each take one unit of time

Modes == {"serve", "daemon"}

ASSUME DaemonAssumption ==
    /\ Consistent \subseteq People /\ People \subseteq Identity
    /\ FirstSample \in Nat /\ BootstrapLines \in Nat /\ Recent \in Nat
    /\ ObserveEvery \in Nat \ {0}
    /\ FirstNow \in Nat /\ MaxTime \in Nat
    /\ None \notin Nat \cup Modes \cup Fingerprint \cup Epoch \cup Alias \cup Cursor
    /\ \A past \in Pasts : /\ past.login \in [account : People, generation : 0 .. FirstNow] \cup {None}
                           /\ past.log \in Seq(Marker) /\ past.lines \in Seq(Line)
                           /\ \A i \in DOMAIN past.log : past.log[i].at <= FirstNow
                           /\ \A i \in DOMAIN past.lines : past.lines[i].at <= FirstNow

VARIABLES
    now,        \* the time
    login,      \* auth.json: who is logged in, with which credentials
    log,        \* the login rows of Codex' log
    files,      \* the quota lines of each rollout
    epochs,     \* auth_epochs
    alias,      \* account_workspace_aliases
    imported,   \* rows in auth_log_markers
    quota,      \* quota_snapshots
    cursors,    \* the quota cursors
    official,   \* whose answer is stored for each account
    proc,       \* the process
    request,    \* an HTTP request for a refresh of official usage
    torn        \* ghost: work of several transactions that a kill cut short

world  == <<now, login, log, files>>
ledger == <<epochs, alias, imported, quota, cursors, official>>
vars   == <<world, ledger, proc, request, torn>>

Steps == {"epoch", "alias", "merge", "listen", "markers", "infer", "replace", "official", "quota"}

\* todo holds the steps that the code still takes before it waits again; http
\* is whether the server listens, handles whether SIGTERM no longer kills the
\* process, held whether a page kept the stream of changes open when the server
\* was told to end.
Dead == [alive |-> FALSE, mode |-> None, todo |-> <<>>, ticks |-> 0, binding |-> None,
         read |-> None, old |-> None, left |-> {}, http |-> FALSE, handles |-> FALSE,
         held |-> FALSE]

Startup(mode) ==
    IF mode = "daemon" THEN <<"epoch", "listen", "markers", "official", "quota">>
    ELSE <<"epoch", "listen", "markers", "official">>
Started(mode) == [Dead EXCEPT !.alive = TRUE, !.mode = mode, !.todo = Startup(mode), !.left = Files]

Idle == proc.alive /\ proc.todo = <<>>
Doing(step) == proc.alive /\ proc.todo # <<>> /\ Head(proc.todo) = step
Continue(p, more) == [p EXCEPT !.todo = more \o Tail(@)]
\* The server is still to be started.
Starting(p) == \E i \in DOMAIN p.todo : p.todo[i] = "listen"

\* The ledger's open epoch is the login that auth.json holds.
Fresh == login # None /\ \E e \in OpenEpochs(epochs) : e.generation = login.generation
\* It is another login's.
Stale == \E e \in OpenEpochs(epochs) : login = None \/ e.generation # login.generation

DaemonInit ==
    /\ now = FirstNow
    /\ \E past \in Pasts :
          /\ login = past.login /\ log = past.log
          /\ files = [f \in Files |-> [id |-> 0, lines |-> past.lines]]
    /\ epochs = {} /\ alias = [w \in Workspaces |-> None] /\ imported = 0
    /\ quota = <<>> /\ cursors = [f \in Files |-> None]
    /\ official = [a \in Fingerprint |-> None]
    /\ proc = Dead /\ request = None /\ torn = {}

-----------------------------------------------------------------------------
(* The outside world: logins, Codex' log and its rollouts. *)

Happens == now < MaxTime /\ now' = now + 1

Row(kind, w) == [kind |-> kind, at |-> now', workspace |-> w]

LogIn(a) ==
    /\ Happens /\ login = None
    /\ login' = [account |-> a, generation |-> now']
    /\ log' = log \o <<Row("login_success", None), Row("account_seen", a.workspace)>>
    /\ UNCHANGED <<files, ledger, proc, request, torn>>

LogOut ==
    /\ Happens /\ login # None
    /\ login' = None
    /\ log' = Append(log, Row("logout", None))
    /\ UNCHANGED <<files, ledger, proc, request, torn>>

\* Another auth.json is put in place, or its tokens rotate: only a reload is logged.
SwapAuth(a) ==
    /\ Happens /\ login # None
    /\ login' = [account |-> a, generation |-> now']
    /\ log' = Append(log, Row("account_seen", a.workspace))
    /\ UNCHANGED <<files, ledger, proc, request, torn>>

WriteLine(f, v) ==
    /\ Happens /\ login # None
    /\ files' = [files EXCEPT ![f].lines =
                    Append(@, [at |-> now', value |-> v, by |-> login.account, stale |-> Stale])]
    /\ UNCHANGED <<login, log, ledger, proc, request, torn>>

CutFile(f) ==
    /\ Happens /\ files[f].lines # <<>>
    /\ files' = [files EXCEPT ![f].lines = Front(@)]
    /\ UNCHANGED <<login, log, ledger, proc, request, torn>>

\* Another physical file with the same content takes the path.
ReplaceFile(f) ==
    /\ Happens /\ files[f].lines # <<>>
    /\ files' = [files EXCEPT ![f].id = @ + 1]
    /\ UNCHANGED <<login, log, ledger, proc, request, torn>>

-----------------------------------------------------------------------------
(* observe_auth: an epoch, an alias and a merge, each on its own. *)

\* After a tick, an account that is not the one bound before is asked for its
\* official usage at once.
Bound(p, account) ==
    LET q == [p EXCEPT !.binding = account, !.read = None, !.old = None]
    IN  Continue(q, IF ~Starting(p) /\ account # p.binding /\ account # None
                    THEN <<"official">> ELSE <<>>)

ObserveAuth ==
    /\ Doing("epoch")
    /\ IF login = None
       THEN /\ epochs' = CloseCurrentAuthEpoch(epochs, now)
            /\ proc' = Bound(proc, None)
       ELSE /\ epochs' = AppendAuthEpoch(epochs, login, now)
            /\ proc' = Continue([proc EXCEPT !.read = login.account], <<"alias">>)
    /\ UNCHANGED <<world, alias, imported, quota, cursors, official, request, torn>>

\* auth.json cannot be read: fatal at startup, else the binding stays.
ObserveAuthFails ==
    /\ Doing("epoch") /\ login # None
    /\ proc' = IF Starting(proc) THEN Dead ELSE Continue(proc, <<>>)
    /\ UNCHANGED <<world, ledger, request, torn>>

LinkAlias ==
    /\ Doing("alias")
    /\ LET w   == proc.read.workspace
           old == ReplacedAccount(alias, w, proc.read)
       IN  /\ alias' = UpsertAlias(alias, w, proc.read, TRUE)
           /\ proc' = IF old = None THEN Bound(proc, proc.read)
                      ELSE Continue([proc EXCEPT !.old = old], <<"merge">>)
    /\ UNCHANGED <<world, epochs, imported, quota, cursors, official, request, torn>>

\* Mutant: the merge leaves the historical epochs as they are.
RemapObservedOnly ==
    /\ Doing("merge")
    /\ epochs' = RemapEpochs(Observed(epochs), proc.old, proc.read) \cup Historical(epochs)
    /\ alias' = RemapAliases(alias, proc.old, proc.read)
    /\ proc' = Bound(proc, proc.read)
    /\ UNCHANGED <<world, imported, quota, cursors, official, request, torn>>

RemapAccount ==
    /\ Doing("merge")
    /\ epochs' = RemapEpochs(epochs, proc.old, proc.read)
    /\ alias' = RemapAliases(alias, proc.old, proc.read)
    /\ proc' = Bound(proc, proc.read)
    /\ UNCHANGED <<world, imported, quota, cursors, official, request, torn>>

-----------------------------------------------------------------------------
(* sync_account_history: markers, aliases, epochs, each on its own. *)

Listen ==
    /\ Doing("listen")
    /\ proc' = Continue([proc EXCEPT !.http = TRUE, !.handles = TRUE], <<>>)
    /\ UNCHANGED <<world, ledger, request, torn>>

\* The port is in use: the server task ends with an error that a daemon never
\* looks at, and a dashboard's loop when it comes to wait.
ListenFails ==
    /\ Doing("listen") /\ Happens
    /\ proc' = Continue(proc, <<>>)
    /\ UNCHANGED <<login, log, files, ledger, request, torn>>

Markers == SubSeq(log, 1, imported)

\* The rows that are older than five seconds, in which several events may fit.
OldRows == {Cardinality({i \in DOMAIN log : log[i].at < t}) :
               t \in {u \in 0 .. now + 1 : now <= u + Recent}}

\* They are imported.  Without new rows, historical epochs that exist are left
\* alone.
ReadMarkers ==
    /\ Doing("markers")
    /\ imported' \in {n \in OldRows : n >= imported}
    /\ proc' = Continue(proc, IF imported' = imported /\ Historical(epochs) # {} THEN <<>>
                              ELSE <<"infer", "replace">>)
    /\ UNCHANGED <<world, epochs, alias, quota, cursors, official, request, torn>>

LinkHistory ==
    /\ Doing("infer")
    /\ alias' = AliasesFor(InferEpochs(Markers, FirstSample), alias, epochs)
    /\ proc' = Continue(proc, <<>>)
    /\ UNCHANGED <<world, epochs, imported, quota, cursors, official, request, torn>>

ReplaceHistory ==
    /\ Doing("replace")
    /\ epochs' = ReplaceHistoricalAuthEpochs(epochs, HistoryRows(InferEpochs(Markers, FirstSample), alias))
    /\ proc' = Continue(proc, <<>>)
    /\ torn' = torn \ {"history"}
    /\ UNCHANGED <<world, alias, imported, quota, cursors, official, request>>

-----------------------------------------------------------------------------
(* Official usage: Codex answers for whoever is logged in when it is asked. *)

\* (The ledger has no way to know who answered where the login is not the one
\* it has observed.)
Answer(fresh) == IF fresh THEN login.account ELSE None

\* refresh_official_usage, for the account that is bound.
RefreshOfficialUsage ==
    /\ Doing("official")
    /\ proc' = Continue(proc, <<>>)
    /\ \/ /\ proc.binding # None /\ login # None
          /\ official' = [official EXCEPT ![proc.binding] = Answer(Fresh)]
       \/ UNCHANGED official    \* nobody is bound, or the call fails
    /\ UNCHANGED <<world, epochs, alias, imported, quota, cursors, request, torn>>

\* The route of the page reads the active account first ...
AskOfficialUsage ==
    /\ proc.alive /\ proc.http /\ request = None
    /\ ActiveAccount(epochs) # None
    /\ request' = [account |-> ActiveAccount(epochs),
                   fresh   |-> IF Fresh THEN login.generation ELSE None]
    /\ UNCHANGED <<world, ledger, proc, torn>>

\* ... and stores what is answered later.
StoreOfficialUsage ==
    /\ request # None /\ request' = None
    /\ \/ /\ login # None
          /\ official' = [official EXCEPT ![request.account] =
                            Answer(request.fresh = login.generation)]
       \/ UNCHANGED official    \* the call fails
    /\ UNCHANGED <<world, epochs, alias, imported, quota, cursors, proc, torn>>

-----------------------------------------------------------------------------
(* ingest_quota_tails: one file after the other. *)

\* Who was logged in when the line was written is in doubt where the ledger
\* held another login, or where login rows up to it are not imported, or no
\* historical epochs were made of them.
Doubtful(line) ==
    \/ line.stale
    \/ \E i \in imported + 1 .. Len(log) : log[i].at <= line.at
    \/ "history" \in torn

LinesOf(f) == SubSeq(files[f].lines, StartLine(cursors[f], files[f]) + 1,
                     SafeLine(epochs, files[f], StartLine(cursors[f], files[f])))

\* The cursor of a file that was cut: advance_cursor fails, and with it the loop.
Regresses(f) ==
    /\ CursorMatches(cursors[f], files[f])
    /\ SafeLine(epochs, files[f], StartLine(cursors[f], files[f])) < cursors[f].taken

FileRead(f) ==
    LET p == [proc EXCEPT !.left = @ \ {f}]
    IN  IF p.left = {} THEN Continue(p, <<>>) ELSE p

IngestQuotaTail(f) ==
    /\ Doing("quota") /\ f \in proc.left
    /\ IF Regresses(f)
       THEN proc' = Dead /\ request' = None /\ UNCHANGED <<quota, cursors>>
       ELSE /\ quota' = FileLines(quota, epochs, LinesOf(f), Doubtful)
            /\ cursors' = [cursors EXCEPT ![f] =
                  [id |-> files[f].id,
                   taken |-> SafeLine(epochs, files[f], StartLine(cursors[f], files[f]))]]
            /\ proc' = FileRead(f) /\ UNCHANGED request
    /\ UNCHANGED <<world, epochs, alias, imported, official, torn>>

\* The process is killed when n lines are stored and the cursor is not.
DieInQuotaTail(f) ==
    /\ Doing("quota") /\ f \in proc.left /\ Happens
    /\ \E n \in 1 .. Len(LinesOf(f)) :
          quota' = FileLines(quota, epochs, SubSeq(LinesOf(f), 1, n), Doubtful)
    /\ proc' = Dead /\ request' = None
    /\ UNCHANGED <<login, log, files, epochs, alias, imported, cursors, official, torn>>

-----------------------------------------------------------------------------
(* The two loops. *)

\* A daemon hears SIGTERM once it has waited; a dashboard leaves that to the
\* server.
Waited(p) == [p EXCEPT !.handles = @ \/ p.mode = "daemon"]

\* Only every so often a tick observes auth.json and reads the history.
Tick ==
    /\ Idle
    /\ LET ticks  == (proc.ticks + 1) % ObserveEvery
           before == IF ticks = 0 THEN <<"epoch", "markers">> ELSE <<>>
       IN  proc' = [Waited(proc) EXCEPT
                      !.ticks = ticks, !.left = Files,
                      !.todo = before \o IF proc.mode = "daemon" THEN <<"quota">> ELSE <<>>]
    /\ UNCHANGED <<world, ledger, request, torn>>

OfficialTick ==
    /\ Idle /\ proc.binding # None
    /\ proc' = [Waited(proc) EXCEPT !.todo = <<"official">>]
    /\ UNCHANGED <<world, ledger, request, torn>>

\* The dashboard's loop ends with its server, which first answers what it was
\* asked and waits until every connection is closed, the endless stream of
\* changes too; the daemon's does not.
ServeEnds ==
    /\ Idle /\ proc.mode = "serve" /\ ~proc.http /\ ~proc.held /\ request = None
    /\ proc' = Dead
    /\ UNCHANGED <<world, ledger, request, torn>>

\* The page goes, and its stream with it.
ClosePage ==
    /\ proc.held
    /\ proc' = [proc EXCEPT !.held = FALSE]
    /\ UNCHANGED <<world, ledger, request, torn>>

\* What a process that dies now leaves undone for good.
LeftUndone ==
    torn \cup (IF Doing("alias") \/ Doing("merge") THEN {"merge"} ELSE {})
         \cup (IF Doing("infer") \/ Doing("replace") THEN {"history"} ELSE {})

Die == proc' = Dead /\ request' = None /\ torn' = LeftUndone

\* SIGTERM.  Before the process handles it, it kills.  Afterwards the server
\* takes no connection any more, though a page may hold one, and a daemon ends
\* that waits for its next tick; one at work does not hear the signal, since
\* it listens only while it waits.
Terminated ==
    IF ~proc.handles \/ (Idle /\ proc.mode = "daemon") THEN Die
    ELSE /\ \E held \in IF proc.http THEN BOOLEAN ELSE {proc.held} :
                proc' = [proc EXCEPT !.http = FALSE, !.held = held]
         /\ UNCHANGED <<request, torn>>

Kill == proc.alive /\ Happens /\ Die /\ UNCHANGED <<login, log, files, ledger>>

World ==
    \/ \E a \in People : LogIn(a) \/ SwapAuth(a)
    \/ LogOut
    \/ \E f \in Files : CutFile(f) \/ ReplaceFile(f) \/ \E v \in Values : WriteLine(f, v)

Work ==
    \/ ObserveAuth \/ LinkAlias \/ RemapAccount
    \/ Listen \/ ReadMarkers \/ LinkHistory \/ ReplaceHistory
    \/ RefreshOfficialUsage
    \/ \E f \in Files : IngestQuotaTail(f)

DaemonNext ==
    \/ World \/ Work \/ Tick \/ OfficialTick \/ ServeEnds \/ ClosePage
    \/ AskOfficialUsage \/ StoreOfficialUsage
    \/ ObserveAuthFails \/ ListenFails \/ Kill \/ \E f \in Files : DieInQuotaTail(f)
=============================================================================
