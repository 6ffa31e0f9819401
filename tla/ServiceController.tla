------------------------- MODULE ServiceController --------------------------
(***************************************************************************)
(* The macOS app's LedgerServiceController: it owns the Rust process,      *)
(* starts it in the mode the user prefers, and stops it to change modes.   *)
(* (macos/Sources/CodexUsageLedgerApp/LedgerServiceController.swift and    *)
(* LedgerServiceLifecycle.swift)                                           *)
(*                                                                         *)
(* Everything runs on the main actor, so a step is a call up to its next   *)
(* await.  The handler of a process that ended is due until another launch *)
(* raises the generation, which a launch that fails early does not.        *)
(***************************************************************************)
EXTENDS Daemon

VARIABLES
    enabled,   \* collectionEnabled, kept in the user defaults
    app,       \* whether the app runs
    ctl,       \* the controller's fields
    crossed    \* ghost: a mode was asked for while another one was pending, and ignored

controller == <<enabled, app, ctl, crossed>>

\* state is one of stopped, starting, running, stopping and failed; polling,
\* whether waitUntilHealthy is at work for the child; handler, whether the
\* termination handler of the process of this generation has not run yet.
NoChild == [state |-> "stopped", child |-> FALSE, mode |-> None, pending |-> None,
            expected |-> FALSE, failure |-> FALSE, polling |-> FALSE, handler |-> FALSE]

ControllerInit ==
    /\ enabled \in BOOLEAN
    /\ app = FALSE /\ ctl = NoChild /\ crossed = FALSE

Preferred(on) == IF on THEN "daemon" ELSE "serve"
ChildRuns == ctl.child /\ proc.alive

\* launch.  It may fail before it raises the generation: then the pending mode
\* stays, and a handler that is due still finds it.  Or the process does not run.
Launch(c, mode) ==
    \/ /\ ctl' = [NoChild EXCEPT !.state = "starting", !.child = TRUE, !.mode = mode,
                                 !.polling = TRUE, !.handler = TRUE]
       /\ proc' = Started(mode)
    \/ /\ ctl' = [c EXCEPT !.state = "failed", !.child = FALSE, !.mode = None, !.polling = FALSE]
       /\ UNCHANGED proc
    \/ /\ ctl' = [NoChild EXCEPT !.state = "failed"]
       /\ UNCHANGED proc

\* transition(to:): nothing if the child already has that mode, even when it
\* is being stopped to give way to another.
Transition(mode) ==
    \/ /\ ~ChildRuns /\ Launch(ctl, mode)
       /\ UNCHANGED <<request, torn>>
    \/ /\ ChildRuns /\ ctl.mode = mode
       /\ UNCHANGED <<ctl, proc, request, torn>>
    \/ /\ ChildRuns /\ ctl.mode # mode
       /\ ctl' = [ctl EXCEPT !.pending = mode, !.expected = TRUE, !.state = "stopping"]
       /\ Terminated

OpenApp ==
    /\ ~app /\ app' = TRUE
    /\ Launch(ctl, Preferred(enabled))
    /\ UNCHANGED <<now, enabled, crossed, request, torn>>

\* A request counts as crossed when a mode that is not the preferred one stays
\* pending: the child has the preferred mode and is on its way out for the
\* other one, or the launch failed early.
Crossing == ctl'.pending \notin {None, Preferred(enabled')}

ToggleCollection ==
    /\ app /\ Happens
    /\ enabled' = ~enabled
    /\ Transition(Preferred(~enabled))
    /\ crossed' = Crossing
    /\ UNCHANGED app

\* The button that the window shows in the states failed and stopped.
Retry ==
    /\ app /\ ctl.state \in {"failed", "stopped"}
    /\ Transition(Preferred(enabled))
    /\ UNCHANGED <<now, enabled, app>>
    /\ crossed' = Crossing

\* stopForApplicationExit: SIGTERM, and SIGKILL after 0.8 seconds.
QuitApp ==
    /\ app /\ app' = FALSE /\ Happens
    /\ ctl' = NoChild /\ crossed' = FALSE
    /\ IF ChildRuns THEN Die ELSE UNCHANGED <<proc, request, torn>>
    /\ UNCHANGED enabled

\* A health poll is answered: whatever the state was, the child is running.
BecomeHealthy ==
    /\ ctl.polling /\ ChildRuns /\ proc.http
    /\ ctl' = [ctl EXCEPT !.state = "running", !.polling = FALSE]
    /\ UNCHANGED <<now, enabled, app, crossed, proc, request, torn>>

\* Forty polls without an answer.
HealthTimesOut ==
    /\ ctl.polling /\ ChildRuns /\ ~proc.http /\ Happens
    /\ ctl' = [ctl EXCEPT !.state = "failed", !.failure = TRUE, !.expected = TRUE, !.polling = FALSE]
    /\ Terminated
    /\ UNCHANGED <<enabled, app, crossed>>

\* Mutant: an expected end is handled before the pending mode.
ExpectedFirst ==
    /\ ctl.handler /\ ~proc.alive
    /\ LET c == [ctl EXCEPT !.child = FALSE, !.mode = None, !.polling = FALSE, !.expected = FALSE,
                            !.handler = FALSE]
       IN  IF ctl.expected
           THEN ctl' = [c EXCEPT !.state = "stopped", !.pending = None] /\ UNCHANGED proc
           ELSE ctl' = [c EXCEPT !.state = "failed"] /\ UNCHANGED proc
    /\ UNCHANGED <<now, enabled, app, crossed, request, torn>>

HandleTermination ==
    /\ ctl.handler /\ ~proc.alive
    /\ LET c == [ctl EXCEPT !.child = FALSE, !.mode = None, !.polling = FALSE, !.expected = FALSE,
                            !.handler = FALSE]
       IN  IF ctl.pending # None THEN Launch([c EXCEPT !.pending = None], ctl.pending)
           ELSE /\ ctl' = [c EXCEPT !.failure = FALSE,
                                    !.state = IF ctl.failure \/ ~ctl.expected THEN "failed" ELSE "stopped"]
                /\ UNCHANGED proc
    /\ UNCHANGED <<now, enabled, app, crossed, request, torn>>

ControllerNext ==
    \/ OpenApp \/ ToggleCollection \/ Retry \/ QuitApp
    \/ BecomeHealthy \/ HealthTimesOut \/ HandleTermination
=============================================================================
