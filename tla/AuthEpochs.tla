----------------------------- MODULE AuthEpochs -----------------------------
(***************************************************************************)
(* Who was logged in when, as the ledger knows it: src/src/runtime.rs      *)
(* (observe_auth), src/src/store/account_repository.rs and                 *)
(* src/src/account_history.rs.                                             *)
(*                                                                         *)
(* A fingerprint is a person with a workspace.  Observed epochs come from  *)
(* auth.json; historical ones from the login rows of Codex' log, which     *)
(* name workspaces only, so that a workspace that was never observed gets  *)
(* a provisional account without a person.  The confidence is another      *)
(* matter: an observed epoch is verified if the claims of auth.json agree, *)
(* and inferred, as historical ones are, if not (src/src/identity.rs).     *)
(***************************************************************************)
EXTENDS Naturals, FiniteSets, FiniteSetsExt, Sequences

CONSTANTS
    Persons,      \* the people who log in on this machine
    Workspaces,   \* the workspaces they log in to
    Consistent,   \* the accounts whose auth.json names the issuer, and one workspace
    None          \* no value

Identity == [person : Persons, workspace : Workspaces]
Provisional(w) == [person |-> None, workspace |-> w]
Fingerprint == Identity \cup {Provisional(w) : w \in Workspaces}

\* A row of auth_epochs.  generation is the fingerprint of the credentials
\* of an observed epoch; historical epochs have none that matters here.
\* observed tells the source, verified the confidence.
Epoch == [from : Nat, to : Nat \cup {None}, account : Fingerprint,
          generation : Nat \cup {None}, observed : BOOLEAN, verified : BOOLEAN]

Covers(e, t) == e.from <= t /\ (e.to # None => t < e.to)

Observed(epochs) == {e \in epochs : e.observed}
Verified(epochs) == {e \in epochs : e.verified}
Historical(epochs) == epochs \ Observed(epochs)
OpenEpochs(epochs) == {e \in Observed(epochs) : e.to = None}

CloseCurrentAuthEpoch(epochs, t) ==
    {IF e \in OpenEpochs(epochs) THEN [e EXCEPT !.to = t] ELSE e : e \in epochs}

\* Mutant: other credentials leave the epoch before them open.
AppendKeepsOpen(epochs, login, t) ==
    IF \E e \in OpenEpochs(epochs) : e.generation = login.generation THEN epochs
    ELSE epochs \cup {[from |-> t, to |-> None, account |-> login.account,
                       generation |-> login.generation, observed |-> TRUE,
                       verified |-> login.account \in Consistent]}

\* The same credentials keep their epoch open; others close it.
AppendAuthEpoch(epochs, login, t) ==
    IF \E e \in OpenEpochs(epochs) : e.generation = login.generation THEN epochs
    ELSE CloseCurrentAuthEpoch(epochs, t) \cup
         {[from |-> t, to |-> None, account |-> login.account,
           generation |-> login.generation, observed |-> TRUE,
           verified |-> login.account \in Consistent]}

Latest(epochs) == CHOOSE e \in epochs : \A o \in epochs : o.from <= e.from

\* active_account_fingerprint: the open epoch of any source that began last.
ActiveAccount(epochs) ==
    LET open == {e \in epochs : e.to = None}
    IN  IF open = {} THEN None ELSE Latest(open).account

\* quota_account_epoch_at: verified epochs first, then the one that began last.
EpochAt(epochs, t) ==
    LET covering == {e \in epochs : Covers(e, t)}
    IN  IF covering = {} THEN None
        ELSE IF Verified(covering) # {} THEN Latest(Verified(covering)) ELSE Latest(covering)

-----------------------------------------------------------------------------
(* Workspace aliases: for each workspace no row, or one. *)

Alias == [account : Fingerprint, canonical : BOOLEAN]

UpsertAlias(alias, w, account, canonical) ==
    [alias EXCEPT ![w] =
        IF @ = None THEN [account |-> account, canonical |-> canonical]
        ELSE [account   |-> IF canonical THEN account ELSE @.account,
              canonical |-> @.canonical \/ canonical]]

\* What upsert_workspace_account_alias returns: the account that was replaced.
ReplacedAccount(alias, w, account) ==
    IF alias[w] # None /\ alias[w].account # account THEN alias[w].account ELSE None

CanonicalAccount(alias, epochs, w) ==
    LET seen == {e \in Verified(epochs) : e.account.workspace = w}
    IN  IF alias[w] # None /\ alias[w].canonical THEN alias[w].account
        ELSE IF seen = {} THEN None ELSE Latest(seen).account

\* What remap_account_fingerprint does to epochs and aliases.
RemapEpochs(epochs, old, new) ==
    {[e EXCEPT !.account = IF @ = old THEN new ELSE @] : e \in epochs}
RemapAliases(alias, old, new) ==
    [w \in Workspaces |-> IF alias[w] # None /\ alias[w].account = old
                          THEN [account |-> new, canonical |-> TRUE] ELSE alias[w]]

-----------------------------------------------------------------------------
(* Inferring epochs from the login rows of the log. *)

Marker == [kind : {"logout", "login_success"}, at : Nat, workspace : {None}] \cup
          [kind : {"account_seen"}, at : Nat, workspace : Workspaces]

EarliestOf(times) == IF times = {} THEN None ELSE Min(times)
Times(markers, kind) == {markers[i].at : i \in {j \in DOMAIN markers : markers[j].kind = kind}}

\* One window from the first sample to the first logout, and one from each
\* logout to the next; the last has no end.
Windows(markers, firstSample) ==
    LET logouts == Times(markers, "logout")
    IN  {[from |-> firstSample, to |-> EarliestOf(logouts)]} \cup
        {[from |-> l, to |-> EarliestOf({m \in logouts : m > l})] : l \in logouts}

SeenIn(markers, win) ==
    {markers[i] : i \in {j \in DOMAIN markers :
                            markers[j].kind = "account_seen" /\ Covers(win, markers[j].at)}}
WorkspacesIn(markers, win) == {m.workspace : m \in SeenIn(markers, win)}

\* A window that saw one workspace is its epoch, from the last OAuth success
\* before it was seen, or from the start of the window.
InferredEpoch(markers, win) ==
    LET first  == Min({m.at : m \in SeenIn(markers, win)})
        logins == {t \in Times(markers, "login_success") : win.from <= t /\ t <= first}
    IN  [from |-> IF logins = {} THEN win.from ELSE Max(logins), to |-> win.to,
         workspace |-> CHOOSE w \in Workspaces : w \in WorkspacesIn(markers, win)]

\* Mutant: a window that saw several workspaces is taken for one of them.
InferAnyEpochs(markers, firstSample) ==
    {InferredEpoch(markers, win) : win \in {x \in Windows(markers, firstSample) :
                                              WorkspacesIn(markers, x) # {}}}

InferEpochs(markers, firstSample) ==
    {InferredEpoch(markers, win) : win \in {x \in Windows(markers, firstSample) :
                                              Cardinality(WorkspacesIn(markers, x)) = 1}}

\* The aliases that sync_account_history writes for the inferred epochs.
AliasesFor(inferred, alias, epochs) ==
    LET found == {e.workspace : e \in inferred}
        Upserted(w) == LET known == CanonicalAccount(alias, epochs, w)
                       IN  IF known # None THEN UpsertAlias(alias, w, known, TRUE)[w]
                           ELSE UpsertAlias(alias, w, Provisional(w), FALSE)[w]
    IN  [w \in Workspaces |-> IF w \in found THEN Upserted(w) ELSE alias[w]]

\* The rows that replace_historical_auth_epochs stores for them.
HistoryRows(inferred, alias) ==
    {[from |-> e.from, to |-> e.to, account |-> alias[e.workspace].account,
      generation |-> None, observed |-> FALSE, verified |-> FALSE] : e \in inferred}
ReplaceHistoricalAuthEpochs(epochs, rows) == Observed(epochs) \cup rows
=============================================================================
