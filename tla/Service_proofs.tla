--------------------------- MODULE Service_proofs ---------------------------
(***************************************************************************)
(* Theorems about the app's controller and the process that it runs, for   *)
(* any people, workspaces, files, pasts and times.                         *)
(***************************************************************************)
EXTENDS Service, Induction, SequenceTheorems, TLAPS

-----------------------------------------------------------------------------
(* Times. *)

\* The least and the greatest of some times.
LEMMA MinMaxIn ==
    ASSUME NEW T, T \subseteq Nat, T # {}
    PROVE  /\ Min(T) \in T /\ \A t \in T : Min(T) <= t
           /\ \A b \in Nat : (\A t \in T : t <= b) => Max(T) \in T /\ \A t \in T : t <= Max(T)
<1>1. PICK m \in T : \A t \in T : m <= t
    BY LeastElement
<1>2. Min(T) \in T /\ \A t \in T : Min(T) <= t
    BY <1>1 DEF Min
<1>3. ASSUME NEW b \in Nat, \A t \in T : t <= b
      PROVE  Max(T) \in T /\ \A t \in T : t <= Max(T)
  <2>1. PICK n \in T : \A t \in T : n >= t
    BY <1>3, GreatestElement
  <2>2. \E k \in T : \A t \in T : k >= t
    BY <2>1
  <2>3. Max(T) \in T /\ \A t \in T : Max(T) >= t
    BY <2>2 DEF Max
  <2> QED
    BY <2>3
<1> QED
    BY <1>2, <1>3

\* The epoch that began last is one of them.
LEMMA LatestIn ==
    ASSUME NEW S, S # {}, NEW b \in Nat, \A e \in S : e.from \in Nat /\ e.from <= b
    PROVE  Latest(S) \in S /\ \A o \in S : o.from <= Latest(S).from
<1> DEFINE T == {e.from : e \in S}
<1>1. T \subseteq Nat /\ T # {} /\ \A t \in T : t <= b
    OBVIOUS
<1> HIDE DEF T
<1>2. PICK m \in T : \A t \in T : m >= t
    BY <1>1, GreatestElement
<1>3. PICK e \in S : e.from = m
    BY <1>2 DEF T
<1>4. \A o \in S : o.from <= e.from
    BY <1>2, <1>3 DEF T
<1> QED
    BY <1>4 DEF Latest

-----------------------------------------------------------------------------
(* Epochs, aliases and markers are what their readers take them for. *)

\* Epochs that began by a time, of which at most one is open.
EpochsOK(es, bound) ==
    /\ es \subseteq Epoch
    /\ \A e \in es : e.from <= bound
    /\ \A e \in OpenEpochs(es) : \A f \in OpenEpochs(es) : e = f

\* A workspace is linked to an account of its own.
AliasOK(al) ==
    /\ al \in [Workspaces -> Alias \cup {None}]
    /\ \A w \in Workspaces : al[w] # None => al[w].account.workspace = w

\* Login rows up to a time.
LogOK(rows, bound) ==
    /\ rows \in Seq(Marker)
    /\ \A i \in DOMAIN rows : rows[i].at <= bound

\* The epoch that covers a time is one of the epochs.
LEMMA EpochAtIn ==
    ASSUME NEW es, NEW bound \in Nat, EpochsOK(es, bound), NEW t, EpochAt(es, t) # None
    PROVE  EpochAt(es, t) \in es /\ Covers(EpochAt(es, t), t)
<1> DEFINE covering == {e \in es : Covers(e, t)}
<1>1. covering # {}
    BY DEF EpochAt
<1>2. \A e \in covering : e.from \in Nat /\ e.from <= bound
    BY DEF EpochsOK, Epoch
<1>3. Verified(covering) \subseteq covering
    BY DEF Verified
<1>4. EpochAt(es, t) = IF Verified(covering) # {} THEN Latest(Verified(covering)) ELSE Latest(covering)
    BY <1>1 DEF EpochAt
<1>5. EpochAt(es, t) \in covering
  <2> DEFINE v == Verified(covering)
             c == covering
             at == EpochAt(es, t)
  <2>1. c # {} /\ v \subseteq c /\ (\A e \in c : e.from \in Nat /\ e.from <= bound)
        /\ at = IF v # {} THEN Latest(v) ELSE Latest(c)
    BY <1>1, <1>2, <1>3, <1>4
  <2> HIDE DEF v, c, at
  <2>2. v # {} => Latest(v) \in v
    BY <2>1, LatestIn
  <2>3. Latest(c) \in c
    BY <2>1, LatestIn
  <2>4. at \in c
    BY <2>1, <2>2, <2>3
  <2> QED
    BY <2>4 DEF at, c
<1> QED
    BY <1>5

\* The active account is an account.
LEMMA ActiveAccountType ==
    ASSUME NEW es, NEW bound \in Nat, EpochsOK(es, bound)
    PROVE  ActiveAccount(es) \in Fingerprint \cup {None}
<1> DEFINE open == {e \in es : e.to = None}
<1>1. CASE open = {}
    BY <1>1 DEF ActiveAccount
<1>2. CASE open # {}
  <2>1. \A e \in open : e.from \in Nat /\ e.from <= bound
    BY DEF EpochsOK, Epoch
  <2>2. Latest(open) \in open
    BY <1>2, <2>1, LatestIn
  <2>3. ActiveAccount(es) = Latest(open).account
    BY <1>2 DEF ActiveAccount
  <2>4. Latest(open) \in Epoch
    BY <2>2 DEF EpochsOK
  <2> QED
    BY <2>3, <2>4 DEF Epoch
<1> QED
    BY <1>1, <1>2

\* An epoch that was inferred is one of a workspace and began by then.
WorkspaceEpoch == [from : Nat, to : Nat \cup {None}, workspace : Workspaces]

\* What is inferred from login rows is typed and begins in time.
LEMMA InferredType ==
    ASSUME NEW rows, NEW bound \in Nat, LogOK(rows, bound)
    PROVE  \A e \in InferEpochs(rows, FirstSample) :
              e \in WorkspaceEpoch /\ e.from <= bound + FirstSample
<1> SUFFICES ASSUME NEW e \in InferEpochs(rows, FirstSample)
             PROVE  e \in WorkspaceEpoch /\ e.from <= bound + FirstSample
    OBVIOUS
<1>1. FirstSample \in Nat
    BY DaemonAssumption
<1>2. \A kind : Times(rows, kind) \subseteq Nat /\ \A t \in Times(rows, kind) : t <= bound
  <2>1. \A i \in DOMAIN rows : rows[i].at \in Nat /\ rows[i].at <= bound
    <3>1. \A i \in DOMAIN rows : rows[i] \in Marker
      BY LenProperties DEF LogOK
    <3> QED
      BY <3>1 DEF LogOK, Marker
  <2> QED
    BY <2>1 DEF Times
<1>3. PICK win \in Windows(rows, FirstSample) :
         /\ Cardinality(WorkspacesIn(rows, win)) = 1
         /\ e = InferredEpoch(rows, win)
    BY DEF InferEpochs
<1>4. \A T \in SUBSET Nat : EarliestOf(T) \in Nat \cup {None}
    BY MinMaxIn DEF EarliestOf
<1>5. win.from \in Nat /\ win.from <= bound + FirstSample /\ win.to \in Nat \cup {None}
  <2> DEFINE logouts == Times(rows, "logout")
  <2>1. logouts \subseteq Nat /\ \A l \in logouts : l <= bound
    BY <1>2
  <2>2. \/ win = [from |-> FirstSample, to |-> EarliestOf(logouts)]
        \/ \E l \in logouts : win = [from |-> l, to |-> EarliestOf({m \in logouts : m > l})]
    BY <1>3 DEF Windows
  <2> HIDE DEF logouts
  <2>3. CASE win = [from |-> FirstSample, to |-> EarliestOf(logouts)]
    BY <1>1, <1>4, <2>1, <2>3
  <2>4. ASSUME NEW l \in logouts, win = [from |-> l, to |-> EarliestOf({m \in logouts : m > l})]
        PROVE  win.from \in Nat /\ win.from <= bound + FirstSample /\ win.to \in Nat \cup {None}
    <3>1. {m \in logouts : m > l} \in SUBSET Nat
      BY <2>1
    <3>2. win.from = l /\ win.to \in Nat \cup {None}
      BY <1>4, <2>4, <3>1
    <3> QED
      BY <1>1, <2>1, <3>2
  <2> QED
    BY <2>2, <2>3, <2>4
<1>6. WorkspacesIn(rows, win) # {}
    BY <1>3, FS_EmptySet
<1>7. WorkspacesIn(rows, win) \subseteq Workspaces
  <2>1. \A i \in DOMAIN rows : rows[i] \in Marker
    BY LenProperties DEF LogOK
  <2> QED
    BY <2>1 DEF WorkspacesIn, SeenIn, Marker
<1> DEFINE w == CHOOSE x \in Workspaces : x \in WorkspacesIn(rows, win)
           first == Min({m.at : m \in SeenIn(rows, win)})
           logins == {t \in Times(rows, "login_success") : win.from <= t /\ t <= first}
           from == IF logins = {} THEN win.from ELSE Max(logins)
<1>8. w \in Workspaces
    BY <1>6, <1>7
<1>9. e = [from |-> from, to |-> win.to, workspace |-> w]
    BY <1>3 DEF InferredEpoch
<1>10. logins \subseteq Nat /\ \A t \in logins : t <= bound
    BY <1>2
<1> HIDE DEF logins, w
<1>11. from \in Nat /\ from <= bound + FirstSample
  <2>1. CASE logins = {}
    BY <1>5, <2>1
  <2>2. CASE logins # {}
    <3> DEFINE m == Max(logins)
    <3>1. m \in logins
      BY <1>10, <2>2, MinMaxIn
    <3>2. from = m
      BY <2>2
    <3> HIDE DEF m, from
    <3> QED
      BY <1>1, <1>10, <3>1, <3>2
  <2> QED
    BY <2>1, <2>2
<1> HIDE DEF from
<1> QED
    BY <1>5, <1>8, <1>9, <1>11 DEF WorkspaceEpoch

\* An account is a person's or a provisional one, of a workspace.
LEMMA FingerprintType ==
    /\ \A x \in Fingerprint : x.workspace \in Workspaces
    /\ \A x \in Identity : x \in Fingerprint
    /\ \A w \in Workspaces : Provisional(w) \in Fingerprint /\ Provisional(w).workspace = w
  BY DEF Fingerprint, Identity, Provisional

\* The historical epochs as those of workspaces.
WorkspaceEpochs(es) ==
    {[from |-> e.from, to |-> e.to, workspace |-> e.account.workspace] : e \in Historical(es)}

\* When the current epoch is closed none is open, and the historical ones stay.
LEMMA CloseKeeps ==
    ASSUME NEW es, NEW bound, EpochsOK(es, bound), NEW t \in Nat
    PROVE  LET closed == CloseCurrentAuthEpoch(es, t)
           IN  /\ EpochsOK(closed, bound) /\ OpenEpochs(closed) = {}
               /\ Historical(closed) = Historical(es)
               /\ \A c \in closed : \E e \in es : c.account = e.account /\ c.from = e.from
                                                  /\ c.observed = e.observed
<1> DEFINE closed == CloseCurrentAuthEpoch(es, t)
           C(e) == IF e \in OpenEpochs(es) THEN [e EXCEPT !.to = t] ELSE e
<1>1. \A e \in es : /\ C(e) \in Epoch /\ C(e).from = e.from /\ C(e).account = e.account
                    /\ C(e).observed = e.observed
                    /\ C(e).observed => C(e).to # None
                    /\ ~e.observed => C(e) = e
  <2> SUFFICES ASSUME NEW e \in es
               PROVE  /\ C(e) \in Epoch /\ C(e).from = e.from /\ C(e).account = e.account
                      /\ C(e).observed = e.observed
                      /\ C(e).observed => C(e).to # None
                      /\ ~e.observed => C(e) = e
    OBVIOUS
  <2>1. e \in Epoch
    BY DEF EpochsOK
  <2>2. CASE e \in OpenEpochs(es)
    <3> DEFINE f == [e EXCEPT !.to = t]
    <3>1. f \in Epoch /\ f.from = e.from /\ f.account = e.account /\ f.observed = e.observed /\ f.to = t
      BY <2>1 DEF Epoch
    <3>2. C(e) = f
      BY <2>2
    <3>3. e.observed
      BY <2>2 DEF OpenEpochs, Observed
    <3>4. t # None
      BY DaemonAssumption
    <3> HIDE DEF f, C
    <3> QED
      BY <3>1, <3>2, <3>3, <3>4
  <2>3. CASE e \notin OpenEpochs(es)
    BY <2>1, <2>3 DEF OpenEpochs, Observed
  <2> QED
    BY <2>2, <2>3
<1>2. closed = {C(e) : e \in es}
    BY DEF CloseCurrentAuthEpoch
<1> HIDE DEF C, closed
<1>3. OpenEpochs(closed) = {}
    BY <1>1, <1>2 DEF OpenEpochs, Observed
<1>4. Historical(closed) = Historical(es)
  <2>1. \A e \in es : e.observed \in BOOLEAN
    BY DEF EpochsOK, Epoch
  <2>2. \A c \in closed : ~c.observed => c \in es
    BY <1>1, <1>2, <2>1
  <2>3. \A e \in es : ~e.observed => e \in closed
    BY <1>1, <1>2, <2>1
  <2> QED
    BY <2>2, <2>3 DEF Historical, Observed
<1>5. EpochsOK(closed, bound)
    BY <1>1, <1>2, <1>3 DEF EpochsOK
<1>6. \A c \in closed : \E e \in es : c.account = e.account /\ c.from = e.from /\ c.observed = e.observed
    BY <1>1, <1>2
<1> QED
    BY <1>3, <1>4, <1>5, <1>6 DEF closed

Login == [account : People, generation : Nat]

\* An observed login adds its own epoch at most, and the historical ones stay.
LEMMA AppendKeeps ==
    ASSUME NEW es, NEW bound \in Nat, EpochsOK(es, bound), NEW l \in Login,
           NEW t \in Nat, t <= bound
    PROVE  LET new == AppendAuthEpoch(es, l, t)
           IN  /\ EpochsOK(new, bound)
               /\ Historical(new) = Historical(es)
               /\ \A n \in new : \/ n.account = l.account
                                 \/ \E e \in es : n.account = e.account
<1> DEFINE new == AppendAuthEpoch(es, l, t)
           closed == CloseCurrentAuthEpoch(es, t)
           own == [from |-> t, to |-> None, account |-> l.account,
                   generation |-> l.generation, observed |-> TRUE,
                   verified |-> l.account \in Consistent]
<1>1. CASE \E e \in OpenEpochs(es) : e.generation = l.generation
    BY <1>1 DEF AppendAuthEpoch
<1>2. CASE ~\E e \in OpenEpochs(es) : e.generation = l.generation
  <2>1. new = closed \cup {own}
    BY <1>2 DEF AppendAuthEpoch
  <2>2. own \in Epoch /\ own.from = t /\ own.account = l.account /\ own.observed
    BY DaemonAssumption DEF Epoch, Login, Fingerprint
  <2>3. /\ EpochsOK(closed, bound) /\ OpenEpochs(closed) = {} /\ Historical(closed) = Historical(es)
        /\ \A c \in closed : \E e \in es : c.account = e.account
    BY CloseKeeps
  <2> HIDE DEF new, closed, own
  <2>4. EpochsOK(new, bound)
    BY <2>1, <2>2, <2>3 DEF EpochsOK, OpenEpochs, Observed
  <2>5. Historical(new) = Historical(es)
    BY <2>1, <2>2, <2>3 DEF Historical, Observed
  <2>6. \A n \in new : n.account = l.account \/ \E e \in es : n.account = e.account
    BY <2>1, <2>2, <2>3
  <2> QED
    BY <2>4, <2>5, <2>6 DEF new
<1> QED
    BY <1>1, <1>2

\* A merge within a workspace leaves its epochs as they are.
LEMMA RemapKeeps ==
    ASSUME NEW es, NEW bound, EpochsOK(es, bound), NEW old \in Fingerprint, NEW new \in Fingerprint,
           old.workspace = new.workspace
    PROVE  LET remapped == RemapEpochs(es, old, new)
           IN  /\ EpochsOK(remapped, bound)
               /\ WorkspaceEpochs(remapped) = WorkspaceEpochs(es)
               /\ \A r \in remapped :
                     \/ r.account = new
                     \/ r.account # old /\ \E e \in es : r.account = e.account
               /\ Historical(remapped) = {} => Historical(es) = {}
<1> DEFINE remapped == RemapEpochs(es, old, new)
           M(e) == [e EXCEPT !.account = IF @ = old THEN new ELSE @]
           View(e) == [from |-> e.from, to |-> e.to, workspace |-> e.account.workspace]
<1>1. \A e \in es : /\ M(e) \in Epoch /\ M(e).from = e.from /\ M(e).to = e.to
                    /\ M(e).observed = e.observed
                    /\ M(e).account = IF e.account = old THEN new ELSE e.account
    BY DEF EpochsOK, Epoch
<1>2. remapped = {M(e) : e \in es}
    BY DEF RemapEpochs
<1> HIDE DEF M, remapped
<1>3. \A e \in es : M(e).account.workspace = e.account.workspace
    BY <1>1
<1>4. Historical(remapped) = {M(e) : e \in Historical(es)}
    BY <1>1, <1>2 DEF Historical, Observed
<1>5. \A e \in Historical(es) : View(M(e)) = View(e)
    BY <1>1, <1>3 DEF Historical
<1>6. WorkspaceEpochs(remapped) = WorkspaceEpochs(es)
  <2>1. WorkspaceEpochs(remapped) = {View(r) : r \in Historical(remapped)}
    BY DEF WorkspaceEpochs
  <2>2. WorkspaceEpochs(es) = {View(e) : e \in Historical(es)}
    BY DEF WorkspaceEpochs
  <2> HIDE DEF View
  <2> QED
    BY <1>4, <1>5, <2>1, <2>2
<1>7. EpochsOK(remapped, bound)
  <2>1. \A e \in es : M(e) \in OpenEpochs(remapped) => e \in OpenEpochs(es)
    BY <1>1, <1>2 DEF OpenEpochs, Observed
  <2>2. \A c \in OpenEpochs(remapped) : c \in remapped
    BY DEF OpenEpochs, Observed
  <2>3. ASSUME NEW c \in OpenEpochs(remapped), NEW d \in OpenEpochs(remapped) PROVE c = d
    <3>1. PICK e \in es : c = M(e)
      BY <1>2, <2>2
    <3>2. PICK f \in es : d = M(f)
      BY <1>2, <2>2
    <3> QED
      BY <2>1, <2>3, <3>1, <3>2 DEF EpochsOK
  <2> QED
    BY <1>1, <1>2, <2>3 DEF EpochsOK
<1>8. \A r \in remapped : \/ r.account = new
                          \/ r.account # old /\ \E e \in es : r.account = e.account
    BY <1>1, <1>2
<1>9. Historical(remapped) = {} => Historical(es) = {}
    BY <1>4
<1> QED
    BY <1>6, <1>7, <1>8, <1>9 DEF remapped

Matches(e, al) == al[e.account.workspace] # None /\ al[e.account.workspace].account = e.account

\* The account of a workspace that is taken for canonical is of that workspace:
\* the one it is linked to, or that of an epoch.
LEMMA CanonicalType ==
    ASSUME NEW al, AliasOK(al), NEW es, NEW bound \in Nat, EpochsOK(es, bound), NEW w \in Workspaces
    PROVE  LET known == CanonicalAccount(al, es, w)
           IN  \/ known = None
               \/ /\ known \in Fingerprint /\ known.workspace = w
                  /\ \/ al[w] # None /\ known = al[w].account
                     \/ \E e \in es : e.account = known
<1> DEFINE seen == {e \in Verified(es) : e.account.workspace = w}
           known == CanonicalAccount(al, es, w)
<1>1. CASE al[w] # None /\ al[w].canonical
  <2>1. known = al[w].account
    BY <1>1 DEF CanonicalAccount
  <2>2. al[w] \in Alias /\ al[w].account.workspace = w
    BY <1>1 DEF AliasOK
  <2> QED
    BY <1>1, <2>1, <2>2 DEF Alias
<1>2. CASE ~(al[w] # None /\ al[w].canonical) /\ seen = {}
    BY <1>2 DEF CanonicalAccount
<1>3. CASE ~(al[w] # None /\ al[w].canonical) /\ seen # {}
  <2>1. known = Latest(seen).account
    BY <1>3 DEF CanonicalAccount
  <2>2. \A e \in seen : e \in es /\ e \in Epoch /\ e.from \in Nat /\ e.from <= bound /\ e.account.workspace = w
    BY DEF EpochsOK, Epoch, Verified
  <2>3. seen # {}
    BY <1>3
  <2> HIDE DEF seen
  <2>4. Latest(seen) \in seen
    BY <2>2, <2>3, LatestIn
  <2>5. Latest(seen).account \in Fingerprint
    BY <2>2, <2>4 DEF Epoch
  <2> QED
    BY <2>1, <2>2, <2>4, <2>5
<1> QED
    BY <1>1, <1>2, <1>3

\* A link takes another account over only if that one is canonical.
LEMMA UpsertType ==
    ASSUME NEW al, AliasOK(al), NEW w \in Workspaces,
           NEW x \in Fingerprint, x.workspace = w, NEW canonical \in BOOLEAN
    PROVE  LET new == UpsertAlias(al, w, x, canonical)
           IN  /\ AliasOK(new)
               /\ new[w] # None
               /\ new[w].account = IF al[w] = None \/ canonical THEN x ELSE al[w].account
               /\ \A v \in Workspaces : v # w => new[v] = al[v]
<1> DEFINE new == UpsertAlias(al, w, x, canonical)
           row == IF al[w] = None THEN [account |-> x, canonical |-> canonical]
                  ELSE [account   |-> IF canonical THEN x ELSE al[w].account,
                        canonical |-> al[w].canonical \/ canonical]
<1>1. new = [al EXCEPT ![w] = row]
    BY DEF UpsertAlias
<1>2. /\ row \in Alias /\ row # None /\ row.account.workspace = w
      /\ row.account = IF al[w] = None \/ canonical THEN x ELSE al[w].account
  <2>1. al[w] # None => al[w] \in Alias /\ al[w].account.workspace = w
    BY DEF AliasOK
  <2>2. CASE al[w] = None
    <3>1. row = [account |-> x, canonical |-> canonical]
      BY <2>2
    <3>2. row \in Alias /\ row.account = x
      BY <3>1 DEF Alias
    <3> HIDE DEF row
    <3> QED
      BY <2>2, <3>2, DaemonAssumption
  <2>3. CASE al[w] # None
    <3> DEFINE a == IF canonical THEN x ELSE al[w].account
               c == al[w].canonical \/ canonical
    <3>1. a \in Fingerprint /\ a.workspace = w /\ c \in BOOLEAN
      BY <2>1, <2>3 DEF Alias
    <3>2. row = [account |-> a, canonical |-> c]
      BY <2>3
    <3> HIDE DEF a, c, row
    <3>3. row \in Alias /\ row.account = a
      BY <3>1, <3>2 DEF Alias
    <3> QED
      BY <2>3, <3>1, <3>3, DaemonAssumption DEF a
  <2> QED
    BY <2>2, <2>3
<1> HIDE DEF row, new
<1>3. new[w] = row /\ \A v \in Workspaces : v # w => new[v] = al[v]
    BY <1>1 DEF AliasOK
<1>4. AliasOK(new)
    BY <1>1, <1>2, <1>3 DEF AliasOK
<1> QED
    BY <1>2, <1>3, <1>4 DEF new

\* The links for inferred epochs: each of their workspaces has one, and none
\* is taken away or, where all epochs match, changed to another account.
LEMMA AliasesKept ==
    ASSUME NEW al, AliasOK(al), NEW es, NEW bound \in Nat, EpochsOK(es, bound),
           NEW inferred, inferred \subseteq WorkspaceEpoch
    PROVE  LET new == AliasesFor(inferred, al, es)
           IN  /\ AliasOK(new)
               /\ \A e \in inferred : new[e.workspace] # None
               /\ \A w \in Workspaces :
                     \/ new[w] = al[w]
                     \/ /\ new[w] # None
                        /\ \/ al[w] # None /\ new[w].account = al[w].account
                           \/ al[w] = None /\ new[w].account = Provisional(w)
                           \/ \E e \in es : e.account = new[w].account
<1> DEFINE new == AliasesFor(inferred, al, es)
           found == {e.workspace : e \in inferred}
           known(w) == CanonicalAccount(al, es, w)
           row(w) == IF known(w) # None THEN UpsertAlias(al, w, known(w), TRUE)[w]
                     ELSE UpsertAlias(al, w, Provisional(w), FALSE)[w]
<1>1. new = [w \in Workspaces |-> IF w \in found THEN row(w) ELSE al[w]]
    BY DEF AliasesFor
<1>2. ASSUME NEW w \in Workspaces
      PROVE  /\ row(w) \in Alias /\ row(w) # None /\ row(w).account.workspace = w
             /\ \/ al[w] # None /\ row(w).account = al[w].account
                \/ al[w] = None /\ row(w).account = Provisional(w)
                \/ \E e \in es : e.account = row(w).account
  <2> DEFINE x == known(w)
             r == row(w)
             up(y, c) == UpsertAlias(al, w, y, c)
  <2>1. \/ x = None
        \/ /\ x \in Fingerprint /\ x.workspace = w
           /\ \/ al[w] # None /\ x = al[w].account
              \/ \E e \in es : e.account = x
    BY CanonicalType
  <2>2. r = IF x # None THEN up(x, TRUE)[w] ELSE up(Provisional(w), FALSE)[w]
    OBVIOUS
  <2> HIDE DEF x, r, known, row
  <2>3. CASE x # None
    <3> DEFINE c == TRUE
               u == up(x, c)
    <3>1. x \in Fingerprint /\ x.workspace = w /\ c \in BOOLEAN
      BY <2>1, <2>3
    <3> HIDE DEF c
    <3>2. AliasOK(u) /\ u[w] # None /\ u[w].account = IF al[w] = None \/ c THEN x ELSE al[w].account
      BY <3>1, UpsertType
    <3> HIDE DEF u, up
    <3>3. r = u[w] /\ u[w].account = x
      BY <2>2, <2>3, <3>2 DEF u, c
    <3>4. r \in Alias /\ r # None /\ r.account = x
      BY <3>2, <3>3 DEF AliasOK
    <3> QED
      BY <2>1, <2>3, <3>4 DEF r
  <2>4. CASE x = None
    <3> DEFINE p == Provisional(w)
    <3>1. p \in Fingerprint /\ p.workspace = w
      BY FingerprintType
    <3> HIDE DEF p
    <3> DEFINE c == FALSE
               u == up(p, c)
    <3>2. c \in BOOLEAN /\ c = FALSE
      OBVIOUS
    <3> HIDE DEF c
    <3>3. AliasOK(u) /\ u[w] # None /\ u[w].account = IF al[w] = None \/ c THEN p ELSE al[w].account
      BY <3>1, <3>2, UpsertType
    <3> HIDE DEF u, up
    <3>4. r = u[w]
      BY <2>2, <2>4 DEF p, u, c
    <3>5. r \in Alias /\ r # None /\ r.account.workspace = w
      BY <3>3, <3>4 DEF AliasOK
    <3>6. r.account = IF al[w] = None THEN p ELSE al[w].account
      BY <3>2, <3>3, <3>4
    <3> QED
      BY <3>5, <3>6 DEF r, p
  <2> QED
    BY <2>3, <2>4
<1> HIDE DEF row, new
<1>3. \A w \in Workspaces : new[w] = IF w \in found THEN row(w) ELSE al[w]
    BY <1>1
<1>4. new \in [Workspaces -> Alias \cup {None}]
    BY <1>1, <1>2 DEF AliasOK
<1>5. AliasOK(new)
    BY <1>2, <1>3, <1>4 DEF AliasOK
<1>6. \A e \in inferred : e.workspace \in found /\ e.workspace \in Workspaces
    BY DEF WorkspaceEpoch
<1>7. \A e \in inferred : new[e.workspace] # None
    BY <1>2, <1>3, <1>6
<1>8. ASSUME NEW w \in Workspaces
      PROVE  \/ new[w] = al[w]
             \/ /\ new[w] # None
                /\ \/ al[w] # None /\ new[w].account = al[w].account
                   \/ al[w] = None /\ new[w].account = Provisional(w)
                   \/ \E e \in es : e.account = new[w].account
    BY <1>2, <1>3
<1> QED
    BY <1>5, <1>7, <1>8 DEF new

\* The rows of the history replace the historical epochs by those of the markers.
LEMMA ReplaceKeeps ==
    ASSUME NEW es, NEW bound, EpochsOK(es, bound), NEW al, AliasOK(al),
           NEW inferred, inferred \subseteq WorkspaceEpoch, \A i \in inferred : i.from <= bound,
           \A i \in inferred : al[i.workspace] # None
    PROVE  LET new == ReplaceHistoricalAuthEpochs(es, HistoryRows(inferred, al))
           IN  /\ EpochsOK(new, bound)
               /\ WorkspaceEpochs(new) = inferred
               /\ \A e \in new : e \in es \/ Matches(e, al)
<1> DEFINE new == ReplaceHistoricalAuthEpochs(es, HistoryRows(inferred, al))
           R(i) == [from |-> i.from, to |-> i.to, account |-> al[i.workspace].account,
                    generation |-> None, observed |-> FALSE,
                    verified |-> FALSE]
           View(e) == [from |-> e.from, to |-> e.to, workspace |-> e.account.workspace]
<1>1. ASSUME NEW i \in inferred
      PROVE  /\ R(i) \in Epoch /\ R(i).from <= bound /\ ~R(i).observed
             /\ View(R(i)) = i /\ Matches(R(i), al)
  <2> DEFINE x == al[i.workspace].account
             f == i.from
             t == i.to
             w == i.workspace
  <2>1. f \in Nat /\ f <= bound /\ t \in Nat \cup {None} /\ w \in Workspaces
        /\ i = [from |-> f, to |-> t, workspace |-> w]
    BY DEF WorkspaceEpoch
  <2>2. al[w] \in Alias /\ al[w] # None /\ x = al[w].account /\ x.workspace = w
    BY <2>1 DEF AliasOK
  <2>3. x \in Fingerprint
    BY <2>2 DEF Alias
  <2> DEFINE row == [from |-> f, to |-> t, account |-> x, generation |-> None, observed |-> FALSE,
                    verified |-> FALSE]
  <2>4. row = R(i)
    OBVIOUS
  <2> HIDE DEF x, f, t, w
  <2>5. /\ row \in Epoch /\ row.from <= bound /\ ~row.observed
        /\ row.from = f /\ row.to = t /\ row.account = x
    BY <2>1, <2>3 DEF Epoch
  <2>6. View(row) = i
    BY <2>1, <2>2, <2>5
  <2>7. Matches(row, al)
    BY <2>2, <2>5 DEF Matches
  <2> HIDE DEF row
  <2> QED
    BY <2>4, <2>5, <2>6, <2>7
<1>2. new = Observed(es) \cup {R(i) : i \in inferred}
    BY DEF ReplaceHistoricalAuthEpochs, HistoryRows
<1> HIDE DEF R, new
<1>3. OpenEpochs(new) = OpenEpochs(es)
    BY <1>1, <1>2 DEF OpenEpochs, Observed
<1>4. EpochsOK(new, bound)
  <2>1. Observed(es) \subseteq es
    BY DEF Observed
  <2>2. new \subseteq Epoch /\ \A e \in new : e.from <= bound
    BY <1>1, <1>2, <2>1 DEF EpochsOK
  <2> QED
    BY <1>3, <2>2 DEF EpochsOK
<1>5. Historical(new) = {R(i) : i \in inferred}
    BY <1>1, <1>2 DEF Historical, Observed
<1>6. WorkspaceEpochs(new) = inferred
  <2>1. WorkspaceEpochs(new) = {View(r) : r \in Historical(new)}
    BY DEF WorkspaceEpochs
  <2> HIDE DEF View
  <2> QED
    BY <1>1, <1>5, <2>1
<1>7. \A e \in new : e \in es \/ Matches(e, al)
    BY <1>1, <1>2 DEF Observed
<1> QED
    BY <1>4, <1>6, <1>7 DEF new

-----------------------------------------------------------------------------
(* Reading a quota tail. *)

File == [id : Nat, lines : Seq(Line)]

\* What is read of a file lies in it, and an epoch covers each of its lines.
LEMMA SafeRange ==
    ASSUME NEW es, NEW c \in Cursor \cup {None}, NEW file \in File
    PROVE  LET start == StartLine(c, file)
               safe  == SafeLine(es, file, start)
           IN  /\ start \in Nat /\ start <= safe /\ safe \in Nat /\ safe <= Len(file.lines)
               /\ Len(file.lines) \in Nat
               /\ \A i \in start + 1 .. safe : /\ i \in 1 .. Len(file.lines)
                                               /\ EpochAt(es, file.lines[i].at) # None
<1> DEFINE size == Len(file.lines)
           start == StartLine(c, file)
           safe == SafeLine(es, file, start)
<1>1. size \in Nat
    BY LenProperties DEF File
<1>2. start \in Nat /\ start <= size
  <2>1. CASE CursorMatches(c, file)
    <3>1. c.taken \in Nat
      BY <2>1 DEF CursorMatches, Cursor
    <3> QED
      BY <1>1, <2>1, <3>1 DEF StartLine
  <2>2. CASE ~CursorMatches(c, file)
    <3>1. BootstrapLines \in Nat
      BY DaemonAssumption
    <3> QED
      BY <1>1, <2>2, <3>1 DEF StartLine
  <2> QED
    BY <2>1, <2>2
<1> HIDE DEF start
<1> DEFINE held == {i \in start + 1 .. size : EpochAt(es, file.lines[i].at) = None}
<1>3. safe = IF held = {} THEN size ELSE Min(held) - 1
    BY DEF SafeLine
<1> HIDE DEF safe, size
<1>4. CASE held = {}
  <2>1. safe = size
    BY <1>3, <1>4
  <2>2. ASSUME NEW i \in start + 1 .. safe
        PROVE  i \in 1 .. size /\ EpochAt(es, file.lines[i].at) # None
    BY <1>1, <1>2, <1>4, <2>1
  <2> QED
    BY <1>1, <1>2, <2>1, <2>2 DEF size, start, safe
<1>5. CASE held # {}
  <2> DEFINE m == Min(held)
  <2>1. held \subseteq Nat
    BY <1>1, <1>2
  <2>2. m \in held /\ \A i \in held : m <= i
    BY <1>5, <2>1, MinMaxIn
  <2>3. safe = m - 1
    BY <1>3, <1>5
  <2> HIDE DEF m
  <2>4. m \in start + 1 .. size /\ m \in Nat
    BY <1>1, <1>2, <2>2
  <2>5. start <= safe /\ safe \in Nat /\ safe <= size /\ safe < m
    BY <1>1, <1>2, <2>3, <2>4
  <2>6. ASSUME NEW i \in start + 1 .. safe
        PROVE  i \in 1 .. size /\ EpochAt(es, file.lines[i].at) # None
    <3>1. i \in Nat /\ i < m /\ i \in start + 1 .. size /\ i \in 1 .. size
      BY <1>1, <1>2, <2>4, <2>5
    <3>2. i \notin held
      BY <2>2, <2>4, <3>1
    <3> QED
      BY <3>1, <3>2
  <2> QED
    BY <1>1, <1>2, <2>5, <2>6 DEF size, start, safe
<1> QED
    BY <1>4, <1>5

\* The row that is made of a line.
RowOf(es, line, d) ==
    [account |-> EpochAt(es, line.at).account, at |-> line.at, value |-> line.value,
     by |-> line.by, doubt |-> d]

\* A line is left out or becomes the last row.
LEMMA FileLineType ==
    ASSUME NEW es, NEW bound \in Nat, EpochsOK(es, bound), NEW q \in Seq(Snapshot),
           NEW line \in Line, EpochAt(es, line.at) # None, NEW d \in BOOLEAN
    PROVE  /\ RowOf(es, line, d) \in Snapshot
           /\ \/ FileLine(q, es, line, d) = q
              \/ FileLine(q, es, line, d) = Append(q, RowOf(es, line, d))
<1> DEFINE x == EpochAt(es, line.at).account
           row == RowOf(es, line, d)
<1>1. x \in Fingerprint
  <2>1. EpochAt(es, line.at) \in Epoch
    BY EpochAtIn DEF EpochsOK
  <2> QED
    BY <2>1 DEF Epoch
<1>2. row = [account |-> x, at |-> line.at, value |-> line.value, by |-> line.by, doubt |-> d]
    BY DEF RowOf
<1> HIDE DEF x
<1>3. row \in Snapshot
    BY <1>1, <1>2 DEF Snapshot, Line
<1>4. FileLine(q, es, line, d) = q \/ FileLine(q, es, line, d) = AppendQuotaSnapshot(q, row)
    BY <1>2 DEF FileLine, x
<1> HIDE DEF row
<1>5. AppendQuotaSnapshot(q, row) = q \/ AppendQuotaSnapshot(q, row) = Append(q, row)
    BY DEF AppendQuotaSnapshot
<1> QED
    BY <1>3, <1>4, <1>5 DEF row

\* Every row is one there was or one of a line, made of the epoch that covers it.
LEMMA FileLinesType ==
    ASSUME NEW es, NEW bound \in Nat, EpochsOK(es, bound), NEW q0 \in Seq(Snapshot),
           NEW lines \in Seq(Line), \A i \in 1 .. Len(lines) : EpochAt(es, lines[i].at) # None
    PROVE  LET new == FileLines(q0, es, lines, Doubtful)
           IN  /\ new \in Seq(Snapshot)
               /\ \A i \in DOMAIN new :
                     \/ i \in DOMAIN q0 /\ new[i] = q0[i]
                     \/ \E k \in 1 .. Len(lines) : new[i] = RowOf(es, lines[k], Doubtful(lines[k]))
<1> DEFINE N == Len(lines)
           Next1(q, n) == FileLine(q, es, lines[n], Doubtful(lines[n]))
           Body(g) == [n \in 0 .. N |-> IF n = 0 THEN q0 ELSE Next1(g[n - 1], n)]
           filed == CHOOSE g : g = Body(g)
           Good(q) == /\ q \in Seq(Snapshot)
                      /\ \A i \in DOMAIN q :
                            \/ i \in DOMAIN q0 /\ q[i] = q0[i]
                            \/ \E k \in 1 .. N : q[i] = RowOf(es, lines[k], Doubtful(lines[k]))
           D == {q \in Seq(Snapshot) : Good(q)}
<1>1. N \in Nat /\ \A n \in 1 .. N : lines[n] \in Line /\ Doubtful(lines[n]) \in BOOLEAN
  <2>1. N \in Nat /\ \A n \in 1 .. N : lines[n] \in Line
    BY LenProperties
  <2>2. \A n \in 1 .. N : Doubtful(lines[n]) \in BOOLEAN
    BY <2>1 DEF Doubtful, Line
  <2> QED
    BY <2>1, <2>2
<1>2. FileLines(q0, es, lines, Doubtful) = filed[N]
    BY DEF FileLines
<1> HIDE DEF N
<1>3. q0 \in D
    OBVIOUS
<1>4. ASSUME NEW n \in 1 .. N, NEW q \in D PROVE Next1(q, n) \in D
  <2> DEFINE line == lines[n]
             d == Doubtful(lines[n])
             row == RowOf(es, line, d)
             new == FileLine(q, es, line, d)
  <2>1. line \in Line /\ d \in BOOLEAN /\ EpochAt(es, line.at) # None
    BY <1>1 DEF N
  <2>2. q \in Seq(Snapshot) /\ Good(q)
    OBVIOUS
  <2>3. Next1(q, n) = new /\ row = RowOf(es, lines[n], Doubtful(lines[n]))
    OBVIOUS
  <2> HIDE DEF line, d
  <2>4. row \in Snapshot /\ (new = q \/ new = Append(q, row))
    BY <2>1, <2>2, FileLineType
  <2> HIDE DEF row, new, Next1
  <2>5. CASE new = q
    BY <2>2, <2>3, <2>5
  <2>6. CASE new = Append(q, row)
    <3> DEFINE m == Len(q)
    <3>1. m \in Nat /\ DOMAIN q = 1 .. m
      BY <2>2, LenProperties
    <3>2. /\ new \in Seq(Snapshot) /\ DOMAIN new = 1 .. m + 1
          /\ new[m + 1] = row /\ \A i \in 1 .. m : new[i] = q[i]
      BY <2>2, <2>4, <2>6, <3>1, AppendProperties, LenProperties
    <3> HIDE DEF m
    <3>3. ASSUME NEW i \in DOMAIN new
          PROVE  \/ i \in DOMAIN q0 /\ new[i] = q0[i]
                 \/ \E k \in 1 .. N : new[i] = RowOf(es, lines[k], Doubtful(lines[k]))
      <4>1. i = m + 1 \/ i \in DOMAIN q
        BY <3>1, <3>2
      <4>2. CASE i = m + 1
        BY <2>3, <3>2, <4>2
      <4>3. CASE i \in DOMAIN q
        BY <2>2, <3>1, <3>2, <4>3
      <4> QED
        BY <4>1, <4>2, <4>3
    <3> QED
      BY <2>3, <3>2, <3>3
  <2> QED
    BY <2>4, <2>5, <2>6
<1> DEFINE F == [n \in Nat |-> [q \in D |-> IF n \in 1 .. N THEN Next1(q, n) ELSE q]]
<1> HIDE DEF Next1, D
<1>5. F \in [Nat -> [D -> D]]
    BY <1>4
<1>6. PICK g \in [0 .. N -> D] : Recursive(g, q0, F, N)
  <2> HIDE DEF F
  <2> QED
    BY <1>1, <1>3, <1>5, RecursionExists
<1>7. g = Body(g)
  <2>1. ASSUME NEW n \in 0 .. N, n # 0 PROVE F[n][g[n - 1]] = Next1(g[n - 1], n)
    <3>1. n \in 1 .. N /\ n \in Nat /\ g[n - 1] \in D
      BY <1>1, <2>1
    <3> QED
      BY <3>1
  <2> QED
    BY <1>6, <2>1 DEF Recursive
<1>8. filed = Body(filed)
    BY <1>7
<1> HIDE DEF filed
<1> DEFINE S == {n \in 0 .. N : filed[n] \in D}
<1>9. filed[0] = q0 /\ \A n \in 0 .. N : n # N => filed[n + 1] = Next1(filed[n], n + 1)
  <2>1. 0 \in 0 .. N
    BY <1>1
  <2>2. \A n \in 0 .. N : filed[n] = IF n = 0 THEN q0 ELSE Next1(filed[n - 1], n)
    BY <1>8
  <2>3. ASSUME NEW n \in 0 .. N, n # N PROVE filed[n + 1] = Next1(filed[n], n + 1)
    <3>1. n + 1 \in 0 .. N /\ n + 1 # 0 /\ (n + 1) - 1 = n
      BY <1>1, <2>3
    <3> QED
      BY <2>2, <3>1
  <2> QED
    BY <2>1, <2>2, <2>3
<1>10. 0 \in S /\ \A n \in 0 .. N : n # N /\ n \in S => n + 1 \in S
  <2>1. \A n \in 0 .. N : n # N => n + 1 \in 1 .. N /\ n + 1 \in 0 .. N
    BY <1>1
  <2> QED
    BY <1>1, <1>3, <1>4, <1>9, <2>1
<1>11. \A n \in 0 .. N : n \in S
  <2> HIDE DEF S
  <2> QED
    BY <1>1, <1>10, BoundedInduction
<1>12. filed[N] \in D
    BY <1>1, <1>11
<1> QED
    BY <1>2, <1>12 DEF D, N

-----------------------------------------------------------------------------
(* The world outside. *)

WorldOK ==
    /\ now \in Nat
    /\ login \in Login \cup {None}
    /\ LogOK(log, now)
    /\ files \in [Files -> File]

\* Rows are added behind those there are.
LEMMA RowsAdded ==
    ASSUME NEW rows \in Seq(Marker), NEW more \in Seq(Marker), NEW bound \in Nat, NEW later \in Nat,
           LogOK(rows, bound), bound <= later, \A i \in DOMAIN more : more[i].at <= later
    PROVE  /\ LogOK(rows \o more, later)
           /\ Len(rows) <= Len(rows \o more)
           /\ \A n \in 0 .. Len(rows) : SubSeq(rows \o more, 1, n) = SubSeq(rows, 1, n)
<1> DEFINE all == rows \o more
           m == Len(rows)
           k == Len(more)
<1>1. m \in Nat /\ k \in Nat /\ DOMAIN rows = 1 .. m /\ DOMAIN more = 1 .. k
    BY LenProperties
<1>2. /\ all \in Seq(Marker) /\ Len(all) = m + k /\ DOMAIN all = 1 .. m + k
      /\ \A i \in 1 .. m + k : all[i] = IF i <= m THEN rows[i] ELSE more[i - m]
  <2>1. all \in Seq(Marker) /\ Len(all) = m + k
        /\ \A i \in 1 .. m + k : all[i] = IF i <= m THEN rows[i] ELSE more[i - m]
    BY ConcatProperties
  <2> QED
    BY <2>1, LenProperties
<1> HIDE DEF all, m, k
<1>3. ASSUME NEW i \in DOMAIN all PROVE all[i].at <= later
  <2>1. CASE i <= m
    <3>1. all[i] = rows[i] /\ i \in DOMAIN rows
      BY <1>1, <1>2, <1>3, <2>1
    <3>2. rows[i].at <= bound /\ rows[i].at \in Nat
      <4>1. rows[i] \in Marker
        BY <1>1, <3>1, ElementOfSeq DEF m
      <4> QED
        BY <3>1, <4>1 DEF LogOK, Marker
    <3> QED
      BY <3>1, <3>2
  <2>2. CASE ~(i <= m)
    <3>1. all[i] = more[i - m] /\ i - m \in DOMAIN more
      BY <1>1, <1>2, <1>3, <2>2
    <3> QED
      BY <3>1
  <2> QED
    BY <2>1, <2>2
<1>4. ASSUME NEW n \in 0 .. m PROVE SubSeq(all, 1, n) = SubSeq(rows, 1, n)
  <2>1. n \in Nat /\ \A i \in 1 .. n : i \in 1 .. m + k /\ i <= m /\ i \in 1 .. m
    BY <1>1, <1>4
  <2>2. \A i \in 1 .. n : all[i] = rows[i]
    BY <1>2, <2>1
  <2>3. SubSeq(all, 1, n) = [i \in 1 .. n |-> all[i]] /\ SubSeq(rows, 1, n) = [i \in 1 .. n |-> rows[i]]
    BY <2>1
  <2> QED
    BY <2>2, <2>3
<1> QED
    BY <1>1, <1>2, <1>3, <1>4 DEF all, m, LogOK

\* What happens outside: time passes, and rows are added to the log.
Passed ==
    /\ now <= now'
    /\ Len(log) <= Len(log')
    /\ \A n \in 0 .. Len(log) : SubSeq(log', 1, n) = SubSeq(log, 1, n)

\* Whatever happens outside, the world stays typed, time does not go back, and
\* the rows only grow.
LEMMA WorldNext ==
    ASSUME WorldOK, [Next]_serviceVars
    PROVE  WorldOK' /\ Passed
<1> USE DEF WorldOK
<1>1. ASSUME now' \in {now, now + 1}, UNCHANGED <<login, log, files>> PROVE WorldOK' /\ Passed
  <2>1. now \in Nat /\ now' \in Nat /\ now <= now'
    BY <1>1
  <2>2. ASSUME NEW i \in DOMAIN log PROVE log[i].at <= now'
    <3>1. log[i] \in Marker
      BY ElementOfSeq, LenProperties DEF LogOK
    <3> QED
      BY <2>1, <3>1 DEF LogOK, Marker
  <2>3. Len(log) \in Nat
    BY LenProperties DEF LogOK
  <2> QED
    BY <1>1, <2>1, <2>2, <2>3 DEF LogOK, Passed
<1>2. ASSUME NEW more \in Seq(Marker), now' = now + 1, log' = log \o more,
             \A i \in DOMAIN more : more[i].at <= now',
             login' \in Login \cup {None}, files' = files
      PROVE  WorldOK' /\ Passed
  <2>1. now \in Nat /\ now' \in Nat /\ now <= now' /\ log \in Seq(Marker)
    BY <1>2 DEF LogOK
  <2>2. /\ LogOK(log', now') /\ Len(log) <= Len(log')
        /\ \A n \in 0 .. Len(log) : SubSeq(log', 1, n) = SubSeq(log, 1, n)
    BY <1>2, <2>1, RowsAdded
  <2> QED
    BY <1>2, <2>1, <2>2 DEF Passed
<1>3. ASSUME NEW row \in Marker
      PROVE  /\ \A rows \in Seq(Marker) : Append(rows, row) = rows \o <<row>>
             /\ <<row>> \in Seq(Marker) /\ \A i \in DOMAIN <<row>> : <<row>>[i] = row
    BY <1>3, AppendIsConcat
<1>4. now \in Nat
    OBVIOUS
<1>5. ASSUME NEW a \in People, LogIn(a) PROVE WorldOK' /\ Passed
  <2> DEFINE first == Row("login_success", None)
             second == Row("account_seen", a.workspace)
             more == <<first, second>>
  <2>1. a.workspace \in Workspaces
    BY DaemonAssumption DEF Identity
  <2>2. now' = now + 1 /\ log' = log \o more /\ files' = files
        /\ login' = [account |-> a, generation |-> now']
    BY <1>5 DEF LogIn, Happens
  <2>3. first \in Marker /\ second \in Marker /\ first.at <= now' /\ second.at <= now'
    BY <1>4, <2>1, <2>2 DEF Row, Marker
  <2> HIDE DEF first, second
  <2>4. more \in Seq(Marker) /\ \A i \in DOMAIN more : more[i].at <= now'
    BY <2>3
  <2>5. login' \in Login
    BY <1>4, <2>2 DEF Login
  <2> HIDE DEF more
  <2> QED
    BY <1>2, <2>2, <2>4, <2>5
<1>6. ASSUME LogOut PROVE WorldOK' /\ Passed
  <2> DEFINE row == Row("logout", None)
  <2>1. now' = now + 1 /\ log' = Append(log, row) /\ files' = files /\ login' = None
    BY <1>6 DEF LogOut, Happens
  <2>2. row \in Marker /\ row.at <= now'
    BY <1>4, <2>1 DEF Row, Marker
  <2> HIDE DEF row
  <2>3. log' = log \o <<row>> /\ <<row>> \in Seq(Marker) /\ \A i \in DOMAIN <<row>> : <<row>>[i].at <= now'
    BY <1>3, <2>1, <2>2 DEF LogOK
  <2> QED
    BY <1>2, <2>1, <2>3
<1>7. ASSUME NEW a \in People, SwapAuth(a) PROVE WorldOK' /\ Passed
  <2> DEFINE row == Row("account_seen", a.workspace)
  <2>1. a.workspace \in Workspaces
    BY DaemonAssumption DEF Identity
  <2>2. now' = now + 1 /\ log' = Append(log, row) /\ files' = files
        /\ login' = [account |-> a, generation |-> now']
    BY <1>7 DEF SwapAuth, Happens
  <2>3. row \in Marker /\ row.at <= now' /\ login' \in Login
    BY <1>4, <2>1, <2>2 DEF Row, Marker, Login
  <2> HIDE DEF row
  <2>4. log' = log \o <<row>> /\ <<row>> \in Seq(Marker) /\ \A i \in DOMAIN <<row>> : <<row>>[i].at <= now'
    BY <1>3, <2>2, <2>3 DEF LogOK
  <2> QED
    BY <1>2, <2>2, <2>3, <2>4
<1>8. ASSUME now' = now + 1, UNCHANGED <<login, log>>, files' \in [Files -> File] PROVE WorldOK' /\ Passed
  <2>1. ASSUME NEW i \in DOMAIN log PROVE log[i].at <= now'
    <3>1. log[i] \in Marker
      BY ElementOfSeq, LenProperties DEF LogOK
    <3> QED
      BY <1>8, <3>1 DEF LogOK, Marker
  <2>2. Len(log) \in Nat
    BY LenProperties DEF LogOK
  <2> QED
    BY <1>8, <2>1, <2>2 DEF LogOK, Passed
<1>9. ASSUME NEW f \in Files, NEW v \in Values, WriteLine(f, v) PROVE WorldOK' /\ Passed
  <2> DEFINE line == [at |-> now', value |-> v, by |-> login.account, stale |-> Stale]
             new == [files[f] EXCEPT !.lines = Append(@, line)]
  <2>1. now' = now + 1 /\ UNCHANGED <<login, log>> /\ login # None /\ files' = [files EXCEPT ![f] = new]
    BY <1>9 DEF WriteLine, Happens
  <2>2. login.account \in Identity /\ Stale \in BOOLEAN
    BY <2>1, DaemonAssumption DEF Login, Stale
  <2>3. line \in Line
    BY <1>4, <2>1, <2>2 DEF Line
  <2> HIDE DEF line
  <2>4. Append(files[f].lines, line) \in Seq(Line)
    BY <2>3, AppendProperties DEF File
  <2>5. new \in File
    BY <2>4 DEF File
  <2> HIDE DEF new
  <2> QED
    BY <1>8, <2>1, <2>5
<1>10. ASSUME NEW f \in Files, CutFile(f) PROVE WorldOK' /\ Passed
  <2> DEFINE old == files[f].lines
             cut == Front(old)
             new == [files[f] EXCEPT !.lines = cut]
  <2>1. now' = now + 1 /\ UNCHANGED <<login, log>> /\ files' = [files EXCEPT ![f] = new]
    BY <1>10 DEF CutFile, Happens
  <2>2. old \in Seq(Line)
    BY DEF File
  <2> HIDE DEF old
  <2>3. cut \in Seq(Line)
    <3>1. Len(old) \in Nat /\ \A i \in 1 .. Len(old) - 1 : old[i] \in Line
      BY <2>2, LenProperties
    <3> QED
      BY <3>1, SubSeqProperties DEF Front
  <2> HIDE DEF cut
  <2>4. new \in File
    BY <2>3 DEF File
  <2> HIDE DEF new
  <2> QED
    BY <1>8, <2>1, <2>4
<1>11. ASSUME NEW f \in Files, ReplaceFile(f) PROVE WorldOK' /\ Passed
  <2> DEFINE new == [files[f] EXCEPT !.id = @ + 1]
  <2>1. now' = now + 1 /\ UNCHANGED <<login, log>> /\ files' = [files EXCEPT ![f] = new]
    BY <1>11 DEF ReplaceFile, Happens
  <2>2. new \in File
    BY DEF File
  <2> HIDE DEF new
  <2> QED
    BY <1>8, <2>1, <2>2
<1>12. CASE World
    BY <1>5, <1>6, <1>7, <1>9, <1>10, <1>11, <1>12 DEF World
<1>13. ASSUME ~World PROVE now' \in {now, now + 1} /\ UNCHANGED <<login, log, files>>
  <2>1. CASE DaemonNext /\ ~World
    BY <2>1 DEF DaemonNext, Work, ObserveAuth, LinkAlias, RemapAccount, Listen, ReadMarkers, LinkHistory,
             ReplaceHistory, RefreshOfficialUsage, IngestQuotaTail, Tick, OfficialTick, ServeEnds, ClosePage, ListenFails,
             AskOfficialUsage, StoreOfficialUsage, ObserveAuthFails, Kill, DieInQuotaTail, world, Happens
  <2>2. CASE ControllerNext /\ UNCHANGED <<login, log, files, ledger>>
    BY <2>2 DEF ControllerNext, OpenApp, ToggleCollection, Retry, QuitApp, BecomeHealthy, HealthTimesOut,
             HandleTermination, Happens
  <2>3. CASE UNCHANGED serviceVars
    BY <2>3 DEF serviceVars, vars, world
  <2> QED
    BY <1>13, <2>1, <2>2, <2>3 DEF Next
<1> QED
    BY <1>1, <1>12, <1>13
-----------------------------------------------------------------------------
(* The steps that a process takes. *)

Process == [alive : BOOLEAN, mode : Modes \cup {None}, todo : Seq(Steps), ticks : Nat,
            binding : Fingerprint \cup {None}, read : Fingerprint \cup {None},
            old : Fingerprint \cup {None}, left : SUBSET Files, http : BOOLEAN, handles : BOOLEAN,
            held : BOOLEAN]

\* The step that it takes next.
Upcoming(p) == IF p.alive /\ p.todo # <<>> THEN p.todo[1] ELSE "none"

\* Those that follow another step of the same work.
InnerSteps == {"alias", "merge", "infer", "replace"}
Plain(todo) == \A i \in DOMAIN todo : todo[i] \notin InnerSteps

\* They are taken at once, and a history that is linked is then replaced.
Ordered(todo) ==
    \A i \in DOMAIN todo :
        todo[i] \in InnerSteps => i = 1 \/ (i = 2 /\ todo[1] = "infer" /\ todo[2] = "replace")
LinkedFirst(todo) ==
    todo # <<>> /\ todo[1] = "infer" => Len(todo) >= 2 /\ todo[2] = "replace"

\* What else a process holds stays as it is.
SameBut(q, p) ==
    /\ q.alive = p.alive /\ q.mode = p.mode /\ q.ticks = p.ticks /\ q.binding = p.binding
    /\ q.read = p.read /\ q.old = p.old /\ q.left = p.left /\ q.http = p.http /\ q.handles = p.handles

\* The steps behind the first.
LEMMA TailOrdered ==
    ASSUME NEW todo \in Seq(Steps), todo # <<>>, Ordered(todo), LinkedFirst(todo)
    PROVE  /\ Tail(todo) \in Seq(Steps) /\ Ordered(Tail(todo)) /\ LinkedFirst(Tail(todo))
           /\ todo[1] # "infer" => Plain(Tail(todo))
           /\ todo[1] = "infer" => Tail(todo) # <<>> /\ Tail(todo)[1] = "replace"
<1> DEFINE rest == Tail(todo)
           n == Len(todo)
<1>1. n \in Nat /\ n >= 1 /\ DOMAIN todo = 1 .. n
    BY EmptySeq, LenProperties
<1>2. rest \in Seq(Steps) /\ Len(rest) = n - 1 /\ \A i \in 1 .. n - 1 : rest[i] = todo[i + 1]
    BY HeadTailProperties
<1>3. DOMAIN rest = 1 .. n - 1
    BY <1>2, LenProperties
<1> HIDE DEF rest, n
<1>4. ASSUME NEW i \in DOMAIN rest, rest[i] \in InnerSteps
      PROVE  i = 1 /\ todo[1] = "infer" /\ rest[1] = "replace"
    BY <1>1, <1>2, <1>3, <1>4 DEF Ordered
<1>5. todo[1] # "infer" => Plain(rest)
    BY <1>4 DEF Plain
<1>6. ASSUME todo[1] = "infer" PROVE rest # <<>> /\ rest[1] = "replace"
  <2>1. n >= 2 /\ todo[2] = "replace"
    BY <1>6 DEF LinkedFirst, n
  <2>2. 1 \in 1 .. n - 1
    BY <1>1, <2>1
  <2> QED
    BY <1>2, <1>3, <2>1, <2>2
<1>7. Ordered(rest)
    BY <1>4 DEF Ordered
<1>8. LinkedFirst(rest)
  <2>1. rest # <<>> => 1 \in DOMAIN rest
    BY <1>1, <1>2, <1>3, EmptySeq
  <2>2. rest # <<>> /\ rest[1] = "infer" => FALSE
    BY <1>4, <2>1 DEF InnerSteps
  <2> QED
    BY <2>2 DEF LinkedFirst
<1> QED
    BY <1>2, <1>5, <1>6, <1>7, <1>8 DEF rest

More == {<<>>, <<"official">>, <<"alias">>, <<"merge">>, <<"infer", "replace">>}

\* Other steps before those that are left.
LEMMA MoreOrdered ==
    ASSUME NEW rest \in Seq(Steps), NEW more \in More, more # <<>>, Plain(rest)
    PROVE  LET todo == more \o rest
           IN  /\ todo \in Seq(Steps) /\ Ordered(todo) /\ LinkedFirst(todo)
               /\ todo # <<>> /\ todo[1] = more[1]
<1> DEFINE todo == more \o rest
           k == Len(more)
           n == Len(rest)
<1>1. /\ more \in Seq(Steps) /\ k \in {1, 2} /\ n \in Nat /\ DOMAIN rest = 1 .. n
      /\ k = 2 => more[1] = "infer" /\ more[2] = "replace"
      /\ k = 1 => more[1] # "infer"
  <2>1. n \in Nat /\ DOMAIN rest = 1 .. n
    BY LenProperties
  <2>2. ASSUME NEW x \in Steps, NEW y \in Steps
        PROVE  /\ <<x>> \in Seq(Steps) /\ Len(<<x>>) = 1 /\ <<x>>[1] = x
               /\ <<x, y>> \in Seq(Steps) /\ Len(<<x, y>>) = 2 /\ <<x, y>>[1] = x /\ <<x, y>>[2] = y
    OBVIOUS
  <2>3. {"official", "alias", "merge", "infer", "replace"} \subseteq Steps
    BY DEF Steps
  <2>4. CASE more = <<"infer", "replace">>
    BY <2>1, <2>2, <2>3, <2>4
  <2>5. ASSUME NEW x \in {"official", "alias", "merge"}, more = <<x>>
        PROVE  more \in Seq(Steps) /\ k = 1 /\ more[1] # "infer"
    BY <2>2, <2>3, <2>5
  <2>6. more = <<"infer", "replace">> \/ \E x \in {"official", "alias", "merge"} : more = <<x>>
    BY DEF More
  <2> HIDE DEF k, n
  <2>7. CASE more \in Seq(Steps) /\ k = 1 /\ more[1] # "infer"
    BY <2>1, <2>7
  <2> QED
    BY <2>4, <2>5, <2>6, <2>7
<1>2. /\ todo \in Seq(Steps) /\ Len(todo) = k + n
      /\ \A i \in 1 .. k + n : todo[i] = IF i <= k THEN more[i] ELSE rest[i - k]
    BY <1>1, ConcatProperties
<1>3. DOMAIN todo = 1 .. k + n
    BY <1>2, LenProperties
<1> HIDE DEF todo, k, n
<1>4. 1 \in 1 .. k + n /\ todo[1] = more[1] /\ todo # <<>>
    BY <1>1, <1>2, <1>3
<1>5. k = 2 => todo[1] = "infer" /\ todo[2] = "replace" /\ Len(todo) >= 2
    BY <1>1, <1>2, <1>4
<1>6. ASSUME NEW i \in DOMAIN todo, todo[i] \in InnerSteps PROVE i <= k
  <2>1. CASE ~(i <= k)
    <3>1. todo[i] = rest[i - k] /\ i - k \in DOMAIN rest
      BY <1>1, <1>2, <1>3, <2>1
    <3> QED
      BY <1>6, <3>1 DEF Plain
  <2> QED
    BY <2>1
<1>7. Ordered(todo)
    BY <1>1, <1>3, <1>5, <1>6 DEF Ordered
<1>8. LinkedFirst(todo)
    BY <1>1, <1>4, <1>5 DEF LinkedFirst
<1> QED
    BY <1>2, <1>4, <1>7, <1>8 DEF todo

ProcessOK(p) == p \in Process /\ Ordered(p.todo) /\ LinkedFirst(p.todo)

\* A process that goes on takes the steps that follow, or the next of its own.
LEMMA ContinueKeeps ==
    ASSUME NEW p, ProcessOK(p), p.alive, p.todo # <<>>,
           NEW more \in More, more # <<>> => p.todo[1] # "infer"
    PROVE  LET q == Continue(p, more)
           IN  /\ ProcessOK(q) /\ SameBut(q, p)
               /\ more # <<>> => Upcoming(q) = more[1]
               /\ more = <<>> => IF p.todo[1] = "infer" THEN Upcoming(q) = "replace"
                                 ELSE Upcoming(q) \notin InnerSteps
<1> DEFINE todo == p.todo
           rest == Tail(todo)
           new == more \o rest
           q == Continue(p, more)
<1>1. todo \in Seq(Steps) /\ todo # <<>> /\ Ordered(todo) /\ LinkedFirst(todo)
    BY DEF ProcessOK, Process
<1>2. q = [p EXCEPT !.todo = new]
    BY DEF Continue
<1> HIDE DEF todo
<1>3. /\ rest \in Seq(Steps) /\ Ordered(rest) /\ LinkedFirst(rest)
      /\ todo[1] # "infer" => Plain(rest)
      /\ todo[1] = "infer" => rest # <<>> /\ rest[1] = "replace"
    BY <1>1, TailOrdered
<1> HIDE DEF rest, new, q
<1>4. /\ new \in Seq(Steps) /\ Ordered(new) /\ LinkedFirst(new)
      /\ more # <<>> => new # <<>> /\ new[1] = more[1]
      /\ more = <<>> => new = rest
  <2>1. CASE more = <<>>
    <3>1. new = rest
      BY <1>3, <2>1, ConcatEmptySeq DEF new
    <3> QED
      BY <1>3, <2>1, <3>1
  <2>2. CASE more # <<>>
    <3>1. Plain(rest)
      BY <1>3, <2>2 DEF todo
    <3> QED
      BY <1>3, <2>2, <3>1, MoreOrdered DEF new
  <2> QED
    BY <2>1, <2>2
<1>5. q \in Process /\ q.todo = new /\ SameBut(q, p)
    BY <1>2, <1>4 DEF ProcessOK, Process, SameBut
<1>6. Upcoming(q) = IF new # <<>> THEN new[1] ELSE "none"
    BY <1>5 DEF Upcoming, SameBut
<1>7. ASSUME more = <<>> PROVE IF todo[1] = "infer" THEN Upcoming(q) = "replace" ELSE Upcoming(q) \notin InnerSteps
  <2>1. new = rest
    BY <1>4, <1>7
  <2>2. CASE todo[1] = "infer"
    BY <1>3, <1>6, <2>1, <2>2
  <2>3. CASE todo[1] # "infer"
    <3>1. Plain(rest)
      BY <1>3, <2>3
    <3>2. rest # <<>> => 1 \in DOMAIN rest
      <4>1. Len(rest) \in Nat /\ (rest # <<>> => Len(rest) # 0) /\ DOMAIN rest = 1 .. Len(rest)
        BY <1>3, EmptySeq, LenProperties
      <4> QED
        BY <4>1
    <3>3. rest # <<>> => rest[1] \notin InnerSteps
      BY <3>1, <3>2 DEF Plain
    <3> QED
      BY <1>6, <2>1, <2>3, <3>3 DEF InnerSteps
  <2> QED
    BY <2>2, <2>3
<1> QED
    BY <1>4, <1>5, <1>6, <1>7 DEF ProcessOK, q, todo

\* What a process does is the step that it takes next.
LEMMA DoingUpcoming ==
    ASSUME proc \in Process
    PROVE  /\ \A step \in Steps : Doing(step) <=> Upcoming(proc) = step
           /\ Upcoming(proc) # "none" => proc.alive /\ proc.todo # <<>> /\ proc.todo[1] = Upcoming(proc)
           /\ Idle => Upcoming(proc) = "none"
<1>1. proc.todo \in Seq(Steps)
    BY DEF Process
<1>2. proc.todo # <<>> => Head(proc.todo) = proc.todo[1]
    BY <1>1
<1>3. "none" \notin Steps
    BY DEF Steps
<1> QED
    BY <1>2, <1>3 DEF Doing, Upcoming, Idle

\* What a merge and the link before it work on.
ReadOK(p, al) ==
    /\ Upcoming(p) \in {"alias", "merge"} => p.read \in People
    /\ Upcoming(p) = "merge" =>
          /\ p.old \in Fingerprint /\ p.old # p.read /\ p.old.workspace = p.read.workspace
          /\ al[p.read.workspace] # None /\ al[p.read.workspace].account = p.read

\* The ledger is settled, but for the work that is under way or was cut short.
Settled(p, es, al, rows, t) ==
    /\ "merge" \notin t =>
          \A e \in es : \/ Matches(e, al)
                        \/ Upcoming(p) = "alias" /\ e.account = p.read
                        \/ Upcoming(p) = "merge" /\ e.account = p.old
    /\ "history" \notin t =>
          Upcoming(p) \in {"infer", "replace"} \/ InferEpochs(rows, FirstSample) = WorkspaceEpochs(es)
    /\ Upcoming(p) = "replace" => \A e \in InferEpochs(rows, FirstSample) : al[e.workspace] # None

\* Between two works nothing is owed to the step that comes next.
LEMMA StaysSettled ==
    ASSUME NEW p, NEW q, NEW es, NEW al, NEW rows, NEW t, NEW u, Settled(p, es, al, rows, t), t \subseteq u,
           Upcoming(q) \notin InnerSteps,
           Upcoming(p) \in {"alias", "merge"} => "merge" \in u,
           Upcoming(p) \in {"infer", "replace"} => "history" \in u
    PROVE  Settled(q, es, al, rows, u)
<1>1. "merge" \notin u => \A e \in es : Matches(e, al)
    BY DEF Settled
<1>2. "history" \notin u => InferEpochs(rows, FirstSample) = WorkspaceEpochs(es)
    BY DEF Settled
<1>3. Upcoming(q) # "replace"
    BY DEF InnerSteps
<1> QED
    BY <1>1, <1>2, <1>3 DEF Settled

\* A process that takes the same step next owes the same.
LEMMA SameSettled ==
    ASSUME NEW p, NEW q, NEW es, NEW al, NEW rows, NEW t, Settled(p, es, al, rows, t), ReadOK(p, al),
           Upcoming(q) = Upcoming(p), q.read = p.read, q.old = p.old
    PROVE  Settled(q, es, al, rows, t) /\ ReadOK(q, al)
<1>1. Settled(q, es, al, rows, t)
    BY DEF Settled
<1>2. ReadOK(q, al)
    BY DEF ReadOK
<1> QED
    BY <1>1, <1>2

\* What is bound is kept, and nothing is owed afterwards.
LEMMA BoundKeeps ==
    ASSUME NEW p, ProcessOK(p), p.alive, p.todo # <<>>, p.todo[1] # "infer",
           NEW x \in Fingerprint \cup {None}
    PROVE  LET q == Bound(p, x)
           IN  /\ ProcessOK(q) /\ Upcoming(q) \notin InnerSteps
               /\ q.alive = p.alive /\ q.mode = p.mode /\ q.binding = x
<1> DEFINE p2 == [p EXCEPT !.binding = x, !.read = None, !.old = None]
           more2 == IF ~Starting(p) /\ x # p.binding /\ x # None THEN <<"official">> ELSE <<>>
           q == Continue(p2, more2)
<1>1. Bound(p, x) = q
    BY DEF Bound
<1>2. /\ p2 \in Process /\ p2.alive = p.alive /\ p2.mode = p.mode /\ p2.binding = x
      /\ p2.todo = p.todo
    BY DEF ProcessOK, Process
<1>3. ProcessOK(p2) /\ p2.alive /\ p2.todo # <<>> /\ p2.todo[1] # "infer"
    BY <1>2 DEF ProcessOK
<1>4. more2 \in {<<>>, <<"official">>}
    OBVIOUS
<1> HIDE DEF p2, more2
<1>5. more2 \in More
    BY <1>4 DEF More
<1>6. /\ ProcessOK(q) /\ SameBut(q, p2)
      /\ more2 # <<>> => Upcoming(q) = more2[1]
      /\ more2 = <<>> => Upcoming(q) \notin InnerSteps
    BY <1>3, <1>5, ContinueKeeps
<1> HIDE DEF q
<1>7. Upcoming(q) \notin InnerSteps
    BY <1>4, <1>6 DEF InnerSteps
<1> QED
    BY <1>1, <1>2, <1>6, <1>7 DEF SameBut

-----------------------------------------------------------------------------
(* The ledger. *)

LedgerOK ==
    /\ EpochsOK(epochs, now + FirstSample)
    /\ AliasOK(alias)
    /\ imported \in 0 .. Len(log)
    /\ quota \in Seq(Snapshot)
    /\ cursors \in [Files -> Cursor \cup {None}]
    /\ official \in [Fingerprint -> Identity \cup {None}]

Request == [account : Fingerprint, fresh : Nat \cup {None}]

\* The process owes what its next steps settle.
WorkOK ==
    /\ ProcessOK(proc) /\ ReadOK(proc, alias)
    /\ Settled(proc, epochs, alias, Markers, torn)
    /\ torn \subseteq {"merge", "history"}
    /\ request \in Request \cup {None}

\* A step of the process leaves it in its mode, or ends it.
Lives == proc'.alive => proc.alive /\ proc'.mode = proc.mode

Before == WorldOK /\ WorldOK' /\ Passed /\ LedgerOK /\ WorkOK
After == LedgerOK' /\ WorkOK' /\ Lives

\* Epochs that began by a time began by a later one.
LEMMA LedgerKept ==
    ASSUME Before, EpochsOK(epochs', now + FirstSample), AliasOK(alias'), imported' \in 0 .. Len(log),
           quota' \in Seq(Snapshot), cursors' \in [Files -> Cursor \cup {None}],
           official' \in [Fingerprint -> Identity \cup {None}]
    PROVE  LedgerOK' /\ Markers' = SubSeq(log, 1, imported')
<1>1. now \in Nat /\ now' \in Nat /\ now <= now' /\ FirstSample \in Nat
    BY DaemonAssumption DEF Before, WorldOK, Passed
<1>2. \A e \in epochs' : e.from \in Nat /\ e.from <= now + FirstSample
    BY DEF EpochsOK, Epoch
<1>3. \A e \in epochs' : e.from <= now' + FirstSample
    BY <1>1, <1>2
<1>4. EpochsOK(epochs', now' + FirstSample)
    BY <1>3 DEF EpochsOK
<1>5. Len(log) \in Nat /\ Len(log') \in Nat /\ Len(log) <= Len(log')
    BY LenProperties DEF Before, WorldOK, LogOK, Passed
<1>6. imported' \in 0 .. Len(log')
    BY <1>5
<1>7. Markers' = SubSeq(log, 1, imported')
    BY DEF Before, Passed, Markers
<1> QED
    BY <1>4, <1>6, <1>7 DEF LedgerOK

\* Where the ledger stays as it is.
LEMMA LedgerStays ==
    ASSUME Before, UNCHANGED <<epochs, alias, imported, quota, cursors>>,
           official' \in [Fingerprint -> Identity \cup {None}]
    PROVE  LedgerOK' /\ Markers' = Markers
<1>1. /\ EpochsOK(epochs', now + FirstSample) /\ AliasOK(alias') /\ imported' \in 0 .. Len(log)
      /\ quota' \in Seq(Snapshot) /\ cursors' \in [Files -> Cursor \cup {None}]
    BY DEF Before, LedgerOK
<1>2. LedgerOK' /\ Markers' = SubSeq(log, 1, imported')
    BY <1>1, LedgerKept
<1> QED
    BY <1>2 DEF Markers

\* Where the process stays as it is, too.
LEMMA AtRest ==
    ASSUME Before, UNCHANGED <<epochs, alias, imported, quota, cursors, proc, torn>>,
           official' \in [Fingerprint -> Identity \cup {None}], request' \in Request \cup {None}
    PROVE  After
<1>1. LedgerOK' /\ Markers' = Markers
    BY LedgerStays
<1>2. WorkOK'
    BY <1>1 DEF Before, WorkOK
<1> QED
    BY <1>1, <1>2 DEF After, Lives

\* Where the process goes on to a step that nothing is owed to, or ends.
LEMMA GoesOn ==
    ASSUME Before, UNCHANGED <<epochs, alias, imported>>, quota' \in Seq(Snapshot),
           cursors' \in [Files -> Cursor \cup {None}],
           official' \in [Fingerprint -> Identity \cup {None}], request' \in Request \cup {None},
           ProcessOK(proc'), Upcoming(proc') \notin InnerSteps,
           torn \subseteq torn', torn' \subseteq {"merge", "history"},
           Upcoming(proc) \in {"alias", "merge"} => "merge" \in torn',
           Upcoming(proc) \in {"infer", "replace"} => "history" \in torn'
    PROVE  LedgerOK' /\ WorkOK'
<1>1. /\ EpochsOK(epochs', now + FirstSample) /\ AliasOK(alias') /\ imported' \in 0 .. Len(log)
    BY DEF Before, LedgerOK
<1>2. LedgerOK' /\ Markers' = SubSeq(log, 1, imported')
    BY <1>1, LedgerKept
<1>3. Markers' = Markers
    BY <1>2 DEF Markers
<1>4. Settled(proc, epochs, alias, Markers, torn)
    BY DEF Before, WorkOK
<1>5. Settled(proc', epochs, alias, Markers, torn')
    BY <1>4, StaysSettled
<1>6. Settled(proc', epochs', alias', Markers', torn')
    BY <1>3, <1>5
<1>7. ReadOK(proc', alias')
    BY DEF ReadOK, InnerSteps
<1> QED
    BY <1>2, <1>6, <1>7 DEF WorkOK

\* A process that is killed.
LEMMA DeadOK ==
    /\ ProcessOK(Dead) /\ Upcoming(Dead) = "none" /\ ~Dead.alive
    /\ \A mode \in Modes : LET p == Started(mode)
                           IN  /\ ProcessOK(p) /\ Upcoming(p) = "epoch" /\ p.alive /\ p.mode = mode
                               /\ p.binding = None
<1>1. <<>> \in Seq(Steps) /\ Dead \in Process
    BY DEF Dead, Process
<1>2. Dead.todo = <<>> /\ DOMAIN <<>> = {}
    BY DEF Dead
<1>3. Ordered(<<>>) /\ LinkedFirst(<<>>)
    BY <1>2 DEF Ordered, LinkedFirst
<1>4. ProcessOK(Dead) /\ Upcoming(Dead) = "none" /\ ~Dead.alive
    BY <1>1, <1>2, <1>3 DEF ProcessOK, Upcoming, Dead
<1>5. ASSUME NEW mode \in Modes
      PROVE  LET p == Started(mode)
             IN  /\ ProcessOK(p) /\ Upcoming(p) = "epoch" /\ p.alive /\ p.mode = mode /\ p.binding = None
  <2> DEFINE p == Started(mode)
             todo == Startup(mode)
  <2>1. /\ todo \in Seq(Steps) /\ todo # <<>> /\ todo[1] = "epoch"
        /\ \A i \in DOMAIN todo : todo[i] \in {"epoch", "listen", "markers", "official", "quota"}
    <3>1. DOMAIN todo \subseteq {1, 2, 3, 4, 5}
      BY DEF Startup
    <3>2. \A i \in DOMAIN todo : todo[i] \in {"epoch", "listen", "markers", "official", "quota"}
      BY <3>1 DEF Startup
    <3>3. \A a, b, c, d, e \in Steps :
             /\ <<a, b, c, d>> \in Seq(Steps) /\ <<a, b, c, d, e>> \in Seq(Steps)
             /\ <<a, b, c, d>> # <<>> /\ <<a, b, c, d, e>> # <<>>
      OBVIOUS
    <3>4. \A i \in {"epoch", "listen", "markers", "official", "quota"} : i \in Steps
      BY DEF Steps
    <3>5. todo \in Seq(Steps) /\ todo # <<>> /\ todo[1] = "epoch"
      BY <3>3, <3>4 DEF Startup
    <3> QED
      BY <3>2, <3>5
  <2> HIDE DEF todo
  <2>2. p = [Dead EXCEPT !.alive = TRUE, !.mode = mode, !.todo = todo, !.left = Files]
    BY DEF Started, todo
  <2>3. /\ p \in Process /\ p.alive /\ p.mode = mode /\ p.todo = todo /\ p.binding = None
    <3>1. p = [alive |-> TRUE, mode |-> mode, todo |-> todo, ticks |-> 0, binding |-> None,
               read |-> None, old |-> None, left |-> Files, http |-> FALSE, handles |-> FALSE,
               held |-> FALSE]
      BY <2>2 DEF Dead
    <3> QED
      BY <2>1, <3>1 DEF Process
  <2> HIDE DEF p
  <2>4. Ordered(todo) /\ LinkedFirst(todo)
    BY <2>1 DEF Ordered, LinkedFirst, InnerSteps
  <2> QED
    BY <2>1, <2>3, <2>4 DEF ProcessOK, Upcoming, p
<1> QED
    BY <1>4, <1>5

\* What a process that dies leaves undone is noted.
LEMMA DieOK ==
    ASSUME Before, Die, UNCHANGED <<epochs, alias, imported, cursors, official>>, quota' \in Seq(Snapshot)
    PROVE  After
<1>1. proc' = Dead /\ request' = None /\ torn' = LeftUndone
    BY DEF Die
<1>2. ProcessOK(Dead) /\ Upcoming(Dead) = "none" /\ ~Dead.alive
    BY DeadOK
<1>3. proc \in Process /\ torn \subseteq {"merge", "history"}
    BY DEF Before, WorkOK, ProcessOK
<1>4. /\ Doing("alias") <=> Upcoming(proc) = "alias"
      /\ Doing("merge") <=> Upcoming(proc) = "merge"
      /\ Doing("infer") <=> Upcoming(proc) = "infer"
      /\ Doing("replace") <=> Upcoming(proc) = "replace"
    BY <1>3, DoingUpcoming DEF Steps
<1>5. /\ torn \subseteq torn' /\ torn' \subseteq {"merge", "history"}
      /\ Upcoming(proc) \in {"alias", "merge"} => "merge" \in torn'
      /\ Upcoming(proc) \in {"infer", "replace"} => "history" \in torn'
    BY <1>1, <1>3, <1>4 DEF LeftUndone
<1>6. cursors' \in [Files -> Cursor \cup {None}] /\ official' \in [Fingerprint -> Identity \cup {None}]
    BY DEF Before, LedgerOK
<1>7. Upcoming(proc') \notin InnerSteps
    BY <1>1, <1>2 DEF InnerSteps
<1>8. LedgerOK' /\ WorkOK'
    BY <1>1, <1>2, <1>5, <1>6, <1>7, GoesOn
<1> QED
    BY <1>1, <1>2, <1>8 DEF After, Lives

-----------------------------------------------------------------------------
(* The steps that observe auth.json. *)

\* What the steps of the process start from.
LEMMA Underway ==
    ASSUME Before, NEW step \in Steps, Doing(step)
    PROVE  /\ ProcessOK(proc) /\ proc \in Process /\ proc.alive /\ proc.todo # <<>>
           /\ Upcoming(proc) = step /\ proc.todo[1] = step
           /\ Settled(proc, epochs, alias, Markers, torn) /\ ReadOK(proc, alias)
           /\ torn \subseteq {"merge", "history"} /\ request \in Request \cup {None}
<1>1. ProcessOK(proc) /\ proc \in Process
    BY DEF Before, WorkOK, ProcessOK
<1>2. Upcoming(proc) = step
    BY <1>1, DoingUpcoming
<1>3. "none" \notin Steps
    BY DEF Steps
<1> QED
    BY <1>1, <1>2, <1>3, DoingUpcoming DEF Before, WorkOK

\* An epoch is closed, or one is added whose account is linked next.
LEMMA ObserveAuthOK ==
    ASSUME Before, ObserveAuth
    PROVE  After
<1> DEFINE b == now + FirstSample
           p == proc
           q == proc'
<1>1. "epoch" \in Steps /\ Doing("epoch")
    BY DEF ObserveAuth, Steps
<1>2. /\ ProcessOK(p) /\ p \in Process /\ p.alive /\ p.todo # <<>>
      /\ Upcoming(p) = "epoch" /\ p.todo[1] = "epoch"
      /\ Settled(p, epochs, alias, Markers, torn)
      /\ torn \subseteq {"merge", "history"} /\ request \in Request \cup {None}
    BY <1>1, Underway
<1>3. /\ UNCHANGED <<alias, imported, quota, cursors, official, request, torn>>
    BY DEF ObserveAuth
<1>4. /\ EpochsOK(epochs, b) /\ AliasOK(alias') /\ imported' \in 0 .. Len(log)
      /\ quota' \in Seq(Snapshot) /\ cursors' \in [Files -> Cursor \cup {None}]
      /\ official' \in [Fingerprint -> Identity \cup {None}]
    BY <1>3 DEF Before, LedgerOK
<1>5. now \in Nat /\ b \in Nat /\ now <= b
    BY DaemonAssumption DEF Before, WorldOK
<1>6. ASSUME EpochsOK(epochs', b) PROVE LedgerOK' /\ Markers' = Markers
  <2>1. LedgerOK' /\ Markers' = SubSeq(log, 1, imported')
    BY <1>4, <1>6, LedgerKept
  <2> QED
    BY <1>3, <2>1 DEF Markers
<1> HIDE DEF b
<1>7. /\ "merge" \notin torn => \A e \in epochs : Matches(e, alias)
      /\ "history" \notin torn => InferEpochs(Markers, FirstSample) = WorkspaceEpochs(epochs)
    BY <1>2 DEF Settled
<1>8. CASE login = None
  <2>1. epochs' = CloseCurrentAuthEpoch(epochs, now) /\ q = Bound(p, None)
    BY <1>8 DEF ObserveAuth
  <2>2. /\ EpochsOK(epochs', b) /\ Historical(epochs') = Historical(epochs)
        /\ \A c \in epochs' : \E e \in epochs : c.account = e.account
    BY <1>4, <1>5, <2>1, CloseKeeps
  <2> DEFINE x == None
  <2>3. /\ ProcessOK(Bound(p, x)) /\ Upcoming(Bound(p, x)) \notin InnerSteps
        /\ Bound(p, x).alive = p.alive /\ Bound(p, x).mode = p.mode
    <3>1. x \in Fingerprint \cup {None}
      OBVIOUS
    <3> HIDE DEF x
    <3> QED
      BY <1>2, <3>1, BoundKeeps
  <2>4. ProcessOK(q) /\ Upcoming(q) \notin InnerSteps /\ q.alive = p.alive /\ q.mode = p.mode
    BY <2>1, <2>3
  <2> HIDE DEF q, p
  <2>5. \A c \in epochs' : (\A e \in epochs : Matches(e, alias)) => Matches(c, alias)
    BY <2>2 DEF Matches
  <2>6. WorkspaceEpochs(epochs') = WorkspaceEpochs(epochs)
    BY <2>2 DEF WorkspaceEpochs
  <2>7. Settled(q, epochs', alias, Markers, torn) /\ ReadOK(q, alias)
    BY <1>7, <2>4, <2>5, <2>6 DEF Settled, ReadOK, InnerSteps
  <2>8. LedgerOK' /\ Markers' = Markers
    BY <1>6, <2>2
  <2>9. WorkOK'
    BY <1>2, <1>3, <2>4, <2>7, <2>8 DEF WorkOK, q
  <2> QED
    BY <2>4, <2>8, <2>9 DEF After, Lives, q, p
<1>9. CASE login # None
  <2> DEFINE a == login.account
             p2 == [p EXCEPT !.read = a]
             more == <<"alias">>
  <2>1. epochs' = AppendAuthEpoch(epochs, login, now) /\ q = Continue(p2, more)
    BY <1>9 DEF ObserveAuth
  <2>2. login \in Login /\ a \in People /\ a \in Fingerprint
    BY <1>9, DaemonAssumption DEF Before, WorldOK, Login, Fingerprint
  <2>3. /\ EpochsOK(epochs', b) /\ Historical(epochs') = Historical(epochs)
        /\ \A n \in epochs' : \/ n.account = a
                              \/ \E e \in epochs : n.account = e.account
    BY <1>4, <1>5, <2>1, <2>2, AppendKeeps
  <2>4. p2 \in Process /\ p2.read = a /\ p2.alive = p.alive /\ p2.mode = p.mode /\ p2.todo = p.todo
    BY <1>2, <2>2 DEF Process
  <2>5. ProcessOK(p2) /\ p2.alive /\ p2.todo # <<>> /\ p2.todo[1] # "infer"
    BY <1>2, <2>4 DEF ProcessOK
  <2>6. more \in More /\ more # <<>> /\ more[1] = "alias"
    BY DEF More
  <2> HIDE DEF p2, more
  <2>7. /\ ProcessOK(q) /\ SameBut(q, p2) /\ Upcoming(q) = "alias"
    BY <2>1, <2>5, <2>6, ContinueKeeps
  <2>8. q.read = a /\ q.alive = p.alive /\ q.mode = p.mode
    BY <2>4, <2>7 DEF SameBut
  <2> HIDE DEF q, p, a
  <2>9. \A n \in epochs' : (\A e \in epochs : Matches(e, alias)) => Matches(n, alias) \/ n.account = a
    BY <2>3 DEF Matches
  <2>10. WorkspaceEpochs(epochs') = WorkspaceEpochs(epochs)
    BY <2>3 DEF WorkspaceEpochs
  <2>11. Settled(q, epochs', alias, Markers, torn) /\ ReadOK(q, alias)
    BY <1>7, <2>2, <2>7, <2>8, <2>9, <2>10 DEF Settled, ReadOK
  <2>12. LedgerOK' /\ Markers' = Markers
    BY <1>6, <2>3
  <2>13. WorkOK'
    BY <1>2, <1>3, <2>7, <2>11, <2>12 DEF WorkOK, q
  <2> QED
    BY <2>8, <2>12, <2>13 DEF After, Lives, q, p
<1> QED
    BY <1>8, <1>9

\* auth.json cannot be read: the process ends, or goes on with the old binding.
LEMMA ObserveAuthFailsOK ==
    ASSUME Before, ObserveAuthFails
    PROVE  After
<1> DEFINE p == proc
           q == proc'
           more == <<>>
<1>1. "epoch" \in Steps /\ Doing("epoch")
    BY DEF ObserveAuthFails, Steps
<1>2. /\ ProcessOK(p) /\ p.alive /\ p.todo # <<>> /\ Upcoming(p) = "epoch" /\ p.todo[1] = "epoch"
      /\ torn \subseteq {"merge", "history"} /\ request \in Request \cup {None}
    BY <1>1, Underway
<1>3. UNCHANGED <<world, ledger, request, torn>> /\ (q = Dead \/ q = Continue(p, more))
    BY DEF ObserveAuthFails
<1>4. more \in More /\ more = <<>>
    BY DEF More
<1> HIDE DEF more
<1>5. /\ ProcessOK(q) /\ Upcoming(q) \notin InnerSteps
      /\ q.alive => p.alive /\ q.mode = p.mode
  <2>1. CASE q = Dead
    BY <2>1, DeadOK DEF InnerSteps
  <2>2. CASE q = Continue(p, more)
    <3>1. ProcessOK(q) /\ SameBut(q, p) /\ Upcoming(q) \notin InnerSteps
      BY <1>2, <1>4, <2>2, ContinueKeeps
    <3> QED
      BY <3>1 DEF SameBut
  <2> QED
    BY <1>3, <2>1, <2>2
<1>6. /\ UNCHANGED <<epochs, alias, imported>> /\ quota' \in Seq(Snapshot)
      /\ cursors' \in [Files -> Cursor \cup {None}] /\ official' \in [Fingerprint -> Identity \cup {None}]
    BY <1>3 DEF ledger, Before, LedgerOK
<1>7. LedgerOK' /\ WorkOK'
    BY <1>2, <1>3, <1>5, <1>6, GoesOn
<1> QED
    BY <1>5, <1>7 DEF After, Lives

\* The account is linked to its workspace; one that was linked before is merged next.
LEMMA LinkAliasOK ==
    ASSUME Before, LinkAlias
    PROVE  After
<1> DEFINE b == now + FirstSample
           p == proc
           q == proc'
           a == p.read
           w == a.workspace
           old == ReplacedAccount(alias, w, a)
           c == TRUE
           new == UpsertAlias(alias, w, a, c)
<1>1. "alias" \in Steps /\ Doing("alias")
    BY DEF LinkAlias, Steps
<1>2. /\ ProcessOK(p) /\ p \in Process /\ p.alive /\ p.todo # <<>>
      /\ Upcoming(p) = "alias" /\ p.todo[1] = "alias"
      /\ Settled(p, epochs, alias, Markers, torn) /\ ReadOK(p, alias)
      /\ torn \subseteq {"merge", "history"} /\ request \in Request \cup {None}
    BY <1>1, Underway
<1>3. /\ UNCHANGED <<epochs, imported, quota, cursors, official, request, torn>>
      /\ alias' = new
      /\ q = IF old = None THEN Bound(p, a) ELSE Continue([p EXCEPT !.old = old], <<"merge">>)
    BY DEF LinkAlias
<1>4. /\ EpochsOK(epochs', b) /\ imported' \in 0 .. Len(log)
      /\ quota' \in Seq(Snapshot) /\ cursors' \in [Files -> Cursor \cup {None}]
      /\ official' \in [Fingerprint -> Identity \cup {None}] /\ AliasOK(alias)
    BY <1>3 DEF Before, LedgerOK
<1>5. a \in People /\ a \in Fingerprint /\ w \in Workspaces /\ a.workspace = w /\ a # None
  <2>1. a \in People
    BY <1>2 DEF ReadOK
  <2>2. a \in Identity
    BY <2>1, DaemonAssumption
  <2> QED
    BY <2>1, <2>2, FingerprintType, DaemonAssumption
<1>6. c \in BOOLEAN /\ c
    OBVIOUS
<1> HIDE DEF c, w, a
<1>7. /\ AliasOK(new) /\ new[w] # None
      /\ new[w].account = IF alias[w] = None \/ c THEN a ELSE alias[w].account
      /\ \A v \in Workspaces : v # w => new[v] = alias[v]
  <2>1. AliasOK(alias) /\ w \in Workspaces /\ a \in Fingerprint /\ a.workspace = w /\ c \in BOOLEAN
    BY <1>4, <1>5, <1>6
  <2> QED
    BY <2>1, UpsertType
<1>8. new[w].account = a
    BY <1>6, <1>7
<1> HIDE DEF new
<1>9. LedgerOK' /\ Markers' = Markers
  <2>1. LedgerOK' /\ Markers' = SubSeq(log, 1, imported')
    BY <1>3, <1>4, <1>7, LedgerKept
  <2> QED
    BY <1>3, <2>1 DEF Markers
<1>10. \/ old = None /\ (alias[w] = None \/ alias[w].account = a)
       \/ old # None /\ alias[w] # None /\ old = alias[w].account /\ old # a
  <2>1. alias[w] # None => alias[w].account # None
    <3>1. alias[w] # None => alias[w] \in Alias
      BY <1>4, <1>5 DEF AliasOK
    <3> QED
      BY <3>1, DaemonAssumption DEF Alias
  <2> QED
    BY <2>1 DEF ReplacedAccount
<1>11. old = None \/ (old \in Fingerprint /\ old.workspace = w)
  <2>1. CASE alias[w] # None
    <3>1. alias[w] \in Alias /\ alias[w].account.workspace = w
      BY <1>4, <1>5, <2>1 DEF AliasOK
    <3> QED
      BY <1>10, <3>1 DEF Alias
  <2> QED
    BY <1>10, <2>1
<1>12. \A e \in epochs : e \in Epoch /\ e.account.workspace \in Workspaces
    BY <1>4, <1>3, FingerprintType DEF EpochsOK, Epoch
<1>13. /\ "merge" \notin torn => \A e \in epochs : Matches(e, alias) \/ e.account = a
       /\ "history" \notin torn => InferEpochs(Markers, FirstSample) = WorkspaceEpochs(epochs)
    BY <1>2 DEF Settled, a
<1> HIDE DEF old
<1>14. ASSUME NEW e \in epochs, Matches(e, alias) \/ e.account = a
       PROVE  Matches(e, new) \/ (old # None /\ e.account = old)
  <2> DEFINE v == e.account.workspace
  <2>1. CASE e.account = a
    BY <1>5, <1>7, <1>8, <2>1 DEF Matches
  <2>2. CASE Matches(e, alias) /\ v # w
    BY <1>7, <1>12, <2>2 DEF Matches
  <2>3. CASE Matches(e, alias) /\ v = w
    <3>1. alias[w] # None /\ alias[w].account = e.account
      BY <2>3 DEF Matches
    <3>2. CASE old = None
      <4>1. e.account = a
        BY <1>10, <3>1, <3>2
      <4> QED
        BY <2>1, <4>1
    <3>3. CASE old # None
      BY <1>10, <3>1, <3>3
    <3> QED
      BY <3>2, <3>3
  <2> QED
    BY <1>14, <2>1, <2>2, <2>3
<1> USE DEF InnerSteps
<1>15. CASE old = None
  <2>1. q = Bound(p, a)
    BY <1>3, <1>15
  <2>2. ProcessOK(q) /\ Upcoming(q) \notin InnerSteps /\ q.alive = p.alive /\ q.mode = p.mode
    BY <1>2, <1>5, <2>1, BoundKeeps
  <2> HIDE DEF p, q
  <2>3. Settled(q, epochs, new, Markers, torn) /\ ReadOK(q, new)
    BY <1>13, <1>14, <1>15, <2>2 DEF Settled, ReadOK
  <2>4. WorkOK'
    BY <1>2, <1>3, <1>9, <2>2, <2>3 DEF WorkOK, q
  <2> QED
    BY <1>9, <2>2, <2>4 DEF After, Lives, p, q
<1>16. CASE old # None
  <2> DEFINE p2 == [p EXCEPT !.old = old]
             more == <<"merge">>
  <2>1. q = Continue(p2, more)
    BY <1>3, <1>16
  <2>2. old \in Fingerprint /\ old.workspace = w /\ old # a
    BY <1>10, <1>11, <1>16
  <2>3. /\ p2 \in Process /\ p2.old = old /\ p2.read = a /\ p2.alive = p.alive /\ p2.mode = p.mode
        /\ p2.todo = p.todo
    BY <1>2, <2>2 DEF Process, a
  <2>4. ProcessOK(p2) /\ p2.alive /\ p2.todo # <<>> /\ p2.todo[1] # "infer"
    BY <1>2, <2>3 DEF ProcessOK
  <2>5. more \in More /\ more # <<>> /\ more[1] = "merge"
    BY DEF More
  <2> HIDE DEF p2, more
  <2>6. /\ ProcessOK(q) /\ SameBut(q, p2) /\ Upcoming(q) = "merge"
    BY <2>1, <2>4, <2>5, ContinueKeeps
  <2>7. q.read = a /\ q.old = old /\ q.alive = p.alive /\ q.mode = p.mode
    BY <2>3, <2>6 DEF SameBut
  <2> HIDE DEF p, q
  <2>8. Settled(q, epochs, new, Markers, torn)
    BY <1>13, <1>14, <2>6, <2>7 DEF Settled
  <2>9. ReadOK(q, new)
    BY <1>5, <1>7, <1>8, <2>2, <2>6, <2>7 DEF ReadOK
  <2>10. WorkOK'
    BY <1>2, <1>3, <1>9, <2>6, <2>8, <2>9 DEF WorkOK, q
  <2> QED
    BY <1>9, <2>7, <2>10 DEF After, Lives, p, q
<1> QED
    BY <1>15, <1>16

\* The epochs of the account that was linked before become the new one's.
LEMMA RemapAccountOK ==
    ASSUME Before, RemapAccount
    PROVE  After
<1> DEFINE b == now + FirstSample
           p == proc
           q == proc'
           a == p.read
           w == a.workspace
           old == p.old
           new == RemapAliases(alias, old, a)
           es == RemapEpochs(epochs, old, a)
<1>1. "merge" \in Steps /\ Doing("merge")
    BY DEF RemapAccount, Steps
<1>2. /\ ProcessOK(p) /\ p \in Process /\ p.alive /\ p.todo # <<>>
      /\ Upcoming(p) = "merge" /\ p.todo[1] = "merge"
      /\ Settled(p, epochs, alias, Markers, torn) /\ ReadOK(p, alias)
      /\ torn \subseteq {"merge", "history"} /\ request \in Request \cup {None}
    BY <1>1, Underway
<1>3. /\ UNCHANGED <<imported, quota, cursors, official, request, torn>>
      /\ alias' = new /\ epochs' = es /\ q = Bound(p, a)
    BY DEF RemapAccount
<1>4. /\ EpochsOK(epochs, b) /\ imported' \in 0 .. Len(log)
      /\ quota' \in Seq(Snapshot) /\ cursors' \in [Files -> Cursor \cup {None}]
      /\ official' \in [Fingerprint -> Identity \cup {None}] /\ AliasOK(alias)
    BY <1>3 DEF Before, LedgerOK
<1>5. /\ a \in People /\ old \in Fingerprint /\ old # a /\ old.workspace = a.workspace
      /\ alias[w] # None /\ alias[w].account = a
    BY <1>2 DEF ReadOK
<1>6. a \in Fingerprint
    BY <1>5, DaemonAssumption, FingerprintType
<1> HIDE DEF a, w, old, p, q, b, new
\* No other workspace is linked to an account of this one.
<1>7. new = alias
  <2>1. \A v \in Workspaces : alias[v] # None => alias[v].account # old
    BY <1>4, <1>5 DEF AliasOK, w
  <2>2. new = [v \in Workspaces |-> IF alias[v] # None /\ alias[v].account = old
                                    THEN [account |-> a, canonical |-> TRUE] ELSE alias[v]]
    BY DEF RemapAliases, new
  <2> QED
    BY <1>4, <2>1, <2>2 DEF AliasOK
<1>8. /\ EpochsOK(es, b) /\ WorkspaceEpochs(es) = WorkspaceEpochs(epochs)
      /\ \A r \in es : \/ r.account = a
                       \/ r.account # old /\ \E e \in epochs : r.account = e.account
    BY <1>4, <1>5, <1>6, RemapKeeps
<1> HIDE DEF es
<1>9. LedgerOK' /\ Markers' = Markers
  <2>1. LedgerOK' /\ Markers' = SubSeq(log, 1, imported')
    BY <1>3, <1>4, <1>7, <1>8, LedgerKept DEF b
  <2> QED
    BY <1>3, <2>1 DEF Markers
<1>10. ProcessOK(q) /\ Upcoming(q) \notin InnerSteps /\ q.alive = p.alive /\ q.mode = p.mode
    BY <1>2, <1>3, <1>6, BoundKeeps DEF InnerSteps
<1>11. /\ "merge" \notin torn => \A e \in epochs : Matches(e, alias) \/ e.account = old
       /\ "history" \notin torn => InferEpochs(Markers, FirstSample) = WorkspaceEpochs(epochs)
    BY <1>2 DEF Settled, old
<1>12. ASSUME "merge" \notin torn, NEW r \in es PROVE Matches(r, alias)
    BY <1>5, <1>8, <1>11, <1>12 DEF Matches, w
<1>13. Settled(q, es, alias, Markers, torn) /\ ReadOK(q, alias)
    BY <1>8, <1>10, <1>11, <1>12 DEF Settled, ReadOK, InnerSteps
<1>14. WorkOK'
    BY <1>2, <1>3, <1>7, <1>9, <1>10, <1>13 DEF WorkOK, q
<1> QED
    BY <1>9, <1>10, <1>14 DEF After, Lives, p, q

-----------------------------------------------------------------------------
(* The steps that read the history. *)

\* The process goes on to what is left after a step of its own.
LEMMA NextOwn ==
    ASSUME NEW p, ProcessOK(p), p.alive, p.todo # <<>>, p.todo[1] # "infer"
    PROVE  LET q == Continue(p, <<>>)
           IN  ProcessOK(q) /\ SameBut(q, p) /\ Upcoming(q) \notin InnerSteps
<1> DEFINE more == <<>>
<1>1. more \in More /\ more = <<>>
    BY DEF More
<1> HIDE DEF more
<1>2. ProcessOK(Continue(p, more)) /\ SameBut(Continue(p, more), p)
      /\ Upcoming(Continue(p, more)) \notin InnerSteps
    BY <1>1, ContinueKeeps
<1> QED
    BY <1>2 DEF more

\* The server listens; nothing else changes.
LEMMA ListenOK ==
    ASSUME Before, Listen
    PROVE  After
<1> DEFINE p == proc
           q == proc'
           p2 == [p EXCEPT !.http = TRUE, !.handles = TRUE]
<1>1. "listen" \in Steps /\ Doing("listen")
    BY DEF Listen, Steps
<1>2. /\ ProcessOK(p) /\ p \in Process /\ p.alive /\ p.todo # <<>>
      /\ Upcoming(p) = "listen" /\ p.todo[1] = "listen"
      /\ torn \subseteq {"merge", "history"} /\ request \in Request \cup {None}
    BY <1>1, Underway
<1>3. UNCHANGED <<ledger, request, torn>> /\ q = Continue(p2, <<>>)
    BY DEF Listen
<1>4. p2 \in Process /\ p2.alive = p.alive /\ p2.mode = p.mode /\ p2.todo = p.todo
    BY <1>2 DEF Process
<1>5. ProcessOK(p2) /\ p2.alive /\ p2.todo # <<>> /\ p2.todo[1] # "infer"
    BY <1>2, <1>4 DEF ProcessOK
<1> HIDE DEF p2
<1>6. ProcessOK(q) /\ SameBut(q, p2) /\ Upcoming(q) \notin InnerSteps
    BY <1>3, <1>5, NextOwn
<1>7. /\ UNCHANGED <<epochs, alias, imported>> /\ quota' \in Seq(Snapshot)
      /\ cursors' \in [Files -> Cursor \cup {None}] /\ official' \in [Fingerprint -> Identity \cup {None}]
    BY <1>3 DEF ledger, Before, LedgerOK
<1>8. LedgerOK' /\ WorkOK'
    BY <1>2, <1>3, <1>6, <1>7, GoesOn
<1> QED
    BY <1>4, <1>6, <1>8 DEF After, Lives, SameBut

\* The server cannot listen; the process goes on.
LEMMA ListenFailsOK ==
    ASSUME Before, ListenFails
    PROVE  After
<1> DEFINE p == proc
           q == proc'
<1>1. "listen" \in Steps /\ Doing("listen")
    BY DEF ListenFails, Steps
<1>2. /\ ProcessOK(p) /\ p.alive /\ p.todo # <<>> /\ Upcoming(p) = "listen" /\ p.todo[1] = "listen"
      /\ torn \subseteq {"merge", "history"} /\ request \in Request \cup {None}
    BY <1>1, Underway
<1>3. UNCHANGED <<ledger, request, torn>> /\ q = Continue(p, <<>>)
    BY DEF ListenFails
<1>4. ProcessOK(q) /\ SameBut(q, p) /\ Upcoming(q) \notin InnerSteps
    BY <1>2, <1>3, NextOwn
<1>5. /\ UNCHANGED <<epochs, alias, imported>> /\ quota' \in Seq(Snapshot)
      /\ cursors' \in [Files -> Cursor \cup {None}] /\ official' \in [Fingerprint -> Identity \cup {None}]
    BY <1>3 DEF ledger, Before, LedgerOK
<1>6. LedgerOK' /\ WorkOK'
    BY <1>2, <1>3, <1>4, <1>5, GoesOn
<1> QED
    BY <1>4, <1>6 DEF After, Lives, SameBut

\* No more rows are old enough than the log has.
LEMMA OldRowsIn ==
    ASSUME WorldOK
    PROVE  OldRows \subseteq 0 .. Len(log)
<1> DEFINE n == Len(log)
<1>1. n \in Nat /\ DOMAIN log = 1 .. n
    BY LenProperties DEF WorldOK, LogOK
<1>2. ASSUME NEW t PROVE Cardinality({i \in DOMAIN log : log[i].at < t}) \in 0 .. n
  <2> DEFINE S == {i \in DOMAIN log : log[i].at < t}
  <2>1. S \subseteq 1 .. n
    BY <1>1
  <2> HIDE DEF n, S
  <2>2. IsFiniteSet(1 .. n) /\ Cardinality(1 .. n) = n
    BY <1>1, FS_Interval
  <2>3. IsFiniteSet(S) /\ Cardinality(S) <= n
    BY <2>1, <2>2, FS_Subset
  <2>4. Cardinality(S) \in Nat
    BY <2>3, FS_CardinalityType
  <2>5. Cardinality(S) \in 0 .. n
    BY <1>1, <2>3, <2>4
  <2> QED
    BY <2>5 DEF S
<1> HIDE DEF n
<1>3. OldRows \subseteq 0 .. n
    BY <1>2 DEF OldRows
<1> QED
    BY <1>3 DEF n

\* Rows are imported; the history is made of them, or stays as it is.
LEMMA ReadMarkersOK ==
    ASSUME Before, ReadMarkers
    PROVE  After
<1> DEFINE p == proc
           q == proc'
           more == IF imported' = imported /\ Historical(epochs) # {} THEN <<>> ELSE <<"infer", "replace">>
<1>1. "markers" \in Steps /\ Doing("markers")
    BY DEF ReadMarkers, Steps
<1>2. /\ ProcessOK(p) /\ p \in Process /\ p.alive /\ p.todo # <<>>
      /\ Upcoming(p) = "markers" /\ p.todo[1] = "markers"
      /\ Settled(p, epochs, alias, Markers, torn)
      /\ torn \subseteq {"merge", "history"} /\ request \in Request \cup {None}
    BY <1>1, Underway
<1>3. /\ UNCHANGED <<epochs, alias, quota, cursors, official, request, torn>>
      /\ imported' \in OldRows /\ q = Continue(p, more)
    BY DEF ReadMarkers
<1>4. imported' \in 0 .. Len(log)
    BY <1>3, OldRowsIn DEF Before
<1>5. LedgerOK' /\ Markers' = SubSeq(log, 1, imported')
  <2>1. /\ EpochsOK(epochs', now + FirstSample) /\ AliasOK(alias')
        /\ quota' \in Seq(Snapshot) /\ cursors' \in [Files -> Cursor \cup {None}]
        /\ official' \in [Fingerprint -> Identity \cup {None}]
    BY <1>3 DEF Before, LedgerOK
  <2> QED
    BY <1>4, <2>1, LedgerKept
<1>6. more \in More /\ (more = <<>> => imported' = imported) /\ (more # <<>> => more[1] = "infer")
    BY DEF More
<1> HIDE DEF more
<1>7. /\ ProcessOK(q) /\ SameBut(q, p)
      /\ more # <<>> => Upcoming(q) = "infer"
      /\ more = <<>> => Upcoming(q) \notin InnerSteps
    BY <1>2, <1>3, <1>6, ContinueKeeps
<1>8. /\ "merge" \notin torn => \A e \in epochs : Matches(e, alias)
      /\ "history" \notin torn => InferEpochs(Markers, FirstSample) = WorkspaceEpochs(epochs)
    BY <1>2 DEF Settled
<1>9. more = <<>> => Markers' = Markers
    BY <1>5, <1>6 DEF Markers
<1> DEFINE rows == Markers'
<1> HIDE DEF p, q, rows
<1>10. Settled(q, epochs, alias, rows, torn)
    BY <1>7, <1>8, <1>9 DEF Settled, InnerSteps, rows
<1>11. ReadOK(q, alias)
    BY <1>7 DEF ReadOK, InnerSteps
<1>12. WorkOK'
    BY <1>2, <1>3, <1>7, <1>10, <1>11 DEF WorkOK, q, rows
<1> QED
    BY <1>5, <1>7, <1>12 DEF After, Lives, SameBut, p, q

\* The epochs that the imported rows call for.
LEMMA MarkersType ==
    ASSUME WorldOK, LedgerOK
    PROVE  /\ LogOK(Markers, now)
           /\ InferEpochs(Markers, FirstSample) \subseteq WorkspaceEpoch
           /\ \A e \in InferEpochs(Markers, FirstSample) : e.from <= now + FirstSample
<1>1. log \in Seq(Marker) /\ Len(log) \in Nat /\ imported \in 0 .. Len(log) /\ now \in Nat
    BY LenProperties DEF WorldOK, LogOK, LedgerOK
<1>2. imported \in Nat /\ \A i \in 1 .. imported : i \in 1 .. Len(log)
    BY <1>1
<1>3. \A i \in 1 .. imported : log[i] \in Marker
    BY <1>1, <1>2, ElementOfSeq
<1>4. Markers = [i \in 1 .. imported |-> log[i]]
    BY <1>1, <1>2 DEF Markers
<1>5. Markers \in Seq(Marker) /\ DOMAIN Markers = 1 .. imported
    BY <1>2, <1>3, <1>4
<1>6. \A i \in 1 .. imported : Markers[i].at <= now
    BY <1>1, <1>2, <1>4, LenProperties DEF WorldOK, LogOK
<1>7. LogOK(Markers, now)
    BY <1>5, <1>6 DEF LogOK
<1> QED
    BY <1>1, <1>7, InferredType

\* The workspaces of the epochs are linked, and the epochs replaced next.
LEMMA LinkHistoryOK ==
    ASSUME Before, LinkHistory
    PROVE  After
<1> DEFINE b == now + FirstSample
           p == proc
           q == proc'
           found == InferEpochs(Markers, FirstSample)
           new == AliasesFor(found, alias, epochs)
           more == <<>>
<1>1. "infer" \in Steps /\ Doing("infer")
    BY DEF LinkHistory, Steps
<1>2. /\ ProcessOK(p) /\ p \in Process /\ p.alive /\ p.todo # <<>>
      /\ Upcoming(p) = "infer" /\ p.todo[1] = "infer"
      /\ Settled(p, epochs, alias, Markers, torn)
      /\ torn \subseteq {"merge", "history"} /\ request \in Request \cup {None}
    BY <1>1, Underway
<1>3. /\ UNCHANGED <<epochs, imported, quota, cursors, official, request, torn>>
      /\ alias' = new /\ q = Continue(p, more)
    BY DEF LinkHistory
<1>4. /\ EpochsOK(epochs, b) /\ imported' \in 0 .. Len(log)
      /\ quota' \in Seq(Snapshot) /\ cursors' \in [Files -> Cursor \cup {None}]
      /\ official' \in [Fingerprint -> Identity \cup {None}] /\ AliasOK(alias)
    BY <1>3 DEF Before, LedgerOK
<1>5. b \in Nat
    BY DaemonAssumption DEF Before, WorldOK
<1>6. found \subseteq WorkspaceEpoch
    BY MarkersType DEF Before
<1>7. more \in More /\ more = <<>>
    BY DEF More
<1> HIDE DEF b, found, new, more, p, q
<1>8. /\ AliasOK(new)
      /\ \A e \in found : new[e.workspace] # None
      /\ \A w \in Workspaces :
            \/ new[w] = alias[w]
            \/ /\ new[w] # None
               /\ \/ alias[w] # None /\ new[w].account = alias[w].account
                  \/ alias[w] = None /\ new[w].account = Provisional(w)
                  \/ \E e \in epochs : e.account = new[w].account
    BY <1>4, <1>5, <1>6, AliasesKept DEF new
<1>9. LedgerOK' /\ Markers' = Markers
  <2>1. LedgerOK' /\ Markers' = SubSeq(log, 1, imported')
    BY <1>3, <1>4, <1>8, LedgerKept DEF b
  <2> QED
    BY <1>3, <2>1 DEF Markers
<1>10. ProcessOK(q) /\ SameBut(q, p) /\ Upcoming(q) = "replace"
    BY <1>2, <1>3, <1>7, ContinueKeeps
<1>11. "merge" \notin torn => \A e \in epochs : Matches(e, alias)
    BY <1>2 DEF Settled
<1>12. ASSUME \A e \in epochs : Matches(e, alias), NEW e \in epochs PROVE Matches(e, new)
  <2> DEFINE w == e.account.workspace
  <2>1. w \in Workspaces
    BY <1>4, FingerprintType DEF EpochsOK, Epoch
  <2>2. alias[w] # None /\ alias[w].account = e.account
    BY <1>12 DEF Matches
  <2>3. CASE new[w] = alias[w]
    BY <2>2, <2>3 DEF Matches
  <2>4. CASE new[w] # None /\ new[w].account = alias[w].account
    BY <2>2, <2>4 DEF Matches
  <2>5. ASSUME NEW f \in epochs, new[w] # None, f.account = new[w].account PROVE Matches(e, new)
    <3>1. new[w].account.workspace = w
      BY <1>8, <2>1, <2>5 DEF AliasOK
    <3>2. alias[w].account = f.account
      BY <1>12, <2>5, <3>1 DEF Matches
    <3> QED
      BY <2>2, <2>5, <3>2 DEF Matches
  <2> HIDE DEF w
  <2> QED
    BY <1>8, <2>1, <2>2, <2>3, <2>4, <2>5
<1>13. Settled(q, epochs, new, Markers, torn)
    BY <1>8, <1>10, <1>11, <1>12 DEF Settled, found
<1>14. ReadOK(q, new)
    BY <1>10 DEF ReadOK
<1>15. WorkOK'
    BY <1>2, <1>3, <1>9, <1>10, <1>13, <1>14 DEF WorkOK, q
<1> QED
    BY <1>9, <1>10, <1>15 DEF After, Lives, SameBut, p, q

\* The epochs of the history are those that the imported rows call for.
LEMMA ReplaceHistoryOK ==
    ASSUME Before, ReplaceHistory
    PROVE  After
<1> DEFINE b == now + FirstSample
           p == proc
           q == proc'
           found == InferEpochs(Markers, FirstSample)
           new == ReplaceHistoricalAuthEpochs(epochs, HistoryRows(found, alias))
           t == torn'
<1>1. "replace" \in Steps /\ Doing("replace")
    BY DEF ReplaceHistory, Steps
<1>2. /\ ProcessOK(p) /\ p \in Process /\ p.alive /\ p.todo # <<>>
      /\ Upcoming(p) = "replace" /\ p.todo[1] = "replace"
      /\ Settled(p, epochs, alias, Markers, torn)
      /\ torn \subseteq {"merge", "history"} /\ request \in Request \cup {None}
    BY <1>1, Underway
<1>3. /\ UNCHANGED <<alias, imported, quota, cursors, official, request>>
      /\ epochs' = new /\ q = Continue(p, <<>>) /\ t = torn \ {"history"}
    BY DEF ReplaceHistory
<1>4. /\ EpochsOK(epochs, b) /\ AliasOK(alias') /\ imported' \in 0 .. Len(log)
      /\ quota' \in Seq(Snapshot) /\ cursors' \in [Files -> Cursor \cup {None}]
      /\ official' \in [Fingerprint -> Identity \cup {None}] /\ AliasOK(alias)
    BY <1>3 DEF Before, LedgerOK
<1>5. found \subseteq WorkspaceEpoch /\ \A e \in found : e.from <= b
    BY MarkersType DEF Before
<1>6. /\ \A e \in found : alias[e.workspace] # None
      /\ "merge" \notin torn => \A e \in epochs : Matches(e, alias)
    BY <1>2 DEF Settled
<1> HIDE DEF b, found, new, p, q, t
<1>7. /\ EpochsOK(new, b) /\ WorkspaceEpochs(new) = found
      /\ \A e \in new : e \in epochs \/ Matches(e, alias)
    BY <1>4, <1>5, <1>6, ReplaceKeeps DEF new
<1>8. LedgerOK' /\ Markers' = Markers
  <2>1. LedgerOK' /\ Markers' = SubSeq(log, 1, imported')
    BY <1>3, <1>4, <1>7, LedgerKept DEF b
  <2> QED
    BY <1>3, <2>1 DEF Markers
<1>9. ProcessOK(q) /\ SameBut(q, p) /\ Upcoming(q) \notin InnerSteps
    BY <1>2, <1>3, NextOwn
<1>10. Settled(q, new, alias, Markers, t)
    BY <1>3, <1>6, <1>7, <1>9 DEF Settled, InnerSteps, found
<1>11. ReadOK(q, alias)
    BY <1>9 DEF ReadOK, InnerSteps
<1>12. WorkOK'
    BY <1>2, <1>3, <1>8, <1>9, <1>10, <1>11 DEF WorkOK, q, t
<1> QED
    BY <1>8, <1>9, <1>12 DEF After, Lives, SameBut, p, q

-----------------------------------------------------------------------------
(* Official usage and quota lines. *)

\* Who answers is logged in.
LEMMA AnswerType ==
    ASSUME WorldOK, login # None
    PROVE  \A fresh \in BOOLEAN : Answer(fresh) \in Identity \cup {None}
  BY DaemonAssumption DEF Answer, WorldOK, Login

\* An answer is stored for the account that is bound.
LEMMA RefreshOfficialUsageOK ==
    ASSUME Before, RefreshOfficialUsage
    PROVE  After
<1> DEFINE p == proc
           q == proc'
<1>1. "official" \in Steps /\ Doing("official")
    BY DEF RefreshOfficialUsage, Steps
<1>2. /\ ProcessOK(p) /\ p \in Process /\ p.alive /\ p.todo # <<>>
      /\ Upcoming(p) = "official" /\ p.todo[1] = "official"
      /\ torn \subseteq {"merge", "history"} /\ request \in Request \cup {None}
    BY <1>1, Underway
<1>3. /\ UNCHANGED <<epochs, alias, imported, quota, cursors, request, torn>>
      /\ q = Continue(p, <<>>)
    BY DEF RefreshOfficialUsage
<1>4. official' \in [Fingerprint -> Identity \cup {None}]
  <2>1. official \in [Fingerprint -> Identity \cup {None}]
    BY DEF Before, LedgerOK
  <2>2. CASE official' = [official EXCEPT ![proc.binding] = Answer(Fresh)] /\ login # None
    <3> DEFINE fresh == Fresh
               x == Answer(fresh)
    <3>1. fresh \in BOOLEAN
      BY DEF Fresh
    <3> HIDE DEF fresh
    <3>2. x \in Identity \cup {None}
      BY <2>2, <3>1, AnswerType DEF Before
    <3>3. official' = [official EXCEPT ![proc.binding] = x]
      BY <2>2 DEF fresh
    <3> HIDE DEF x
    <3> QED
      BY <2>1, <3>2, <3>3
  <2> QED
    BY <2>1, <2>2 DEF RefreshOfficialUsage
<1>5. ProcessOK(q) /\ SameBut(q, p) /\ Upcoming(q) \notin InnerSteps
    BY <1>2, <1>3, NextOwn
<1>6. quota' \in Seq(Snapshot) /\ cursors' \in [Files -> Cursor \cup {None}]
    BY <1>3 DEF Before, LedgerOK
<1>7. LedgerOK' /\ WorkOK'
    BY <1>2, <1>3, <1>4, <1>5, <1>6, GoesOn
<1> QED
    BY <1>5, <1>7 DEF After, Lives, SameBut

\* The route reads the active account.
LEMMA AskOfficialUsageOK ==
    ASSUME Before, AskOfficialUsage
    PROVE  After
<1>1. UNCHANGED <<epochs, alias, imported, quota, cursors, proc, torn>> /\ official' = official
    BY DEF AskOfficialUsage, ledger
<1>2. official' \in [Fingerprint -> Identity \cup {None}]
    BY <1>1 DEF Before, LedgerOK
<1>3. request' \in Request
  <2> DEFINE x == ActiveAccount(epochs)
             g == IF Fresh THEN login.generation ELSE None
             b == now + FirstSample
  <2>1. EpochsOK(epochs, b) /\ b \in Nat
    BY DaemonAssumption DEF Before, LedgerOK, WorldOK
  <2> HIDE DEF b
  <2>2. x \in Fingerprint \cup {None}
    BY <2>1, ActiveAccountType
  <2>3. x # None /\ request' = [account |-> x, fresh |-> g]
    BY DEF AskOfficialUsage
  <2>4. g \in Nat \cup {None}
    BY DEF Fresh, Before, WorldOK, Login
  <2> HIDE DEF x, g
  <2> QED
    BY <2>2, <2>3, <2>4 DEF Request
<1> QED
    BY <1>1, <1>2, <1>3, AtRest

\* The route stores the answer.
LEMMA StoreOfficialUsageOK ==
    ASSUME Before, StoreOfficialUsage
    PROVE  After
<1>1. UNCHANGED <<epochs, alias, imported, quota, cursors, proc, torn>> /\ request' = None
    BY DEF StoreOfficialUsage
<1>2. official' \in [Fingerprint -> Identity \cup {None}]
  <2> DEFINE fresh == request.fresh = login.generation
             x == Answer(fresh)
  <2>1. official \in [Fingerprint -> Identity \cup {None}]
    BY DEF Before, LedgerOK
  <2>2. CASE official' = [official EXCEPT ![request.account] = x] /\ login # None
    <3>1. fresh \in BOOLEAN
      OBVIOUS
    <3> HIDE DEF fresh
    <3>2. x \in Identity \cup {None}
      BY <2>2, <3>1, AnswerType DEF Before
    <3> HIDE DEF x
    <3> QED
      BY <2>1, <2>2, <3>2
  <2> QED
    BY <2>1, <2>2 DEF StoreOfficialUsage
<1> QED
    BY <1>1, <1>2, AtRest

\* Rows of lines of a file that an epoch covers, or rows there were.
FiledFrom(f, new) ==
    /\ new \in Seq(Snapshot)
    /\ \A i \in DOMAIN new :
          \/ i \in DOMAIN quota /\ new[i] = quota[i]
          \/ \E j \in 1 .. Len(files[f].lines) :
                /\ EpochAt(epochs, files[f].lines[j].at) # None
                /\ new[i] = RowOf(epochs, files[f].lines[j], Doubtful(files[f].lines[j]))

\* Lines of a file that an epoch covers.
LinesFrom(f, lines) ==
    /\ lines \in Seq(Line)
    /\ \A i \in 1 .. Len(lines) :
          \E j \in 1 .. Len(files[f].lines) :
             lines[i] = files[f].lines[j] /\ EpochAt(epochs, files[f].lines[j].at) # None

\* What filing some lines of a file leaves is typed, if the lines are.
LEMMA LinesFiled ==
    ASSUME WorldOK, LedgerOK, NEW f \in Files, NEW lines, LinesFrom(f, lines)
    PROVE  FiledFrom(f, FileLines(quota, epochs, lines, Doubtful))
<1> DEFINE b == now + FirstSample
           es == epochs
           q0 == quota
           new == FileLines(q0, es, lines, Doubtful)
<1>1. EpochsOK(es, b) /\ b \in Nat /\ q0 \in Seq(Snapshot)
    BY DaemonAssumption DEF LedgerOK, WorldOK
<1>2. lines \in Seq(Line) /\ \A i \in 1 .. Len(lines) : EpochAt(es, lines[i].at) # None
    BY DEF LinesFrom
<1> HIDE DEF b
<1>3. /\ new \in Seq(Snapshot)
      /\ \A i \in DOMAIN new :
            \/ i \in DOMAIN q0 /\ new[i] = q0[i]
            \/ \E k \in 1 .. Len(lines) : new[i] = RowOf(es, lines[k], Doubtful(lines[k]))
    BY <1>1, <1>2, FileLinesType
<1> HIDE DEF new
<1>4. ASSUME NEW i \in DOMAIN new
      PROVE  \/ i \in DOMAIN quota /\ new[i] = quota[i]
             \/ \E j \in 1 .. Len(files[f].lines) :
                   /\ EpochAt(epochs, files[f].lines[j].at) # None
                   /\ new[i] = RowOf(epochs, files[f].lines[j], Doubtful(files[f].lines[j]))
  <2>1. CASE i \in DOMAIN q0 /\ new[i] = q0[i]
    BY <2>1
  <2>2. ASSUME NEW k \in 1 .. Len(lines), new[i] = RowOf(es, lines[k], Doubtful(lines[k]))
        PROVE  \E j \in 1 .. Len(files[f].lines) :
                   /\ EpochAt(epochs, files[f].lines[j].at) # None
                   /\ new[i] = RowOf(epochs, files[f].lines[j], Doubtful(files[f].lines[j]))
    BY <2>2 DEF LinesFrom
  <2> QED
    BY <1>3, <2>1, <2>2
<1> QED
    BY <1>3, <1>4 DEF FiledFrom, new

\* What is read of a file are lines of it that an epoch covers.
LEMMA LinesOfType ==
    ASSUME WorldOK, LedgerOK, NEW f \in Files
    PROVE  LET start == StartLine(cursors[f], files[f])
               safe  == SafeLine(epochs, files[f], start)
           IN  /\ safe \in Nat
               /\ LinesFrom(f, LinesOf(f))
               /\ \A n \in 1 .. Len(LinesOf(f)) : LinesFrom(f, SubSeq(LinesOf(f), 1, n))
<1> DEFINE c == cursors[f]
           file == files[f]
           all == file.lines
           start == StartLine(c, file)
           safe == SafeLine(epochs, file, start)
           lines == LinesOf(f)
<1>1. c \in Cursor \cup {None} /\ file \in File
    BY DEF LedgerOK, WorldOK
<1>2. lines = SubSeq(all, start + 1, safe)
    BY DEF LinesOf
<1> HIDE DEF c, file
<1>3. /\ start \in Nat /\ start <= safe /\ safe \in Nat /\ safe <= Len(all)
      /\ Len(all) \in Nat
      /\ \A i \in start + 1 .. safe : i \in 1 .. Len(all) /\ EpochAt(epochs, all[i].at) # None
    BY <1>1, SafeRange
<1>4. all \in Seq(Line) /\ \A i \in 1 .. Len(all) : all[i] \in Line
    BY <1>1, LenProperties DEF File
<1> HIDE DEF all, start, safe, lines
<1>5. lines = [i \in 1 .. safe - start |-> all[start + i]] /\ safe - start \in Nat
  <2>1. lines = [i \in 1 .. (safe - (start + 1) + 1) |-> all[(start + 1) + i - 1]]
    BY <1>2, <1>3
  <2>2. safe - (start + 1) + 1 = safe - start
    BY <1>3
  <2>3. \A i \in 1 .. safe - start : (start + 1) + i - 1 = start + i
    BY <1>3
  <2> QED
    BY <1>3, <2>1, <2>2, <2>3
<1>6. \A i \in 1 .. safe - start : start + i \in start + 1 .. safe /\ start + i \in 1 .. Len(all)
    BY <1>3
<1>7. /\ lines \in Seq(Line) /\ Len(lines) = safe - start
      /\ \A i \in 1 .. safe - start : lines[i] = all[start + i]
    BY <1>4, <1>5, <1>6
<1>8. LinesFrom(f, lines)
    BY <1>3, <1>6, <1>7 DEF LinesFrom, all, file
<1>9. ASSUME NEW n \in 1 .. Len(lines) PROVE LinesFrom(f, SubSeq(lines, 1, n))
  <2> DEFINE first == SubSeq(lines, 1, n)
  <2>1. n \in Nat /\ \A i \in 1 .. n : i \in 1 .. Len(lines) /\ lines[i] \in Line
    BY <1>5, <1>7
  <2>2. first = [i \in 1 .. n |-> lines[i]]
    BY <2>1
  <2> HIDE DEF first
  <2>3. first \in Seq(Line) /\ Len(first) = n /\ \A i \in 1 .. n : first[i] = lines[i]
    BY <2>1, <2>2
  <2> QED
    BY <1>8, <2>1, <2>3 DEF LinesFrom, first
<1> QED
    BY <1>3, <1>8, <1>9 DEF lines, safe, start, c, file

\* A file is read, or the loop fails for it.
LEMMA IngestQuotaTailOK ==
    ASSUME Before, NEW f \in Files, IngestQuotaTail(f)
    PROVE  After /\ (quota' = quota \/ FiledFrom(f, quota'))
<1> DEFINE p == proc
           q == proc'
           start == StartLine(cursors[f], files[f])
           safe == SafeLine(epochs, files[f], start)
           lines == LinesOf(f)
           p2 == [p EXCEPT !.left = @ \ {f}]
           c == [id |-> files[f].id, taken |-> safe]
<1>1. "quota" \in Steps /\ Doing("quota")
    BY DEF IngestQuotaTail, Steps
<1>2. /\ ProcessOK(p) /\ p \in Process /\ p.alive /\ p.todo # <<>>
      /\ Upcoming(p) = "quota" /\ p.todo[1] = "quota"
      /\ torn \subseteq {"merge", "history"} /\ request \in Request \cup {None}
    BY <1>1, Underway
<1>3. /\ UNCHANGED <<epochs, alias, imported, official, torn>>
      /\ \/ q = Dead /\ request' = None /\ UNCHANGED <<quota, cursors>>
         \/ /\ quota' = FileLines(quota, epochs, lines, Doubtful)
            /\ cursors' = [cursors EXCEPT ![f] = c]
            /\ q = (IF p2.left = {} THEN Continue(p2, <<>>) ELSE p2) /\ request' = request
    BY DEF IngestQuotaTail, FileRead
<1>4. safe \in Nat /\ LinesFrom(f, lines)
    BY LinesOfType DEF Before
<1> HIDE DEF start, safe, lines
<1>5. FiledFrom(f, FileLines(quota, epochs, lines, Doubtful))
    BY <1>4, LinesFiled DEF Before
<1>6. quota' = quota \/ FiledFrom(f, quota')
    BY <1>3, <1>5
<1>7. quota' \in Seq(Snapshot) /\ official' \in [Fingerprint -> Identity \cup {None}]
    BY <1>3, <1>6 DEF FiledFrom, Before, LedgerOK
<1>8. c \in Cursor
  <2>1. files[f].id \in Nat
    BY DEF Before, WorldOK, File
  <2> QED
    BY <1>4, <2>1 DEF Cursor
<1> HIDE DEF c
<1>9. cursors' \in [Files -> Cursor \cup {None}]
    BY <1>3, <1>8 DEF Before, LedgerOK
<1>10. p2 \in Process /\ p2.alive = p.alive /\ p2.mode = p.mode /\ p2.todo = p.todo
  <2> DEFINE left == p.left \ {f}
  <2>1. left \in SUBSET Files /\ p2 = [p EXCEPT !.left = left]
    BY <1>2 DEF Process
  <2> HIDE DEF left, p2
  <2> QED
    BY <1>2, <2>1 DEF Process
<1>11. ProcessOK(p2) /\ p2.alive /\ p2.todo # <<>> /\ p2.todo[1] # "infer" /\ Upcoming(p2) = "quota"
    BY <1>2, <1>10 DEF ProcessOK, Upcoming
<1> HIDE DEF p2
<1>12. /\ ProcessOK(q) /\ Upcoming(q) \notin InnerSteps
       /\ q.alive => p.alive /\ q.mode = p.mode
  <2>1. CASE q = Dead
    BY <2>1, DeadOK DEF InnerSteps
  <2>2. CASE q = p2
    BY <1>10, <1>11, <2>2 DEF InnerSteps
  <2>3. CASE q = Continue(p2, <<>>)
    <3>1. ProcessOK(q) /\ SameBut(q, p2) /\ Upcoming(q) \notin InnerSteps
      BY <1>11, <2>3, NextOwn
    <3> QED
      BY <1>10, <3>1 DEF SameBut
  <2> QED
    BY <1>3, <2>1, <2>2, <2>3
<1>13. request' \in Request \cup {None}
    BY <1>2, <1>3
<1>14. LedgerOK' /\ WorkOK'
    BY <1>2, <1>3, <1>7, <1>9, <1>12, <1>13, GoesOn
<1> QED
    BY <1>6, <1>12, <1>14 DEF After, Lives

\* A process that dies over a file has filed some of its lines and nothing else.
LEMMA DieInQuotaTailOK ==
    ASSUME Before, NEW f \in Files, DieInQuotaTail(f)
    PROVE  After /\ FiledFrom(f, quota')
<1> DEFINE p == proc
           q == proc'
           lines == LinesOf(f)
<1>1. "quota" \in Steps /\ Doing("quota")
    BY DEF DieInQuotaTail, Steps
<1>2. /\ Upcoming(p) = "quota" /\ torn \subseteq {"merge", "history"}
    BY <1>1, Underway
<1>3. /\ UNCHANGED <<epochs, alias, imported, cursors, official, torn>>
      /\ q = Dead /\ request' = None
    BY DEF DieInQuotaTail
<1>4. PICK n \in 1 .. Len(lines) : quota' = FileLines(quota, epochs, SubSeq(lines, 1, n), Doubtful)
    BY DEF DieInQuotaTail
<1>5. LinesFrom(f, SubSeq(lines, 1, n))
    BY LinesOfType DEF Before
<1>6. FiledFrom(f, quota')
    BY <1>4, <1>5, LinesFiled DEF Before
<1>7. /\ quota' \in Seq(Snapshot) /\ official' \in [Fingerprint -> Identity \cup {None}]
      /\ cursors' \in [Files -> Cursor \cup {None}]
    BY <1>3, <1>6 DEF FiledFrom, Before, LedgerOK
<1>8. ProcessOK(q) /\ Upcoming(q) \notin InnerSteps /\ ~q.alive
    BY <1>3, DeadOK DEF InnerSteps
<1>9. LedgerOK' /\ WorkOK'
    BY <1>2, <1>3, <1>7, <1>8, GoesOn
<1> QED
    BY <1>6, <1>8, <1>9 DEF After, Lives

-----------------------------------------------------------------------------
(* The loops, and what ends a process. *)

\* A process that waits gets steps of its own.
LEMMA TodoOK ==
    ASSUME NEW q \in Process, \A i \in DOMAIN q.todo : q.todo[i] \notin InnerSteps
    PROVE  ProcessOK(q) /\ Upcoming(q) \notin InnerSteps
<1> DEFINE todo == q.todo
<1>1. todo \in Seq(Steps) /\ \A i \in DOMAIN todo : todo[i] \notin InnerSteps
    BY DEF Process
<1> HIDE DEF todo
<1>2. Ordered(todo) /\ LinkedFirst(todo)
  <2>1. Ordered(todo)
    BY <1>1 DEF Ordered
  <2>2. todo # <<>> => 1 \in DOMAIN todo
    <3>1. Len(todo) \in Nat /\ (todo # <<>> => Len(todo) # 0) /\ DOMAIN todo = 1 .. Len(todo)
      BY <1>1, EmptySeq, LenProperties
    <3> QED
      BY <3>1
  <2>3. todo # <<>> => todo[1] \notin InnerSteps
    BY <1>1, <2>2
  <2> QED
    BY <2>1, <2>3 DEF LinkedFirst, InnerSteps
<1>3. Upcoming(q) \notin InnerSteps
  <2>1. todo # <<>> => 1 \in DOMAIN todo
    <3>1. Len(todo) \in Nat /\ (todo # <<>> => Len(todo) # 0) /\ DOMAIN todo = 1 .. Len(todo)
      BY <1>1, EmptySeq, LenProperties
    <3> QED
      BY <3>1
  <2> QED
    BY <1>1, <2>1 DEF Upcoming, InnerSteps, todo
<1> QED
    BY <1>2, <1>3 DEF ProcessOK, todo

\* The steps of a tick are whole pieces of work.
LEMMA TickTodo ==
    ASSUME NEW before \in {<<>>, <<"epoch", "markers">>}, NEW own \in {<<>>, <<"quota">>}
    PROVE  LET todo == before \o own
           IN  todo \in Seq(Steps) /\ \A i \in DOMAIN todo : todo[i] \notin InnerSteps
<1> DEFINE own3 == {"epoch", "markers", "quota"}
           todo == before \o own
<1>1. \A a \in own3 : a \in Steps /\ a \notin InnerSteps
    BY DEF Steps, InnerSteps
<1>2. before \in Seq(own3) /\ own \in Seq(own3)
  <2>1. \A a, b \in own3 : <<>> \in Seq(own3) /\ <<a>> \in Seq(own3) /\ <<a, b>> \in Seq(own3)
    <3> HIDE DEF own3
    <3> QED
      OBVIOUS
  <2>2. "epoch" \in own3 /\ "markers" \in own3 /\ "quota" \in own3
    OBVIOUS
  <2> HIDE DEF own3
  <2> QED
    BY <2>1, <2>2
<1> HIDE DEF own3
<1>3. todo \in Seq(own3)
    BY <1>2, ConcatProperties
<1> HIDE DEF todo
<1>4. Len(todo) \in Nat /\ DOMAIN todo = 1 .. Len(todo) /\ \A i \in DOMAIN todo : todo[i] \in own3
    BY <1>3, LenProperties
<1>5. todo \in Seq(Steps)
    BY <1>1, <1>3, <1>4
<1> QED
    BY <1>1, <1>4, <1>5 DEF todo

\* A process that waits learns to handle the signal, and no more.
LEMMA WaitedKeeps ==
    ASSUME NEW p \in Process
    PROVE  /\ Waited(p) \in Process
           /\ Waited(p).alive = p.alive /\ Waited(p).mode = p.mode /\ Waited(p).binding = p.binding
  BY DEF Waited, Process

\* A tick begins with whole pieces of work.
LEMMA TickOK ==
    ASSUME Before, Tick
    PROVE  After
<1> DEFINE p == proc
           q == proc'
           ticks == (p.ticks + 1) % ObserveEvery
           before == IF ticks = 0 THEN <<"epoch", "markers">> ELSE <<>>
           own == IF p.mode = "daemon" THEN <<"quota">> ELSE <<>>
           todo == before \o own
<1>1. ProcessOK(p) /\ p \in Process /\ Upcoming(p) = "none"
      /\ torn \subseteq {"merge", "history"} /\ request \in Request \cup {None}
    BY DoingUpcoming DEF Before, WorkOK, ProcessOK, Tick
<1>2. /\ UNCHANGED <<ledger, request, torn>>
      /\ q = [Waited(p) EXCEPT !.ticks = ticks, !.left = Files, !.todo = todo]
    BY DEF Tick
<1>3. ticks \in Nat
    BY <1>1, DaemonAssumption DEF Process
<1> HIDE DEF ticks
<1>4. todo \in Seq(Steps) /\ \A i \in DOMAIN todo : todo[i] \notin InnerSteps
    BY TickTodo
<1> HIDE DEF todo
<1>5. /\ ProcessOK(q) /\ Upcoming(q) \notin InnerSteps /\ q.alive = p.alive /\ q.mode = p.mode
  <2> DEFINE left == Files
  <2>1. left \in SUBSET Files /\ q = [Waited(p) EXCEPT !.ticks = ticks, !.left = left, !.todo = todo]
    BY <1>2
  <2> HIDE DEF left, p
  <2>2. Waited(p) \in Process /\ Waited(p).alive = p.alive /\ Waited(p).mode = p.mode
    BY <1>1, WaitedKeeps
  <2>3. /\ q \in Process /\ q.todo = todo /\ q.alive = p.alive /\ q.mode = p.mode
    BY <1>3, <1>4, <2>1, <2>2 DEF Process
  <2> HIDE DEF q
  <2> QED
    BY <1>4, <2>3, TodoOK
<1>6. /\ UNCHANGED <<epochs, alias, imported>> /\ quota' \in Seq(Snapshot)
      /\ cursors' \in [Files -> Cursor \cup {None}] /\ official' \in [Fingerprint -> Identity \cup {None}]
    BY <1>2 DEF ledger, Before, LedgerOK
<1>7. LedgerOK' /\ WorkOK'
    BY <1>1, <1>2, <1>5, <1>6, GoesOn
<1> QED
    BY <1>5, <1>7 DEF After, Lives

\* A tick of official usage asks and does nothing else.
LEMMA OfficialTickOK ==
    ASSUME Before, OfficialTick
    PROVE  After
<1> DEFINE p == proc
           q == proc'
           todo == <<"official">>
<1>1. ProcessOK(p) /\ p \in Process /\ Upcoming(p) = "none"
      /\ torn \subseteq {"merge", "history"} /\ request \in Request \cup {None}
    BY DoingUpcoming DEF Before, WorkOK, ProcessOK, OfficialTick
<1>2. UNCHANGED <<ledger, request, torn>> /\ q = [Waited(p) EXCEPT !.todo = todo]
    BY DEF OfficialTick
<1>3. todo \in Seq(Steps) /\ \A i \in DOMAIN todo : todo[i] \notin InnerSteps
    BY DEF Steps, InnerSteps
<1> HIDE DEF todo
<1>4. /\ ProcessOK(q) /\ Upcoming(q) \notin InnerSteps /\ q.alive = p.alive /\ q.mode = p.mode
  <2> HIDE DEF p
  <2>1. Waited(p) \in Process /\ Waited(p).alive = p.alive /\ Waited(p).mode = p.mode
    BY <1>1, WaitedKeeps
  <2>2. /\ q \in Process /\ q.todo = todo /\ q.alive = p.alive /\ q.mode = p.mode
    BY <1>2, <1>3, <2>1 DEF Process
  <2> HIDE DEF q
  <2> QED
    BY <1>3, <2>2, TodoOK
<1>5. /\ UNCHANGED <<epochs, alias, imported>> /\ quota' \in Seq(Snapshot)
      /\ cursors' \in [Files -> Cursor \cup {None}] /\ official' \in [Fingerprint -> Identity \cup {None}]
    BY <1>2 DEF ledger, Before, LedgerOK
<1>6. LedgerOK' /\ WorkOK'
    BY <1>1, <1>2, <1>4, <1>5, GoesOn
<1> QED
    BY <1>4, <1>6 DEF After, Lives

\* The loop of the dashboard ends between two works.
LEMMA ServeEndsOK ==
    ASSUME Before, ServeEnds
    PROVE  After
<1>1. Upcoming(proc) = "none" /\ torn \subseteq {"merge", "history"} /\ request \in Request \cup {None}
    BY DoingUpcoming DEF Before, WorkOK, ProcessOK, ServeEnds
<1>2. UNCHANGED <<ledger, request, torn>> /\ proc' = Dead
    BY DEF ServeEnds
<1>3. ProcessOK(proc') /\ Upcoming(proc') \notin InnerSteps /\ ~proc'.alive
    BY <1>2, DeadOK DEF InnerSteps
<1>4. /\ UNCHANGED <<epochs, alias, imported>> /\ quota' \in Seq(Snapshot)
      /\ cursors' \in [Files -> Cursor \cup {None}] /\ official' \in [Fingerprint -> Identity \cup {None}]
    BY <1>2 DEF ledger, Before, LedgerOK
<1>5. LedgerOK' /\ WorkOK'
    BY <1>1, <1>2, <1>3, <1>4, GoesOn
<1> QED
    BY <1>3, <1>5 DEF After, Lives

\* What a process is at work on is all that matters here.
LEMMA SameWork ==
    ASSUME Before, UNCHANGED <<ledger, request, torn>>, proc' \in Process,
           proc'.todo = proc.todo, proc'.alive = proc.alive, proc'.mode = proc.mode,
           proc'.read = proc.read, proc'.old = proc.old
    PROVE  After
<1> DEFINE p == proc
           q == proc'
<1>1. ProcessOK(p) /\ p \in Process /\ Settled(p, epochs, alias, Markers, torn) /\ ReadOK(p, alias)
      /\ torn \subseteq {"merge", "history"} /\ request \in Request \cup {None}
    BY DEF Before, WorkOK, ProcessOK
<1>2. /\ q \in Process /\ q.todo = p.todo /\ q.alive = p.alive /\ q.mode = p.mode
      /\ q.read = p.read /\ q.old = p.old
    OBVIOUS
<1>3. LedgerOK' /\ Markers' = Markers
  <2>1. UNCHANGED <<epochs, alias, imported, quota, cursors>>
        /\ official' \in [Fingerprint -> Identity \cup {None}]
    BY DEF ledger, Before, LedgerOK
  <2> QED
    BY <2>1, LedgerStays
<1>4. UNCHANGED <<epochs, alias, request, torn>>
    BY DEF ledger
<1> HIDE DEF p, q
<1>5. ProcessOK(q) /\ Upcoming(q) = Upcoming(p)
    BY <1>1, <1>2 DEF ProcessOK, Upcoming
<1>6. Settled(q, epochs, alias, Markers, torn) /\ ReadOK(q, alias)
    BY <1>1, <1>2, <1>5, SameSettled
<1>7. WorkOK'
    BY <1>1, <1>3, <1>4, <1>5, <1>6 DEF WorkOK, q
<1> QED
    BY <1>2, <1>3, <1>7 DEF After, Lives, p, q

\* The page goes; the work stays.
LEMMA ClosePageOK ==
    ASSUME Before, ClosePage
    PROVE  After
<1>1. UNCHANGED <<ledger, request, torn>> /\ proc' = [proc EXCEPT !.held = FALSE]
    BY DEF ClosePage
<1>2. /\ proc' \in Process /\ proc'.todo = proc.todo /\ proc'.alive = proc.alive
      /\ proc'.mode = proc.mode /\ proc'.read = proc.read /\ proc'.old = proc.old
    BY <1>1 DEF Process, Before, WorkOK, ProcessOK
<1> QED
    BY <1>1, <1>2, SameWork

\* Every step of the world and of the process.
LEMMA DaemonOK ==
    ASSUME Before, DaemonNext
    PROVE  After
<1>1. CASE World
  <2>1. UNCHANGED <<epochs, alias, imported, quota, cursors, proc, torn>> /\ official' = official
        /\ request' = request
    BY <1>1 DEF World, LogIn, LogOut, SwapAuth, WriteLine, CutFile, ReplaceFile, ledger
  <2>2. official' \in [Fingerprint -> Identity \cup {None}] /\ request' \in Request \cup {None}
    BY <2>1 DEF Before, LedgerOK, WorkOK
  <2> QED
    BY <2>1, <2>2, AtRest
<1>2. CASE Kill
  <2>1. Die /\ UNCHANGED <<epochs, alias, imported, cursors, official>> /\ quota' = quota
    BY <1>2 DEF Kill, ledger
  <2>2. quota' \in Seq(Snapshot)
    BY <2>1 DEF Before, LedgerOK
  <2> QED
    BY <2>1, <2>2, DieOK
<1> QED
    BY <1>1, <1>2, ObserveAuthOK, LinkAliasOK, RemapAccountOK, ListenOK, ReadMarkersOK, LinkHistoryOK,
       ReplaceHistoryOK, RefreshOfficialUsageOK, IngestQuotaTailOK, TickOK, OfficialTickOK, ServeEndsOK,
       ClosePageOK, ListenFailsOK,
       AskOfficialUsageOK, StoreOfficialUsageOK, ObserveAuthFailsOK, DieInQuotaTailOK DEF DaemonNext, Work

-----------------------------------------------------------------------------
(* The controller. *)

Controller == [state : {"stopped", "starting", "running", "stopping", "failed"},
               child : BOOLEAN, mode : Modes \cup {None}, pending : Modes \cup {None},
               expected : BOOLEAN, failure : BOOLEAN, polling : BOOLEAN, handler : BOOLEAN]

\* The process that runs is the controller's child, in the mode it was started for.
Owns(c, p) == p.alive => c.child /\ c.mode = p.mode

ControlOK ==
    /\ enabled \in BOOLEAN /\ app \in BOOLEAN /\ ctl \in Controller
    /\ Owns(ctl, proc)
    /\ ctl.pending # None => ctl.pending # ctl.mode
    /\ ~app => ~ctl.child /\ ~ctl.handler

\* A process is launched where none runs.
LEMMA LaunchOK ==
    ASSUME Before, ~proc.alive, NEW c \in Controller, NEW mode \in Modes, Launch(c, mode),
           UNCHANGED <<ledger, request, torn>>
    PROVE  /\ LedgerOK' /\ WorkOK' /\ ctl' \in Controller /\ Owns(ctl', proc')
           /\ ctl'.pending # None => ctl'.pending # ctl'.mode
<1>1. /\ ProcessOK(proc) /\ Upcoming(proc) = "none"
      /\ torn \subseteq {"merge", "history"} /\ request \in Request \cup {None}
    BY DEF Before, WorkOK, Upcoming
<1>2. /\ UNCHANGED <<epochs, alias, imported>> /\ quota' \in Seq(Snapshot) /\ UNCHANGED <<request, torn>>
      /\ cursors' \in [Files -> Cursor \cup {None}] /\ official' \in [Fingerprint -> Identity \cup {None}]
    BY DEF ledger, Before, LedgerOK
<1>3. CASE /\ ctl' = [NoChild EXCEPT !.state = "starting", !.child = TRUE, !.mode = mode,
                                     !.polling = TRUE, !.handler = TRUE]
           /\ proc' = Started(mode)
  <2>1. ctl' = [state |-> "starting", child |-> TRUE, mode |-> mode, pending |-> None,
                expected |-> FALSE, failure |-> FALSE, polling |-> TRUE, handler |-> TRUE]
    BY <1>3 DEF NoChild
  <2>2. ctl' \in Controller /\ ctl'.child /\ ctl'.mode = mode /\ ctl'.pending = None
    BY <2>1 DEF Controller
  <2>3. /\ ProcessOK(proc') /\ Upcoming(proc') \notin InnerSteps /\ proc'.mode = mode
    BY <1>3, DeadOK DEF InnerSteps
  <2>4. LedgerOK' /\ WorkOK'
    BY <1>1, <1>2, <2>3, GoesOn
  <2> QED
    BY <2>2, <2>3, <2>4 DEF Owns
<1>4. ASSUME UNCHANGED proc PROVE After
  <2>1. UNCHANGED <<epochs, alias, imported, quota, cursors, proc, torn>>
        /\ official' \in [Fingerprint -> Identity \cup {None}] /\ request' \in Request \cup {None}
    BY <1>1, <1>2, <1>4 DEF ledger
  <2> QED
    BY <2>1, AtRest
<1>5. CASE /\ ctl' = [c EXCEPT !.state = "failed", !.child = FALSE, !.mode = None, !.polling = FALSE]
           /\ UNCHANGED proc
  <2>1. ctl' \in Controller /\ ctl'.mode = None
    BY <1>5 DEF Controller
  <2> QED
    BY <1>4, <1>5, <2>1 DEF After, Owns
<1>6. CASE ctl' = [NoChild EXCEPT !.state = "failed"] /\ UNCHANGED proc
  <2>1. ctl' \in Controller /\ ctl'.pending = None
    BY <1>6 DEF Controller, NoChild
  <2> QED
    BY <1>4, <1>6, <2>1 DEF After, Owns
<1> QED
    BY <1>3, <1>5, <1>6 DEF Launch

\* SIGTERM ends the process, or only its server.
LEMMA TerminatedOK ==
    ASSUME Before, Terminated, UNCHANGED ledger
    PROVE  After
<1>1. CASE Die
  <2>1. UNCHANGED <<epochs, alias, imported, cursors, official>> /\ quota' \in Seq(Snapshot)
    BY DEF ledger, Before, LedgerOK
  <2> QED
    BY <1>1, <2>1, DieOK
<1>2. ASSUME NEW held \in BOOLEAN, proc' = [proc EXCEPT !.http = FALSE, !.held = held],
             UNCHANGED <<request, torn>>
      PROVE  After
  <2>1. /\ proc' \in Process /\ proc'.todo = proc.todo /\ proc'.alive = proc.alive
        /\ proc'.mode = proc.mode /\ proc'.read = proc.read /\ proc'.old = proc.old
    BY <1>2 DEF Process, Before, WorkOK, ProcessOK
  <2> QED
    BY <1>2, <2>1, SameWork
<1>3. proc.held \in BOOLEAN
    BY DEF Process, Before, WorkOK, ProcessOK
<1> QED
    BY <1>1, <1>2, <1>3 DEF Terminated

\* The controller goes on to own a process that lives on.
LEMMA LivesOwned ==
    ASSUME Lives, Owns(ctl, proc), ctl'.child = ctl.child, ctl'.mode = ctl.mode
    PROVE  Owns(ctl', proc')
  BY DEF Lives, Owns

\* The child is replaced, kept or told to end.
LEMMA TransitionOK ==
    ASSUME Before, ControlOK, NEW mode \in Modes, Transition(mode), UNCHANGED ledger
    PROVE  /\ LedgerOK' /\ WorkOK' /\ ctl' \in Controller /\ Owns(ctl', proc')
           /\ ctl'.pending # None => ctl'.pending # ctl'.mode
<1>1. CASE ~ChildRuns /\ Launch(ctl, mode) /\ UNCHANGED <<request, torn>>
  <2>1. ~proc.alive /\ ctl \in Controller
    BY <1>1 DEF ControlOK, ChildRuns, Owns
  <2> QED
    BY <1>1, <2>1, LaunchOK
<1>2. CASE UNCHANGED <<ctl, proc, request, torn>>
  <2>1. UNCHANGED <<epochs, alias, imported, quota, cursors, proc, torn>>
        /\ official' \in [Fingerprint -> Identity \cup {None}] /\ request' \in Request \cup {None}
    BY <1>2 DEF ledger, Before, LedgerOK, WorkOK
  <2>2. After
    BY <2>1, AtRest
  <2> QED
    BY <1>2, <2>2 DEF After, ControlOK
<1>3. CASE /\ ctl.mode # mode
           /\ ctl' = [ctl EXCEPT !.pending = mode, !.expected = TRUE, !.state = "stopping"]
           /\ Terminated
  <2>1. After
    BY <1>3, TerminatedOK
  <2>2. ctl' \in Controller /\ ctl'.pending = mode /\ ctl'.mode = ctl.mode /\ ctl'.child = ctl.child
    <3>1. ctl \in Controller
      BY DEF ControlOK
    <3> QED
      BY <1>3, <3>1 DEF Controller
  <2>3. Owns(ctl', proc')
    BY <2>1, <2>2, LivesOwned DEF After, ControlOK
  <2> QED
    BY <1>3, <2>1, <2>2, <2>3 DEF After
<1> QED
    BY <1>1, <1>2, <1>3 DEF Transition

\* Every step of the controller.
LEMMA ControllerOK ==
    ASSUME Before, ControlOK, ControllerNext, UNCHANGED <<login, log, files, ledger>>
    PROVE  LedgerOK' /\ WorkOK' /\ ControlOK'
<1> USE DEF ControlOK
<1>1. UNCHANGED ledger /\ \A on \in BOOLEAN : Preferred(on) \in Modes
    BY DEF Preferred, Modes
<1>2. CASE OpenApp
  <2>1. ~app /\ app' = TRUE /\ UNCHANGED <<enabled, request, torn>>
    BY <1>2 DEF OpenApp
  <2>2. ~proc.alive
    BY <2>1 DEF Owns
  <2> DEFINE mode == Preferred(enabled)
  <2>3. mode \in Modes /\ Launch(ctl, mode)
    BY <1>1, <1>2 DEF OpenApp
  <2> HIDE DEF mode
  <2>4. /\ LedgerOK' /\ WorkOK' /\ ctl' \in Controller /\ Owns(ctl', proc')
        /\ ctl'.pending # None => ctl'.pending # ctl'.mode
    BY <1>1, <2>1, <2>2, <2>3, LaunchOK
  <2> QED
    BY <2>1, <2>4
<1>3. CASE ToggleCollection
  <2> DEFINE mode == Preferred(~enabled)
  <2>1. mode \in Modes /\ Transition(mode) /\ enabled' \in BOOLEAN /\ app /\ app' = app
    BY <1>1, <1>3 DEF ToggleCollection
  <2> HIDE DEF mode
  <2>2. /\ LedgerOK' /\ WorkOK' /\ ctl' \in Controller /\ Owns(ctl', proc')
        /\ ctl'.pending # None => ctl'.pending # ctl'.mode
    BY <1>1, <2>1, TransitionOK
  <2> QED
    BY <2>1, <2>2
<1>4. CASE Retry
  <2> DEFINE mode == Preferred(enabled)
  <2>1. mode \in Modes /\ Transition(mode) /\ enabled' = enabled /\ app /\ app' = app
    BY <1>1, <1>4 DEF Retry
  <2> HIDE DEF mode
  <2>2. /\ LedgerOK' /\ WorkOK' /\ ctl' \in Controller /\ Owns(ctl', proc')
        /\ ctl'.pending # None => ctl'.pending # ctl'.mode
    BY <1>1, <2>1, TransitionOK
  <2> QED
    BY <2>1, <2>2
<1>5. CASE QuitApp
  <2>1. ctl' = NoChild /\ app' = FALSE /\ enabled' = enabled
    BY <1>5 DEF QuitApp
  <2>2. ctl' \in Controller /\ ~ctl'.child /\ ~ctl'.handler /\ ctl'.pending = None
    BY <2>1 DEF NoChild, Controller
  <2>3. After /\ ~proc'.alive
    <3>1. CASE Die
      <4>1. UNCHANGED <<epochs, alias, imported, cursors, official>> /\ quota' \in Seq(Snapshot)
        BY <1>1 DEF ledger, Before, LedgerOK
      <4>2. ~proc'.alive
        BY <3>1, DeadOK DEF Die
      <4> QED
        BY <3>1, <4>1, <4>2, DieOK
    <3>2. CASE ~ChildRuns /\ UNCHANGED <<proc, request, torn>>
      <4>1. UNCHANGED <<epochs, alias, imported, quota, cursors, proc, torn>>
            /\ official' \in [Fingerprint -> Identity \cup {None}] /\ request' \in Request \cup {None}
        BY <1>1, <3>2 DEF ledger, Before, LedgerOK, WorkOK
      <4>2. ~proc.alive
        BY <3>2 DEF ChildRuns, Owns
      <4> QED
        BY <3>2, <4>1, <4>2, AtRest
    <3> QED
      BY <1>5, <3>1, <3>2 DEF QuitApp
  <2> QED
    BY <2>1, <2>2, <2>3 DEF After, Owns
<1>6. CASE BecomeHealthy
  <2>1. UNCHANGED <<enabled, app, proc, request, torn>>
        /\ ctl' = [ctl EXCEPT !.state = "running", !.polling = FALSE]
    BY <1>6 DEF BecomeHealthy
  <2>2. /\ ctl' \in Controller /\ ctl'.child = ctl.child /\ ctl'.mode = ctl.mode
        /\ ctl'.pending = ctl.pending /\ ctl'.handler = ctl.handler
    BY <2>1 DEF Controller
  <2>3. UNCHANGED <<epochs, alias, imported, quota, cursors, proc, torn>>
        /\ official' \in [Fingerprint -> Identity \cup {None}] /\ request' \in Request \cup {None}
    BY <1>1, <2>1 DEF ledger, Before, LedgerOK, WorkOK
  <2>4. After
    BY <2>3, AtRest
  <2> QED
    BY <2>1, <2>2, <2>4 DEF After, Owns
<1>7. CASE HealthTimesOut
  <2>1. /\ UNCHANGED <<enabled, app>> /\ Terminated
        /\ ctl' = [ctl EXCEPT !.state = "failed", !.failure = TRUE, !.expected = TRUE, !.polling = FALSE]
    BY <1>7 DEF HealthTimesOut
  <2>2. /\ ctl' \in Controller /\ ctl'.child = ctl.child /\ ctl'.mode = ctl.mode
        /\ ctl'.pending = ctl.pending /\ ctl'.handler = ctl.handler
    BY <2>1 DEF Controller
  <2>3. After
    BY <1>1, <2>1, TerminatedOK
  <2>4. Owns(ctl', proc')
    BY <2>2, <2>3, LivesOwned DEF After
  <2> QED
    BY <2>1, <2>2, <2>3, <2>4 DEF After
<1>8. CASE HandleTermination
  <2> DEFINE c == [ctl EXCEPT !.child = FALSE, !.mode = None, !.polling = FALSE, !.expected = FALSE,
                              !.handler = FALSE]
             c2 == [c EXCEPT !.pending = None]
             mode == ctl.pending
  <2>1. ~proc.alive /\ ctl.handler /\ UNCHANGED <<enabled, app, request, torn>>
    BY <1>8 DEF HandleTermination
  <2>2. app
    BY <2>1
  <2>3. c \in Controller /\ c.mode = None /\ c.pending = ctl.pending /\ c.failure \in BOOLEAN
    BY DEF Controller
  <2>4. CASE ctl.pending # None
    <3>1. Launch(c2, mode)
      BY <1>8, <2>4 DEF HandleTermination
    <3> HIDE DEF c
    <3>2. c2 \in Controller /\ mode \in Modes
      BY <2>3, <2>4 DEF Controller
    <3> HIDE DEF c2, mode
    <3>3. /\ LedgerOK' /\ WorkOK' /\ ctl' \in Controller /\ Owns(ctl', proc')
          /\ ctl'.pending # None => ctl'.pending # ctl'.mode
      BY <1>1, <2>1, <3>1, <3>2, LaunchOK
    <3> QED
      BY <2>1, <2>2, <3>3
  <2>5. CASE ctl.pending = None
    <3> DEFINE state == IF ctl.failure \/ ~ctl.expected THEN "failed" ELSE "stopped"
    <3>1. ctl' = [c EXCEPT !.failure = FALSE, !.state = state] /\ proc' = proc
      BY <1>8, <2>5 DEF HandleTermination
    <3>2. state \in {"stopped", "failed"}
      OBVIOUS
    <3> HIDE DEF c, state
    <3>3. ctl' \in Controller /\ ctl'.pending = None
      BY <2>3, <2>5, <3>1, <3>2 DEF Controller
    <3>4. UNCHANGED <<epochs, alias, imported, quota, cursors, proc, torn>>
          /\ official' \in [Fingerprint -> Identity \cup {None}] /\ request' \in Request \cup {None}
      BY <1>1, <2>1, <3>1 DEF ledger, Before, LedgerOK, WorkOK
    <3>5. After
      BY <3>4, AtRest
    <3> QED
      BY <2>1, <2>2, <3>1, <3>3, <3>5 DEF After, Owns
  <2> QED
    BY <2>4, <2>5
<1> QED
    BY <1>2, <1>3, <1>4, <1>5, <1>6, <1>7, <1>8 DEF ControllerNext

-----------------------------------------------------------------------------
(* The inductive invariant. *)

IInv == WorldOK /\ LedgerOK /\ WorkOK /\ ControlOK

\* Without rows nothing is inferred.
LEMMA NothingInferred == InferEpochs(<<>>, FirstSample) = {}
<1>1. ASSUME NEW win PROVE WorkspacesIn(<<>>, win) = {}
    BY DEF WorkspacesIn, SeenIn
<1>2. Cardinality({}) # 1
    BY FS_EmptySet
<1> QED
    BY <1>1, <1>2 DEF InferEpochs

\* Before the app is first opened the ledger is empty and no process runs.
LEMMA InitIInv == Init => IInv
<1> SUFFICES ASSUME Init PROVE IInv
    OBVIOUS
<1>1. PICK past \in Pasts : /\ login = past.login /\ log = past.log
                            /\ files = [f \in Files |-> [id |-> 0, lines |-> past.lines]]
    BY DEF Init, DaemonInit
<1>2. /\ past.login \in [account : People, generation : 0 .. FirstNow] \cup {None}
      /\ past.log \in Seq(Marker) /\ past.lines \in Seq(Line)
      /\ \A i \in DOMAIN past.log : past.log[i].at <= FirstNow
      /\ FirstNow \in Nat /\ FirstSample \in Nat
    BY DaemonAssumption
<1>3. WorldOK
  <2>1. login \in Login \cup {None}
    BY <1>1, <1>2 DEF Login
  <2>2. now = FirstNow
    BY DEF Init, DaemonInit
  <2>3. LogOK(log, now)
    BY <1>1, <1>2, <2>2 DEF LogOK
  <2>4. [id |-> 0, lines |-> past.lines] \in File
    BY <1>2 DEF File
  <2>5. files \in [Files -> File]
    BY <1>1, <2>4
  <2> QED
    BY <1>2, <2>1, <2>2, <2>3, <2>5 DEF WorldOK
<1>4. /\ epochs = {} /\ alias = [w \in Workspaces |-> None] /\ imported = 0
      /\ quota = <<>> /\ cursors = [f \in Files |-> None]
      /\ official = [a \in Fingerprint |-> None]
      /\ proc = Dead /\ request = None /\ torn = {}
    BY DEF Init, DaemonInit
<1>5. LedgerOK
  <2>1. EpochsOK(epochs, now + FirstSample)
    BY <1>4 DEF EpochsOK, OpenEpochs, Observed
  <2>2. AliasOK(alias)
    BY <1>4 DEF AliasOK
  <2>3. Len(log) \in Nat
    BY <1>3, LenProperties DEF WorldOK, LogOK
  <2>4. quota \in Seq(Snapshot)
    BY <1>4
  <2>5. imported \in 0 .. Len(log)
    BY <1>4, <2>3
  <2>6. /\ cursors \in [Files -> Cursor \cup {None}]
        /\ official \in [Fingerprint -> Identity \cup {None}]
    BY <1>4
  <2> QED
    BY <2>1, <2>2, <2>4, <2>5, <2>6 DEF LedgerOK
<1>6. WorkOK
  <2>1. ProcessOK(proc) /\ Upcoming(proc) = "none"
    BY <1>4, DeadOK
  <2>2. Markers = <<>>
    BY <1>4 DEF Markers
  <2>3. InferEpochs(Markers, FirstSample) = {} /\ WorkspaceEpochs(epochs) = {}
    BY <1>4, <2>2, NothingInferred DEF WorkspaceEpochs, Historical
  <2>4. Settled(proc, epochs, alias, Markers, torn)
    BY <1>4, <2>1, <2>3 DEF Settled
  <2>5. ReadOK(proc, alias)
    BY <2>1 DEF ReadOK
  <2> QED
    BY <1>4, <2>1, <2>4, <2>5 DEF WorkOK
<1>7. ControlOK
  <2>1. enabled \in BOOLEAN /\ app = FALSE /\ ctl = NoChild
    BY DEF Init, ControllerInit
  <2>2. ctl \in Controller /\ ctl.pending = None /\ ~ctl.child /\ ~ctl.handler
    BY <2>1 DEF NoChild, Controller
  <2>3. ~proc.alive
    BY <1>4, DeadOK
  <2> QED
    BY <2>1, <2>2, <2>3 DEF ControlOK, Owns
<1> QED
    BY <1>3, <1>5, <1>6, <1>7 DEF IInv

\* Every step of the process, of its controller and of the world keeps the invariant.
LEMMA NextIInv == IInv /\ [Next]_serviceVars => IInv'
<1> SUFFICES ASSUME IInv, [Next]_serviceVars PROVE IInv'
    OBVIOUS
<1>1. WorldOK' /\ Passed
    BY WorldNext DEF IInv
<1>2. Before
    BY <1>1 DEF Before, IInv
<1>3. CASE DaemonNext /\ UNCHANGED controller
  <2>1. After
    BY <1>2, <1>3, DaemonOK
  <2>2. ControlOK'
    <3>1. ctl' = ctl /\ enabled' = enabled /\ app' = app
      BY <1>3 DEF controller
    <3>2. Owns(ctl', proc')
      BY <2>1, <3>1, LivesOwned DEF After, IInv, ControlOK
    <3> QED
      BY <3>1, <3>2 DEF IInv, ControlOK
  <2> QED
    BY <1>1, <2>1, <2>2 DEF After, IInv
<1>4. CASE ControllerNext /\ UNCHANGED <<login, log, files, ledger>>
  <2>1. LedgerOK' /\ WorkOK' /\ ControlOK'
    BY <1>2, <1>4, ControllerOK DEF IInv
  <2> QED
    BY <1>1, <2>1 DEF IInv
<1>5. CASE UNCHANGED serviceVars
  <2>1. UNCHANGED <<epochs, alias, imported, quota, cursors, proc, torn>> /\ official' = official
        /\ request' = request /\ UNCHANGED <<enabled, app, ctl>>
    BY <1>5 DEF serviceVars, vars, ledger, controller
  <2>2. official' \in [Fingerprint -> Identity \cup {None}] /\ request' \in Request \cup {None}
    BY <2>1 DEF IInv, LedgerOK, WorkOK
  <2>3. After
    BY <1>2, <2>1, <2>2, AtRest
  <2>4. ControlOK'
    BY <2>1 DEF IInv, ControlOK
  <2> QED
    BY <1>1, <2>3, <2>4 DEF After, IInv
<1> QED
    BY <1>3, <1>4, <1>5 DEF Next

\* The invariant holds at all times.
LEMMA Invariant == Spec => []IInv
  BY InitIInv, NextIInv, PTL DEF Spec

\* At any time every row and every field is of its kind, at most one epoch is
\* open, and the process that runs is the controller's child, in its mode.
THEOREM TypeCorrect == Spec => []ServiceTypeOK
<1>1. IInv => ServiceTypeOK
  <2> SUFFICES ASSUME IInv PROVE ServiceTypeOK
    OBVIOUS
  <2> USE DEF IInv
  <2>1. /\ epochs \in SUBSET Epoch /\ alias \in [Workspaces -> Alias \cup {None}]
        /\ imported \in 0 .. Len(log)
        /\ quota \in Seq(Snapshot) /\ cursors \in [Files -> Cursor \cup {None}]
    BY DEF LedgerOK, EpochsOK, AliasOK
  <2>2. \A f \in Files : files[f].lines \in Seq(Line)
    BY DEF WorldOK, File
  <2>3. /\ proc.mode \in Modes \cup {None} /\ proc.todo \in Seq(Steps)
        /\ proc.binding \in Fingerprint \cup {None} /\ proc.left \subseteq Files
    BY DEF WorkOK, ProcessOK, Process
  <2>4. proc.alive => ctl.child /\ ctl.mode = proc.mode
    BY DEF ControlOK, Owns
  <2>5. Cardinality(OpenEpochs(epochs)) <= 1
    <3> DEFINE O == OpenEpochs(epochs)
    <3>1. \A e, f \in O : e = f
      BY DEF LedgerOK, EpochsOK
    <3>2. Cardinality(O) <= 1
      <4> HIDE DEF O
      <4>1. CASE O = {}
        BY <4>1, FS_EmptySet
      <4>2. CASE O # {}
        <5>1. PICK e \in O : O = {e}
          BY <3>1, <4>2
        <5> QED
          BY <5>1, FS_Singleton
      <4> QED
        BY <4>1, <4>2
    <3> QED
      BY <3>2
  <2>6. torn \subseteq {"merge", "history"}
    BY DEF WorkOK
  <2>7. ctl.pending \in Modes \cup {None} /\ (ctl.pending # None => ctl.pending # ctl.mode)
    BY DEF ControlOK, Controller
  <2> QED
    BY <2>1, <2>2, <2>3, <2>4, <2>5, <2>6, <2>7 DEF ServiceTypeOK
<1> QED
    BY <1>1, Invariant, PTL

\* Whatever the interleaving of logins, observations, imports, kills and mode
\* switches: where no process died in the middle of a merge or of a history,
\* the ledger between two works of the process has the epochs that the imported
\* rows call for, and every epoch has the account its workspace is linked to.
THEOREM SettledUnlessTornHolds == Spec => []SettledUnlessTorn
<1>1. IInv => SettledUnlessTorn
  <2> SUFFICES ASSUME IInv, proc.todo = <<>>
               PROVE  /\ "history" \notin torn => InferEpochs(Markers, FirstSample) = WorkspaceEpochs(epochs)
                      /\ "merge" \notin torn => \A e \in epochs : alias[e.account.workspace].account = e.account
    BY DEF SettledUnlessTorn, WorkspaceEpochs
  <2>1. Upcoming(proc) = "none"
    BY DEF Upcoming
  <2>2. Settled(proc, epochs, alias, Markers, torn)
    BY DEF IInv, WorkOK
  <2> QED
    BY <2>1, <2>2 DEF Settled, Matches
<1> QED
    BY <1>1, Invariant, PTL


-----------------------------------------------------------------------------
(* What is filed is filed rightly, if the log tells the truth. *)

WorldTrue(t, l, rows, fs) ==
    /\ FirstNow <= t
    /\ LoginTrue(l, rows, t)
    /\ \A f \in Files : LinesTrue(fs[f].lines, rows, l, t)

\* An observed epoch has the account of its credentials, and so have the lines
\* it covers, but for those that were written while it was another's.
ObservedTrue(e, t, l, fs) ==
    /\ e.account \in People
    /\ e.generation \in Nat /\ e.generation <= e.from
    /\ FirstNow <= e.from /\ e.from <= t
    /\ e.to # None => e.to <= t
    /\ l # None /\ e.generation = l.generation => e.account = l.account
    /\ \A f \in Files : \A k \in DOMAIN fs[f].lines :
          Covers(e, fs[f].lines[k].at) => fs[f].lines[k].stale \/ fs[f].lines[k].by = e.account

Known == People \cup {Provisional(w) : w \in Workspaces}

\* The workspace of a historical epoch was seen in it or later.
InferredTrue(e, rows) ==
    /\ e.account \in Known
    /\ \E i \in DOMAIN rows : /\ rows[i].kind = "account_seen" /\ e.from <= rows[i].at
                              /\ rows[i].workspace = e.account.workspace

EpochsTrue(es, t, l, rows, fs) ==
    \A e \in es : IF e.observed THEN ObservedTrue(e, t, l, fs) ELSE InferredTrue(e, rows)

AliasTrue(al) == \A w \in Workspaces : al[w] # None => al[w].account \in Known

\* The open epoch is that of the account that is bound, or about to be.
BindingTrue(p, es) ==
    p.alive =>
        \A e \in OpenEpochs(es) :
            IF Upcoming(p) \in {"alias", "merge"} THEN e.account = p.read
            ELSE p.binding = None \/ e.account = p.binding

\* Whoever was asked for while the ledger knew the login is still that login.
RequestTrue(r, t, l) ==
    r # None /\ r.fresh # None =>
        /\ r.fresh <= t
        /\ l # None /\ r.fresh = l.generation => Names(r.account, l.account)

RightInv ==
    /\ WorldTrue(now, login, log, files)
    /\ EpochsTrue(epochs, now, login, log, files)
    /\ AliasTrue(alias)
    /\ BindingTrue(proc, epochs)
    /\ RequestTrue(request, now, login)
    /\ FiledRightly

\* A window begins with the first sample or with a logout.
LEMMA WindowFrom ==
    ASSUME NEW rows, NEW win \in Windows(rows, FirstSample)
    PROVE  win.from = FirstSample \/ win.from \in Times(rows, "logout")
<1> DEFINE logouts == Times(rows, "logout")
           to(T) == EarliestOf(T)
<1>1. \/ win = [from |-> FirstSample, to |-> to(logouts)]
      \/ \E l \in logouts : win = [from |-> l, to |-> to({m \in logouts : m > l})]
    BY DEF Windows
<1> HIDE DEF logouts, to
<1>2. \A x, y : [from |-> x, to |-> y].from = x
    OBVIOUS
<1>3. win.from = FirstSample \/ win.from \in logouts
  <2>1. CASE win = [from |-> FirstSample, to |-> to(logouts)]
    BY <1>2, <2>1
  <2>2. ASSUME NEW l \in logouts, win = [from |-> l, to |-> to({m \in logouts : m > l})]
        PROVE  win.from = l
    BY <1>2, <2>2
  <2> QED
    BY <1>1, <2>1, <2>2
<1> QED
    BY <1>3 DEF logouts

\* The workspaces that a window has seen are finitely many.
LEMMA WorkspacesFinite ==
    ASSUME NEW rows, NEW bound \in Nat, LogOK(rows, bound), NEW win
    PROVE  IsFiniteSet(WorkspacesIn(rows, win))
<1> DEFINE D == {j \in DOMAIN rows : rows[j].kind = "account_seen" /\ Covers(win, rows[j].at)}
           T == WorkspacesIn(rows, win)
           f == [i \in D |-> rows[i].workspace]
<1>1. T = {f[i] : i \in D}
    BY DEF WorkspacesIn, SeenIn
<1>2. IsFiniteSet(D)
  <2> DEFINE n == Len(rows)
  <2>1. n \in Nat /\ D \subseteq 1 .. n
    BY LenProperties DEF LogOK
  <2> HIDE DEF D, n
  <2>2. IsFiniteSet(1 .. n)
    BY <2>1, FS_Interval
  <2> QED
    BY <2>1, <2>2, FS_Subset
<1>3. f \in Surjection(D, T)
    BY <1>1 DEF Surjection
<1> HIDE DEF D, T, f
<1> QED
    BY <1>2, <1>3, FS_Surjection DEF T

\* An inferred epoch lies in a window that has seen its workspace only, and
\* that was seen in the epoch or later.
LEMMA InferredWindow ==
    ASSUME NEW rows, NEW bound \in Nat, LogOK(rows, bound),
           NEW e \in InferEpochs(rows, FirstSample)
    PROVE  \E win \in Windows(rows, FirstSample) :
              /\ win.from <= e.from /\ win.to = e.to
              /\ WorkspacesIn(rows, win) = {e.workspace}
              /\ \E m \in SeenIn(rows, win) : m.workspace = e.workspace /\ e.from <= m.at
<1>1. PICK win \in Windows(rows, FirstSample) :
         /\ Cardinality(WorkspacesIn(rows, win)) = 1
         /\ e = InferredEpoch(rows, win)
    BY DEF InferEpochs
<1> DEFINE T == WorkspacesIn(rows, win)
           seen == SeenIn(rows, win)
           times == {m.at : m \in seen}
           first == Min(times)
           logins == {t \in Times(rows, "login_success") : win.from <= t /\ t <= first}
           from == IF logins = {} THEN win.from ELSE Max(logins)
           w == CHOOSE x \in Workspaces : x \in T
<1>2. e = [from |-> from, to |-> win.to, workspace |-> w]
    BY <1>1 DEF InferredEpoch
<1>3. \A i \in DOMAIN rows : rows[i] \in Marker /\ rows[i].at \in Nat /\ rows[i].at <= bound
  <2>1. \A i \in DOMAIN rows : rows[i] \in Marker
    BY LenProperties DEF LogOK
  <2> QED
    BY <2>1 DEF LogOK, Marker
<1>4. /\ T = {m.workspace : m \in seen}
      /\ \A m \in seen : m \in Marker /\ m.kind = "account_seen" /\ Covers(win, m.at) /\ m.at \in Nat
    BY <1>3 DEF WorkspacesIn, SeenIn
<1>5. Times(rows, "login_success") \subseteq Nat /\ \A t \in Times(rows, "login_success") : t <= bound
    BY <1>3 DEF Times
<1>6. PICK x : T = {x}
  <2>1. IsFiniteSet(T)
    BY WorkspacesFinite
  <2> QED
    BY <1>1, <2>1, FS_Singleton
<1>7. x \in Workspaces
    BY <1>4, <1>6 DEF Marker
<1>8. w = x
    BY <1>6, <1>7
<1>9. times \subseteq Nat /\ times # {}
    BY <1>4, <1>6
<1>10. win.from \in Nat
  <2>1. \A l \in Times(rows, "logout") : l \in Nat
    BY <1>3 DEF Times
  <2>2. win.from = FirstSample \/ win.from \in Times(rows, "logout")
    BY WindowFrom
  <2> QED
    BY <2>1, <2>2, DaemonAssumption
<1> HIDE DEF T, seen, w
<1>11. first \in times /\ first \in Nat
  <2> DEFINE S == times
  <2> HIDE DEF times
  <2>1. first \in times
    BY <1>9, MinMaxIn
  <2> QED
    BY <1>9, <2>1
<1>12. PICK m \in seen : m.at = first
    BY <1>11
<1>13. m.workspace = x /\ win.from <= first
    BY <1>4, <1>6, <1>12 DEF Covers
<1>14. win.from <= from /\ from <= first
  <2> HIDE DEF first
  <2>1. CASE logins = {}
    BY <1>10, <1>11, <1>13, <2>1
  <2>2. CASE logins # {}
    <3> DEFINE g == Max(logins)
    <3>1. logins \subseteq Nat /\ \A t \in logins : t <= bound /\ win.from <= t /\ t <= first
      BY <1>5
    <3> HIDE DEF logins
    <3>2. g \in logins
      BY <2>2, <3>1, MinMaxIn
    <3>3. from = g
      BY <2>2
    <3> HIDE DEF g, from
    <3> QED
      BY <3>1, <3>2, <3>3
  <2> QED
    BY <2>1, <2>2
<1> HIDE DEF from
<1>15. /\ win.from <= e.from /\ win.to = e.to /\ T = {e.workspace}
       /\ m.workspace = e.workspace /\ e.from <= m.at
    BY <1>2, <1>6, <1>8, <1>12, <1>13, <1>14
<1> QED
    BY <1>12, <1>15 DEF T, seen

\* An inferred epoch that covers a time is of the workspace that was logged in.
LEMMA InferredRight ==
    ASSUME NEW rows, NEW bound \in Nat, LogOK(rows, bound), NEW a, NEW t \in Nat,
           Witnessed(rows, a, t), NEW e \in InferEpochs(rows, FirstSample), Covers(e, t)
    PROVE  e.workspace = a.workspace
<1>1. PICK win \in Windows(rows, FirstSample) :
         win.from <= e.from /\ win.to = e.to /\ WorkspacesIn(rows, win) = {e.workspace}
    BY InferredWindow
<1>2. PICK i \in DOMAIN rows :
         /\ rows[i].kind = "account_seen" /\ rows[i].workspace = a.workspace
         /\ FirstSample <= rows[i].at /\ rows[i].at <= t
         /\ \A j \in DOMAIN rows :
               rows[j].kind = "logout" => rows[j].at <= rows[i].at \/ t < rows[j].at
    BY DEF Witnessed
<1>3. \A j \in DOMAIN rows : rows[j].at \in Nat
  <2>1. \A j \in DOMAIN rows : rows[j] \in Marker
    BY LenProperties DEF LogOK
  <2> QED
    BY <2>1 DEF Marker
<1>4. e \in WorkspaceEpoch
    BY InferredType
<1>5. e.from \in Nat /\ e.to \in Nat \cup {None} /\ e.from <= t /\ (e.to # None => t < e.to)
    BY <1>4 DEF WorkspaceEpoch, Covers
<1>6. win.from <= rows[i].at
  <2>1. win.from = FirstSample \/ win.from \in Times(rows, "logout")
    BY WindowFrom
  <2>2. CASE win.from = FirstSample
    BY <1>2, <2>2
  <2>3. CASE win.from \in Times(rows, "logout")
    <3>1. PICK j \in DOMAIN rows : rows[j].kind = "logout" /\ rows[j].at = win.from
      BY <2>3 DEF Times
    <3>2. rows[j].at <= t
      BY <1>1, <1>3, <1>5, <3>1
    <3> QED
      BY <1>2, <1>3, <3>1, <3>2
  <2> QED
    BY <2>1, <2>2, <2>3
<1>7. Covers(win, rows[i].at)
  <2>1. win.to # None => rows[i].at < win.to
    BY <1>1, <1>2, <1>3, <1>5
  <2> QED
    BY <1>6, <2>1 DEF Covers
<1>8. rows[i].workspace \in WorkspacesIn(rows, win)
    BY <1>2, <1>7 DEF WorkspacesIn, SeenIn
<1> QED
    BY <1>1, <1>2, <1>8

\* Rows that were written after t follow those there were.
Later(rows, all, t) ==
    /\ DOMAIN rows \subseteq DOMAIN all
    /\ \A i \in DOMAIN rows : all[i] = rows[i] /\ rows[i].at \in Nat /\ rows[i].at <= t
    /\ \A i \in DOMAIN all \ DOMAIN rows : all[i].at = t + 1

\* Later rows change nothing about who was logged in until t.
LEMMA WitnessedLater ==
    ASSUME NEW rows, NEW all, NEW t \in Nat, Later(rows, all, t),
           NEW a, NEW u \in Nat, u <= t, Witnessed(rows, a, u)
    PROVE  Witnessed(all, a, u)
<1>1. PICK i \in DOMAIN rows :
         /\ rows[i].kind = "account_seen" /\ rows[i].workspace = a.workspace
         /\ FirstSample <= rows[i].at /\ rows[i].at <= u
         /\ \A j \in DOMAIN rows :
               rows[j].kind = "logout" => rows[j].at <= rows[i].at \/ u < rows[j].at
    BY DEF Witnessed
<1>2. i \in DOMAIN all /\ all[i] = rows[i]
    BY DEF Later
<1>3. ASSUME NEW j \in DOMAIN all, all[j].kind = "logout"
      PROVE  all[j].at <= all[i].at \/ u < all[j].at
  <2>1. CASE j \in DOMAIN rows
    BY <1>1, <1>2, <1>3, <2>1 DEF Later
  <2>2. CASE j \notin DOMAIN rows
    BY <2>2 DEF Later
  <2> QED
    BY <2>1, <2>2
<1> QED
    BY <1>1, <1>2, <1>3 DEF Witnessed

\* The lines that there are stay true, whoever is logged in next.
LEMMA LinesLater ==
    ASSUME NEW rows, NEW all, NEW t \in Nat, Later(rows, all, t),
           NEW lines \in Seq(Line), NEW l, NEW m, LinesTrue(lines, rows, l, t)
    PROVE  LinesTrue(lines, all, m, t + 1)
<1> SUFFICES ASSUME NEW k \in DOMAIN lines
             PROVE  /\ lines[k].by \in People /\ lines[k].at <= t + 1 /\ lines[k].at # t + 1
                    /\ Witnessed(all, lines[k].by, lines[k].at)
    BY DEF LinesTrue
<1>1. lines[k] \in Line
    BY LenProperties, ElementOfSeq
<1>2. lines[k].at \in Nat
    BY <1>1 DEF Line
<1>3. lines[k].by \in People /\ lines[k].at <= t /\ Witnessed(rows, lines[k].by, lines[k].at)
    BY DEF LinesTrue
<1>4. Witnessed(all, lines[k].by, lines[k].at)
    BY <1>2, <1>3, WitnessedLater
<1> QED
    BY <1>2, <1>3, <1>4

\* Who is logged in stays so while time passes.
LEMMA LoginLater ==
    ASSUME NEW rows, NEW t \in Nat, Later(rows, rows, t), NEW l \in Login \cup {None},
           LoginTrue(l, rows, t)
    PROVE  LoginTrue(l, rows, t + 1)
<1> SUFFICES ASSUME l # None PROVE l.generation <= t + 1 /\ Witnessed(rows, l.account, t + 1)
    BY DEF LoginTrue
<1>1. l.generation \in Nat /\ l.generation <= t /\ Witnessed(rows, l.account, t)
    BY DEF LoginTrue, Login
<1>2. PICK i \in DOMAIN rows :
         /\ rows[i].kind = "account_seen" /\ rows[i].workspace = l.account.workspace
         /\ FirstSample <= rows[i].at /\ rows[i].at <= t
         /\ \A j \in DOMAIN rows :
               rows[j].kind = "logout" => rows[j].at <= rows[i].at \/ t < rows[j].at
    BY <1>1 DEF Witnessed
<1>3. rows[i].at <= t + 1
      /\ \A j \in DOMAIN rows :
            rows[j].kind = "logout" => rows[j].at <= rows[i].at \/ t + 1 < rows[j].at
    BY <1>2 DEF Later
<1>4. Witnessed(rows, l.account, t + 1)
    BY <1>2, <1>3 DEF Witnessed
<1> QED
    BY <1>1, <1>4

\* A login is shown by its own row.
LEMMA LoginShown ==
    ASSUME NEW rows, NEW all, NEW t \in Nat, Later(rows, all, t), FirstSample <= t + 1,
           NEW l, l.generation = t + 1,
           NEW n \in DOMAIN all \ DOMAIN rows, all[n].kind = "account_seen",
           \A i \in DOMAIN all \ DOMAIN rows :
              /\ all[i].kind # "logout"
              /\ all[i].kind = "account_seen" => all[i].workspace = l.account.workspace
    PROVE  LoginTrue(l, all, t + 1)
<1>1. all[n].at = t + 1 /\ all[n].workspace = l.account.workspace
    BY DEF Later
<1>2. ASSUME NEW j \in DOMAIN all, all[j].kind = "logout" PROVE all[j].at <= all[n].at
  <2>1. j \in DOMAIN rows
    BY <1>2
  <2> QED
    BY <1>1, <2>1 DEF Later
<1>3. Witnessed(all, l.account, t + 1)
    BY <1>1, <1>2 DEF Witnessed
<1>4. ASSUME NEW i \in DOMAIN all, all[i].kind = "account_seen", l.generation <= all[i].at
      PROVE  all[i].workspace = l.account.workspace
  <2>1. i \notin DOMAIN rows
    BY <1>4 DEF Later
  <2> QED
    BY <1>4, <2>1
<1> QED
    BY <1>3, <1>4 DEF LoginTrue

\* The lines of gs are those of fs, and new ones by who is logged in.
Rewritten(fs, gs, t, l, es) ==
    \A f \in Files : \A k \in DOMAIN gs[f].lines :
        \/ \E j \in DOMAIN fs[f].lines : gs[f].lines[k] = fs[f].lines[j]
        \/ /\ gs[f].lines[k].at = t + 1
           /\ l # None /\ gs[f].lines[k].by = l.account
           /\ \/ gs[f].lines[k].stale
              \/ \A e \in OpenEpochs(es) : e.generation = l.generation

\* Epochs stay true as time passes, whoever logs in, and whatever is written
\* by who is logged in.
LEMMA EpochsLater ==
    ASSUME NEW rows, NEW all, NEW t \in Nat, Later(rows, all, t),
           NEW es, es \subseteq Epoch, NEW l \in Login \cup {None}, NEW m,
           m = None \/ m = l \/ m.generation = t + 1,
           NEW fs \in [Files -> File], NEW gs, EpochsTrue(es, t, l, rows, fs),
           Rewritten(fs, gs, t, l, es)
    PROVE  EpochsTrue(es, t + 1, m, all, gs)
<1> SUFFICES ASSUME NEW e \in es
             PROVE  IF e.observed THEN ObservedTrue(e, t + 1, m, gs) ELSE InferredTrue(e, all)
    BY DEF EpochsTrue
<1>1. e \in Epoch /\ e.from \in Nat /\ e.to \in Nat \cup {None} /\ e.observed \in BOOLEAN
    BY DEF Epoch
<1>2. CASE ~e.observed
  <2>1. e.account \in Known
        /\ \E i \in DOMAIN rows : /\ rows[i].kind = "account_seen" /\ e.from <= rows[i].at
                                  /\ rows[i].workspace = e.account.workspace
    BY <1>2 DEF EpochsTrue, InferredTrue
  <2> QED
    BY <1>2, <2>1 DEF InferredTrue, Later
<1>3. CASE e.observed
  <2>1. ObservedTrue(e, t, l, fs)
    BY <1>3 DEF EpochsTrue
  <2>2. /\ e.account \in People /\ e.generation \in Nat /\ e.generation <= e.from
        /\ FirstNow <= e.from /\ e.from <= t /\ (e.to # None => e.to <= t)
        /\ (l # None /\ e.generation = l.generation => e.account = l.account)
    BY <2>1 DEF ObservedTrue
  <2>3. m # None /\ e.generation = m.generation => e.account = m.account
    BY <1>1, <2>2
  <2>4. ASSUME NEW f \in Files, NEW k \in DOMAIN gs[f].lines, Covers(e, gs[f].lines[k].at)
        PROVE  gs[f].lines[k].stale \/ gs[f].lines[k].by = e.account
    <3> DEFINE line == gs[f].lines[k]
    <3>0. \/ \E j \in DOMAIN fs[f].lines : line = fs[f].lines[j]
          \/ /\ line.at = t + 1 /\ l # None /\ line.by = l.account
             /\ line.stale \/ \A x \in OpenEpochs(es) : x.generation = l.generation
      BY DEF Rewritten
    <3>1. CASE \E j \in DOMAIN fs[f].lines : line = fs[f].lines[j]
      BY <2>1, <2>4, <3>1 DEF ObservedTrue
    <3>2. CASE line.at = t + 1 /\ l # None /\ line.by = l.account
               /\ \A x \in OpenEpochs(es) : x.generation = l.generation
      <4>1. e.to = None
        BY <1>1, <2>2, <2>4, <3>2 DEF Covers
      <4>2. e \in OpenEpochs(es)
        BY <1>3, <4>1 DEF OpenEpochs, Observed
      <4> QED
        BY <2>2, <3>2, <4>2
    <3>3. CASE line.stale
      BY <3>3
    <3> QED
      BY <3>0, <3>1, <3>2, <3>3
  <2>5. e.from <= t + 1 /\ (e.to # None => e.to <= t + 1)
    BY <1>1, <2>2
  <2>6. ObservedTrue(e, t + 1, m, gs)
    BY <2>2, <2>3, <2>4, <2>5 DEF ObservedTrue
  <2> QED
    BY <1>3, <2>6
<1> QED
    BY <1>2, <1>3

\* A request stays true, whoever logs in.
LEMMA RequestLater ==
    ASSUME NEW r \in Request \cup {None}, NEW t \in Nat, NEW l, NEW m,
           m = None \/ m = l \/ m.generation = t + 1, RequestTrue(r, t, l)
    PROVE  RequestTrue(r, t + 1, m)
<1> SUFFICES ASSUME r # None, r.fresh # None
             PROVE  /\ r.fresh <= t + 1
                    /\ m # None /\ r.fresh = m.generation => Names(r.account, m.account)
    BY DEF RequestTrue
<1>1. r.fresh \in Nat /\ r.fresh <= t
    BY DEF RequestTrue, Request
<1> QED
    BY <1>1 DEF RequestTrue

\* All has the rows and behind them more.
Extended(rows, all, more) ==
    /\ \A i \in DOMAIN all \ DOMAIN rows : \E k \in DOMAIN more : all[i] = more[k]
    /\ \A k \in DOMAIN more : \E i \in DOMAIN all \ DOMAIN rows : all[i] = more[k]

\* Rows that are added behind the others.
LEMMA AddedLater ==
    ASSUME NEW rows, NEW t \in Nat, LogOK(rows, t), NEW more \in Seq(Marker),
           \A k \in DOMAIN more : more[k].at = t + 1,
           NEW all, all = rows \o more
    PROVE  Later(rows, all, t) /\ Extended(rows, all, more)
<1> DEFINE m == Len(rows)
           n == Len(more)
<1>1. rows \in Seq(Marker) /\ m \in Nat /\ n \in Nat /\ DOMAIN rows = 1 .. m /\ DOMAIN more = 1 .. n
    BY LenProperties DEF LogOK
<1>2. /\ DOMAIN all = 1 .. m + n
      /\ \A i \in 1 .. m + n : all[i] = IF i <= m THEN rows[i] ELSE more[i - m]
  <2>1. all \in Seq(Marker) /\ Len(all) = m + n
        /\ \A i \in 1 .. m + n : all[i] = IF i <= m THEN rows[i] ELSE more[i - m]
    BY <1>1, ConcatProperties
  <2> QED
    BY <2>1, LenProperties
<1>3. \A i \in DOMAIN rows : rows[i].at \in Nat /\ rows[i].at <= t
  <2>1. \A i \in DOMAIN rows : rows[i] \in Marker
    BY <1>1, ElementOfSeq
  <2> QED
    BY <2>1 DEF LogOK, Marker
<1> HIDE DEF m, n
<1>4. \A i \in DOMAIN all \ DOMAIN rows : i - m \in DOMAIN more /\ all[i] = more[i - m]
    BY <1>1, <1>2
<1>5. \A k \in DOMAIN more : m + k \in DOMAIN all \ DOMAIN rows /\ all[m + k] = more[k]
    BY <1>1, <1>2
<1>6. \A i \in DOMAIN rows : i \in DOMAIN all /\ all[i] = rows[i]
    BY <1>1, <1>2
<1>7. Later(rows, all, t)
    BY <1>3, <1>4, <1>6 DEF Later
<1> QED
    BY <1>4, <1>5, <1>7 DEF Extended

\* No rows are later rows, too.
LEMMA NoneLater ==
    ASSUME NEW rows, NEW t \in Nat, LogOK(rows, t)
    PROVE  Later(rows, rows, t)
<1>1. \A i \in DOMAIN rows : rows[i] \in Marker
    BY LenProperties, ElementOfSeq DEF LogOK
<1> QED
    BY <1>1 DEF Later, LogOK, Marker

\* What the world says of who was logged in, and what the ledger and a request
\* have of it.
Truth(t, l, rows, fs, es, r) ==
    WorldTrue(t, l, rows, fs) /\ EpochsTrue(es, t, l, rows, fs) /\ RequestTrue(r, t, l)

\* Somebody logs in or out.
LEMMA LoginsTrue ==
    ASSUME WorldOK, LedgerOK, request \in Request \cup {None},
           Truth(now, login, log, files, epochs, request),
           NEW all, Later(log, all, now), NEW m, m = None \/ m.generation = now + 1,
           LoginTrue(m, all, now + 1)
    PROVE  Truth(now + 1, m, all, files, epochs, request)
<1> DEFINE t == now
<1>1. /\ t \in Nat /\ login \in Login \cup {None} /\ files \in [Files -> File]
      /\ \A f \in Files : files[f].lines \in Seq(Line)
    BY DEF WorldOK, File
<1>2. epochs \subseteq Epoch
    BY DEF LedgerOK, EpochsOK
<1>3. /\ WorldTrue(t, login, log, files) /\ EpochsTrue(epochs, t, login, log, files)
      /\ RequestTrue(request, t, login)
    BY DEF Truth
<1>4. \A f \in Files : LinesTrue(files[f].lines, all, m, t + 1)
    BY <1>1, <1>3, LinesLater DEF WorldTrue
<1>5. WorldTrue(t + 1, m, all, files)
  <2>1. FirstNow <= t /\ FirstNow \in Nat
    BY <1>3, DaemonAssumption DEF WorldTrue
  <2> QED
    BY <1>1, <1>4, <2>1 DEF WorldTrue
<1>6. RequestTrue(request, t + 1, m)
    BY <1>1, <1>3, RequestLater
<1>7. EpochsTrue(epochs, t + 1, m, all, files)
  <2>1. Rewritten(files, files, t, login, epochs)
    BY DEF Rewritten
  <2> HIDE DEF t
  <2> QED
    BY <1>1, <1>2, <1>3, <2>1, EpochsLater DEF t
<1> QED
    BY <1>5, <1>6, <1>7 DEF Truth

\* Files change, and lines are written by who is logged in.
LEMMA FilesTrue ==
    ASSUME WorldOK, LedgerOK, request \in Request \cup {None},
           Truth(now, login, log, files, epochs, request),
           NEW gs, Rewritten(files, gs, now, login, epochs)
    PROVE  Truth(now + 1, login, log, gs, epochs, request)
<1> DEFINE t == now
<1>1. /\ t \in Nat /\ login \in Login \cup {None} /\ files \in [Files -> File] /\ LogOK(log, t)
      /\ \A f \in Files : files[f].lines \in Seq(Line)
    BY DEF WorldOK, File
<1>2. epochs \subseteq Epoch
    BY DEF LedgerOK, EpochsOK
<1>3. /\ WorldTrue(t, login, log, files) /\ EpochsTrue(epochs, t, login, log, files)
      /\ RequestTrue(request, t, login)
    BY DEF Truth
<1>4. Later(log, log, t)
    BY <1>1, NoneLater
<1>5. LoginTrue(login, log, t + 1)
    BY <1>1, <1>3, <1>4, LoginLater DEF WorldTrue
<1>6. ASSUME NEW f \in Files, NEW k \in DOMAIN gs[f].lines
      PROVE  LET line == gs[f].lines[k]
             IN  /\ line.by \in People /\ line.at <= t + 1 /\ Witnessed(log, line.by, line.at)
                 /\ line.at = t + 1 /\ login # None => line.by = login.account
  <2> DEFINE line == gs[f].lines[k]
  <2>3. \/ \E j \in DOMAIN files[f].lines : line = files[f].lines[j]
        \/ line.at = t + 1 /\ login # None /\ line.by = login.account
    BY DEF Rewritten
  <2>1. ASSUME NEW j \in DOMAIN files[f].lines, line = files[f].lines[j]
        PROVE  /\ line.by \in People /\ line.at <= t + 1 /\ Witnessed(log, line.by, line.at)
               /\ line.at # t + 1
    <3>1. line \in Line
      BY <1>1, <2>1, LenProperties, ElementOfSeq
    <3>2. line.at \in Nat
      BY <3>1 DEF Line
    <3>3. line.by \in People /\ line.at <= t /\ Witnessed(log, line.by, line.at)
      BY <1>3, <2>1 DEF WorldTrue, LinesTrue
    <3> QED
      BY <1>1, <3>2, <3>3
  <2>2. CASE line.at = t + 1 /\ login # None /\ line.by = login.account
    <3>1. login.account \in People /\ Witnessed(log, login.account, t + 1)
      BY <1>1, <1>5, <2>2 DEF LoginTrue, Login
    <3> QED
      BY <1>1, <2>2, <3>1
  <2> QED
    BY <2>1, <2>2, <2>3
<1>7. \A f \in Files : LinesTrue(gs[f].lines, log, login, t + 1)
    BY <1>6 DEF LinesTrue
<1>8. WorldTrue(t + 1, login, log, gs)
  <2>1. FirstNow <= t /\ FirstNow \in Nat
    BY <1>3, DaemonAssumption DEF WorldTrue
  <2> QED
    BY <1>1, <1>5, <1>7, <2>1 DEF WorldTrue
<1>9. RequestTrue(request, t + 1, login)
    BY <1>1, <1>3, RequestLater
<1>10. EpochsTrue(epochs, t + 1, login, log, gs)
  <2>1. Rewritten(files, gs, t, login, epochs)
    OBVIOUS
  <2> HIDE DEF t
  <2> QED
    BY <1>1, <1>2, <1>3, <1>4, <2>1, EpochsLater DEF t
<1> QED
    BY <1>8, <1>9, <1>10 DEF Truth

\* Only the world outside writes the log and the rollouts.
LEMMA OutsideOnly ==
    ASSUME [Next]_serviceVars
    PROVE  World \/ (now' \in {now, now + 1} /\ UNCHANGED <<login, log, files>>)
<1>1. CASE DaemonNext /\ ~World
    BY <1>1 DEF DaemonNext, Work, ObserveAuth, LinkAlias, RemapAccount, Listen, ReadMarkers, LinkHistory,
             ReplaceHistory, RefreshOfficialUsage, IngestQuotaTail, Tick, OfficialTick, ServeEnds, ClosePage, ListenFails,
             AskOfficialUsage, StoreOfficialUsage, ObserveAuthFails, Kill, DieInQuotaTail, world, Happens
<1>2. CASE ControllerNext /\ UNCHANGED <<login, log, files, ledger>>
    BY <1>2 DEF ControllerNext, OpenApp, ToggleCollection, Retry, QuitApp, BecomeHealthy, HealthTimesOut,
             HandleTermination, Happens
<1>3. CASE UNCHANGED serviceVars
    BY <1>3 DEF serviceVars, vars, world
<1> QED
    BY <1>1, <1>2, <1>3 DEF Next

\* Whatever happens outside, it stays true.
LEMMA WorldRight ==
    ASSUME TruthfulPasts, WorldOK, LedgerOK, request \in Request \cup {None},
           Truth(now, login, log, files, epochs, request), [Next]_serviceVars
    PROVE  /\ Truth(now', login', log', files', epochs, request)
           /\ World \/ (now' \in {now, now + 1} /\ UNCHANGED <<login, log, files>>)
<1>1. /\ now \in Nat /\ login \in Login \cup {None} /\ files \in [Files -> File] /\ LogOK(log, now)
      /\ log \in Seq(Marker) /\ \A f \in Files : files[f] \in File /\ files[f].lines \in Seq(Line)
    BY DEF WorldOK, File, LogOK
<1>2. FirstSample \in Nat /\ FirstNow \in Nat /\ FirstSample <= now + 1
  <2>1. FirstSample \in Nat /\ FirstNow \in Nat /\ FirstSample <= FirstNow /\ FirstNow <= now
    BY DaemonAssumption DEF TruthfulPasts, Truth, WorldTrue
  <2> QED
    BY <1>1, <2>1
<1>3. Rewritten(files, files, now, login, epochs)
    BY DEF Rewritten
<1>4. ASSUME now' \in {now, now + 1}, UNCHANGED <<login, log, files>>
      PROVE  Truth(now', login', log', files', epochs, request)
  <2>1. Truth(now + 1, login, log, files, epochs, request)
    BY <1>3, FilesTrue
  <2> QED
    BY <1>4, <2>1
<1>5. ASSUME NEW row \in Marker
      PROVE  /\ \A rows \in Seq(Marker) : Append(rows, row) = rows \o <<row>>
             /\ <<row>> \in Seq(Marker) /\ \A k \in DOMAIN <<row>> : <<row>>[k] = row
             /\ DOMAIN <<row>> # {}
    BY <1>5, AppendIsConcat
<1>6. ASSUME NEW a \in People, NEW more \in Seq(Marker), now' = now + 1, log' = log \o more,
             login' = [account |-> a, generation |-> now'], files' = files,
             NEW n \in DOMAIN more, more[n].kind = "account_seen",
             \A k \in DOMAIN more :
                /\ more[k].at = now + 1 /\ more[k].kind # "logout"
                /\ more[k].kind = "account_seen" => more[k].workspace = a.workspace
      PROVE  Truth(now', login', log', files', epochs, request)
  <2> DEFINE all == log \o more
             m == login'
  <2>1. Later(log, all, now) /\ Extended(log, all, more)
    <3>1. \A k \in DOMAIN more : more[k].at = now + 1
      BY <1>6
    <3>2. all = log \o more /\ LogOK(log, now) /\ now \in Nat
      BY <1>1
    <3> HIDE DEF all
    <3> QED
      BY <3>1, <3>2, AddedLater
  <2>2. m.generation = now + 1 /\ m.account = a
    BY <1>6
  <2>3. \A i \in DOMAIN all \ DOMAIN log :
           /\ all[i].kind # "logout"
           /\ all[i].kind = "account_seen" => all[i].workspace = m.account.workspace
    <3> TAKE i \in DOMAIN all \ DOMAIN log
    <3>1. PICK k \in DOMAIN more : all[i] = more[k]
      BY <2>1 DEF Extended
    <3>2. more[k].kind # "logout" /\ (more[k].kind = "account_seen" => more[k].workspace = a.workspace)
      BY <1>6
    <3> HIDE DEF all, m
    <3> QED
      BY <3>1, <3>2, <2>2
  <2>4. PICK i \in DOMAIN all \ DOMAIN log : all[i].kind = "account_seen"
    <3>1. PICK i \in DOMAIN all \ DOMAIN log : all[i] = more[n]
      BY <2>1 DEF Extended
    <3> QED
      BY <1>6, <3>1
  <2> HIDE DEF all, m
  <2>5. LoginTrue(m, all, now + 1)
    BY <1>1, <1>2, <2>1, <2>2, <2>3, <2>4, LoginShown
  <2>6. Truth(now + 1, m, all, files, epochs, request)
    BY <2>1, <2>2, <2>5, LoginsTrue
  <2> QED
    BY <1>6, <2>6 DEF all, m
<1>7. ASSUME NEW a \in People, LogIn(a) PROVE Truth(now', login', log', files', epochs, request)
  <2> DEFINE first == Row("login_success", None)
             second == Row("account_seen", a.workspace)
             more == <<first, second>>
             n == 2
  <2>1. a.workspace \in Workspaces
    BY DaemonAssumption DEF Identity
  <2>2. now' = now + 1 /\ log' = log \o more /\ files' = files
        /\ login' = [account |-> a, generation |-> now']
    BY <1>7 DEF LogIn, Happens
  <2>3. /\ first \in Marker /\ second \in Marker /\ first.at = now + 1 /\ second.at = now + 1
        /\ first.kind = "login_success" /\ second.kind = "account_seen"
        /\ second.workspace = a.workspace
    BY <1>1, <2>1, <2>2 DEF Row, Marker
  <2> HIDE DEF first, second
  <2>4. /\ more \in Seq(Marker) /\ n \in DOMAIN more /\ more[n].kind = "account_seen"
        /\ \A k \in DOMAIN more :
              /\ more[k].at = now + 1 /\ more[k].kind # "logout"
              /\ more[k].kind = "account_seen" => more[k].workspace = a.workspace
    BY <2>3
  <2> HIDE DEF more, n
  <2> QED
    BY <1>6, <2>2, <2>4
<1>8. ASSUME NEW a \in People, SwapAuth(a) PROVE Truth(now', login', log', files', epochs, request)
  <2> DEFINE row == Row("account_seen", a.workspace)
             more == <<row>>
             n == 1
  <2>1. a.workspace \in Workspaces
    BY DaemonAssumption DEF Identity
  <2>2. now' = now + 1 /\ log' = Append(log, row) /\ files' = files
        /\ login' = [account |-> a, generation |-> now']
    BY <1>8 DEF SwapAuth, Happens
  <2>3. /\ row \in Marker /\ row.at = now + 1 /\ row.kind = "account_seen"
        /\ row.workspace = a.workspace
    BY <1>1, <2>1, <2>2 DEF Row, Marker
  <2> HIDE DEF row
  <2>4. log' = log \o more
    BY <1>1, <1>5, <2>2, <2>3
  <2>5. /\ more \in Seq(Marker) /\ n \in DOMAIN more /\ more[n].kind = "account_seen"
        /\ \A k \in DOMAIN more :
              /\ more[k].at = now + 1 /\ more[k].kind # "logout"
              /\ more[k].kind = "account_seen" => more[k].workspace = a.workspace
    BY <2>3
  <2> HIDE DEF more, n
  <2> QED
    BY <1>6, <2>2, <2>4, <2>5
<1>9. ASSUME LogOut PROVE Truth(now', login', log', files', epochs, request)
  <2> DEFINE row == Row("logout", None)
             more == <<row>>
             all == log \o more
             m == None
  <2>1. now' = now + 1 /\ log' = Append(log, row) /\ files' = files /\ login' = m
    BY <1>9 DEF LogOut, Happens
  <2>2. row \in Marker /\ row.at = now + 1
    BY <1>1, <2>1 DEF Row, Marker
  <2> HIDE DEF row
  <2>3. log' = all /\ more \in Seq(Marker) /\ \A k \in DOMAIN more : more[k].at = now + 1
    BY <1>1, <1>5, <2>1, <2>2
  <2> HIDE DEF more
  <2>4. Later(log, all, now)
    BY <1>1, <2>3, AddedLater
  <2>5. LoginTrue(m, all, now + 1) /\ m = None
    BY DEF LoginTrue
  <2> HIDE DEF m, all
  <2>6. Truth(now + 1, m, all, files, epochs, request)
    BY <2>4, <2>5, LoginsTrue
  <2> QED
    BY <2>1, <2>3, <2>6
<1>10. ASSUME now' = now + 1, UNCHANGED <<login, log>>, NEW f \in Files, NEW new,
              files' = [files EXCEPT ![f] = new],
              \A k \in DOMAIN new.lines :
                 \/ \E j \in DOMAIN files[f].lines : new.lines[k] = files[f].lines[j]
                 \/ /\ new.lines[k].at = now + 1
                    /\ login # None /\ new.lines[k].by = login.account
                    /\ \/ new.lines[k].stale
                       \/ \A e \in OpenEpochs(epochs) : e.generation = login.generation
       PROVE  Truth(now', login', log', files', epochs, request)
  <2> DEFINE gs == files'
  <2>1. gs[f] = new /\ \A g \in Files : g # f => gs[g] = files[g]
    BY <1>1, <1>10
  <2> HIDE DEF gs
  <2>2. Rewritten(files, gs, now, login, epochs)
    BY <1>10, <2>1 DEF Rewritten
  <2>3. Truth(now + 1, login, log, gs, epochs, request)
    BY <2>2, FilesTrue
  <2> QED
    BY <1>10, <2>3 DEF gs
<1>11. ASSUME NEW f \in Files, NEW v \in Values, WriteLine(f, v)
       PROVE  Truth(now', login', log', files', epochs, request)
  <2> DEFINE old == files[f].lines
             line == [at |-> now', value |-> v, by |-> login.account, stale |-> Stale]
             lines == Append(old, line)
             new == [files[f] EXCEPT !.lines = lines]
  <2>1. now' = now + 1 /\ UNCHANGED <<login, log>> /\ login # None /\ files' = [files EXCEPT ![f] = new]
    BY <1>11 DEF WriteLine, Happens
  <2>2. line.at = now + 1 /\ line.by = login.account
        /\ (line.stale \/ \A e \in OpenEpochs(epochs) : e.generation = login.generation)
    BY <2>1 DEF Stale
  <2>3. files[f] \in File /\ old \in Seq(Line)
    BY <1>1
  <2> HIDE DEF line, old
  <2>4. new.lines = lines
    BY <2>3 DEF File
  <2> HIDE DEF new
  <2>5. \A k \in DOMAIN lines : (k \in DOMAIN old /\ lines[k] = old[k]) \/ lines[k] = line
    BY <2>3, LenProperties
  <2> HIDE DEF lines
  <2>6. \A k \in DOMAIN new.lines :
           \/ \E j \in DOMAIN old : new.lines[k] = old[j]
           \/ new.lines[k] = line
    BY <2>4, <2>5
  <2>7. \A k \in DOMAIN new.lines :
           \/ \E j \in DOMAIN files[f].lines : new.lines[k] = files[f].lines[j]
           \/ /\ new.lines[k].at = now + 1
              /\ login # None /\ new.lines[k].by = login.account
              /\ \/ new.lines[k].stale
                 \/ \A e \in OpenEpochs(epochs) : e.generation = login.generation
    BY <2>1, <2>2, <2>6 DEF old
  <2> QED
    BY <1>10, <2>1, <2>7
<1>12. ASSUME NEW f \in Files, CutFile(f) PROVE Truth(now', login', log', files', epochs, request)
  <2> DEFINE old == files[f].lines
             cut == Front(old)
             new == [files[f] EXCEPT !.lines = cut]
  <2>1. now' = now + 1 /\ UNCHANGED <<login, log>> /\ files' = [files EXCEPT ![f] = new]
    BY <1>12 DEF CutFile, Happens
  <2>2. files[f] \in File /\ old \in Seq(Line)
    BY <1>1
  <2> HIDE DEF old
  <2>3. new.lines = cut
    BY <2>2 DEF File
  <2> HIDE DEF new
  <2>4. \A k \in DOMAIN cut : k \in DOMAIN old /\ cut[k] = old[k]
    <3>1. Len(old) \in Nat /\ DOMAIN old = 1 .. Len(old)
      BY <2>2, LenProperties
    <3>2. cut = [k \in 1 .. Len(old) - 1 |-> old[k]]
      BY <3>1 DEF Front
    <3> QED
      BY <3>1, <3>2
  <2> HIDE DEF cut
  <2>5. \A k \in DOMAIN new.lines : \E j \in DOMAIN files[f].lines : new.lines[k] = files[f].lines[j]
    BY <2>3, <2>4 DEF old
  <2> QED
    BY <1>10, <2>1, <2>5
<1>13. ASSUME NEW f \in Files, ReplaceFile(f) PROVE Truth(now', login', log', files', epochs, request)
  <2> DEFINE new == [files[f] EXCEPT !.id = @ + 1]
  <2>1. now' = now + 1 /\ UNCHANGED <<login, log>> /\ files' = [files EXCEPT ![f] = new]
    BY <1>13 DEF ReplaceFile, Happens
  <2>2. new.lines = files[f].lines
    BY <1>1 DEF File
  <2> HIDE DEF new
  <2>3. \A k \in DOMAIN new.lines : \E j \in DOMAIN files[f].lines : new.lines[k] = files[f].lines[j]
    BY <2>2
  <2> QED
    BY <1>10, <2>1, <2>3
<1>14. CASE World
    BY <1>7, <1>8, <1>9, <1>11, <1>12, <1>13, <1>14 DEF World
<1>15. World \/ (now' \in {now, now + 1} /\ UNCHANGED <<login, log, files>>)
    BY OutsideOnly
<1> QED
    BY <1>4, <1>14, <1>15

-----------------------------------------------------------------------------
(* What the process makes of it. *)

\* Who is known for a workspace is its person or nobody in particular.
LEMMA KnownNames ==
    ASSUME OnePersonPerWorkspace, NEW x \in Known, NEW a \in People, x.workspace = a.workspace
    PROVE  Names(x, a)
<1>1. CASE x \in People
    BY <1>1 DEF OnePersonPerWorkspace, Names
<1>2. ASSUME NEW w \in Workspaces, x = Provisional(w) PROVE x = Provisional(a.workspace)
  <2>1. x.workspace = w
    BY <1>2 DEF Provisional
  <2> QED
    BY <1>2, <2>1
<1> QED
    BY <1>1, <1>2 DEF Known, Names

\* The accounts of epochs are known.
LEMMA AccountsKnown ==
    ASSUME NEW es, NEW t, NEW l, NEW rows, NEW fs, EpochsTrue(es, t, l, rows, fs)
    PROVE  \A e \in es : e.account \in Known
  BY DEF EpochsTrue, ObservedTrue, InferredTrue, Known

\* An epoch that is closed now covers less.
LEMMA CloseTrue ==
    ASSUME NEW es, es \subseteq Epoch, NEW t \in Nat, NEW l, NEW rows, NEW fs,
           EpochsTrue(es, t, l, rows, fs)
    PROVE  EpochsTrue(CloseCurrentAuthEpoch(es, t), t, l, rows, fs)
<1> DEFINE C(e) == IF e \in OpenEpochs(es) THEN [e EXCEPT !.to = t] ELSE e
<1>1. CloseCurrentAuthEpoch(es, t) = {C(e) : e \in es}
    BY DEF CloseCurrentAuthEpoch
<1>2. ASSUME NEW e \in es
      PROVE  IF C(e).observed THEN ObservedTrue(C(e), t, l, fs) ELSE InferredTrue(C(e), rows)
  <2>1. IF e.observed THEN ObservedTrue(e, t, l, fs) ELSE InferredTrue(e, rows)
    BY DEF EpochsTrue
  <2>2. CASE e \notin OpenEpochs(es)
    BY <2>1, <2>2
  <2>3. CASE e \in OpenEpochs(es)
    <3> DEFINE c == [e EXCEPT !.to = t]
    <3>1. e.observed /\ e.to = None
      BY <2>3 DEF OpenEpochs, Observed
    <3>2. C(e) = c
      BY <2>3
    <3>3. /\ c.from = e.from /\ c.account = e.account /\ c.generation = e.generation
          /\ c.observed = e.observed /\ c.to = t
      BY DEF Epoch
    <3> HIDE DEF c
    <3>4. \A at : Covers(c, at) => Covers(e, at)
      BY <3>1, <3>3 DEF Covers
    <3>5. ObservedTrue(c, t, l, fs)
      BY <2>1, <3>1, <3>3, <3>4 DEF ObservedTrue
    <3> QED
      BY <3>1, <3>2, <3>3, <3>5
  <2> QED
    BY <2>2, <2>3
<1> HIDE DEF C
<1> QED
    BY <1>1, <1>2 DEF EpochsTrue

\* The epoch of a login that is observed is the login's.
LEMMA AppendTrue ==
    ASSUME NEW es, es \subseteq Epoch, NEW t \in Nat, NEW l \in Login, l # None, NEW rows,
           NEW fs \in [Files -> File], WorldTrue(t, l, rows, fs), EpochsTrue(es, t, l, rows, fs)
    PROVE  EpochsTrue(AppendAuthEpoch(es, l, t), t, l, rows, fs)
<1> DEFINE own == [from |-> t, to |-> None, account |-> l.account,
                   generation |-> l.generation, observed |-> TRUE,
                   verified |-> l.account \in Consistent]
           closed == CloseCurrentAuthEpoch(es, t)
<1>1. AppendAuthEpoch(es, l, t) = es \/ AppendAuthEpoch(es, l, t) = closed \cup {own}
    BY DEF AppendAuthEpoch
<1>2. EpochsTrue(closed, t, l, rows, fs)
    BY CloseTrue
<1>3. /\ own.from = t /\ own.to = None /\ own.account = l.account
      /\ own.generation = l.generation /\ own.observed
    OBVIOUS
<1> HIDE DEF own, closed
<1>4. /\ l # None /\ l.account \in People /\ l.generation \in Nat /\ l.generation <= t /\ FirstNow <= t
    BY DEF WorldTrue, LoginTrue, Login
<1>5. ASSUME NEW f \in Files, NEW k \in DOMAIN fs[f].lines, Covers(own, fs[f].lines[k].at)
      PROVE  fs[f].lines[k].by = own.account
  <2> DEFINE line == fs[f].lines[k]
  <2>1. line \in Line
    <3>1. fs[f].lines \in Seq(Line)
      BY DEF File
    <3> QED
      BY <3>1, LenProperties, ElementOfSeq
  <2>2. line.at \in Nat /\ t <= line.at
    BY <1>3, <1>5, <2>1 DEF Line, Covers
  <2>3. line.at <= t /\ (line.at = t /\ l # None => line.by = l.account)
    BY DEF WorldTrue, LinesTrue
  <2> QED
    BY <1>3, <1>4, <2>2, <2>3
<1>6. ObservedTrue(own, t, l, fs)
    BY <1>3, <1>4, <1>5 DEF ObservedTrue
<1> QED
    BY <1>1, <1>2, <1>3, <1>6 DEF EpochsTrue

\* A merge takes over the epochs of no other person.
LEMMA RemapTrue ==
    ASSUME OnePersonPerWorkspace, NEW es, es \subseteq Epoch, NEW t, NEW l, NEW rows, NEW fs,
           EpochsTrue(es, t, l, rows, fs), NEW old \in Fingerprint, NEW new \in People, old # new,
           old.workspace = new.workspace
    PROVE  EpochsTrue(RemapEpochs(es, old, new), t, l, rows, fs)
<1> DEFINE M(e) == [e EXCEPT !.account = IF @ = old THEN new ELSE @]
<1>1. RemapEpochs(es, old, new) = {M(e) : e \in es}
    BY DEF RemapEpochs
<1>2. ASSUME NEW e \in es
      PROVE  IF M(e).observed THEN ObservedTrue(M(e), t, l, fs) ELSE InferredTrue(M(e), rows)
  <2>1. IF e.observed THEN ObservedTrue(e, t, l, fs) ELSE InferredTrue(e, rows)
    BY DEF EpochsTrue
  <2>2. CASE e.account # old
    <3>1. M(e) = e
      BY <2>2 DEF Epoch
    <3> QED
      BY <2>1, <3>1
  <2>3. CASE e.account = old
    <3>1. ~e.observed
      BY <2>1, <2>3 DEF ObservedTrue, OnePersonPerWorkspace
    <3>2. M(e).from = e.from /\ M(e).account = new /\ M(e).observed = e.observed
      BY <2>3 DEF Epoch
    <3> HIDE DEF M
    <3>3. InferredTrue(M(e), rows)
      BY <2>1, <2>3, <3>1, <3>2 DEF InferredTrue, Known
    <3> QED
      BY <3>1, <3>2, <3>3
  <2> QED
    BY <2>2, <2>3
<1> HIDE DEF M
<1> QED
    BY <1>1, <1>2 DEF EpochsTrue

\* The imported rows are rows of the log.
LEMMA MarkersAre ==
    ASSUME WorldOK, LedgerOK
    PROVE  /\ DOMAIN Markers = 1 .. imported /\ 1 .. imported \subseteq DOMAIN log
           /\ \A i \in 1 .. imported : Markers[i] = log[i]
<1> DEFINE n == Len(log)
           k == imported
           rows == SubSeq(log, 1, k)
<1>1. n \in Nat /\ k \in 0 .. n /\ log \in Seq(Marker) /\ DOMAIN log = 1 .. n
    BY LenProperties DEF WorldOK, LogOK, LedgerOK
<1>2. rows = [i \in 1 .. k |-> log[i]]
  <2>1. rows = [i \in 1 .. (k - 1) + 1 |-> log[(i + 1) - 1]]
    BY <1>1
  <2> QED
    BY <1>1, <2>1
<1>3. Markers = rows
    BY DEF Markers
<1> HIDE DEF n, rows
<1> QED
    BY <1>1, <1>2, <1>3

\* Inferred epochs have the accounts that their workspaces are linked to.
LEMMA ReplaceTrue ==
    ASSUME WorldOK, LedgerOK, AliasTrue(alias), EpochsTrue(epochs, now, login, log, files),
           \A e \in InferEpochs(Markers, FirstSample) : alias[e.workspace] # None
    PROVE  LET found == InferEpochs(Markers, FirstSample)
           IN  EpochsTrue(ReplaceHistoricalAuthEpochs(epochs, HistoryRows(found, alias)),
                          now, login, log, files)
<1> DEFINE found == InferEpochs(Markers, FirstSample)
           R(e) == [from |-> e.from, to |-> e.to, account |-> alias[e.workspace].account,
                    generation |-> None, observed |-> FALSE,
                    verified |-> FALSE]
           rows == {R(e) : e \in found}
           new == Observed(epochs) \cup rows
<1>1. ReplaceHistoricalAuthEpochs(epochs, HistoryRows(found, alias)) = new
    BY DEF ReplaceHistoricalAuthEpochs, HistoryRows
<1>2. LogOK(Markers, now) /\ found \subseteq WorkspaceEpoch /\ now \in Nat
    BY MarkersType DEF WorldOK
<1>3. DOMAIN Markers = 1 .. imported /\ 1 .. imported \subseteq DOMAIN log
      /\ \A i \in 1 .. imported : Markers[i] = log[i]
    BY MarkersAre
<1>4. ASSUME NEW e \in found PROVE ~R(e).observed /\ InferredTrue(R(e), log)
  <2> DEFINE row == R(e)
             w == e.workspace
             all == Markers
  <2>1. w \in Workspaces /\ alias[w] # None
    BY <1>2 DEF WorkspaceEpoch
  <2>2. alias[w].account \in Known /\ alias[w].account.workspace = w
    BY <2>1 DEF AliasTrue, LedgerOK, AliasOK
  <2>3. row.from = e.from /\ row.account = alias[w].account /\ ~row.observed
    OBVIOUS
  <2>4. PICK win \in Windows(all, FirstSample) :
           \E m \in SeenIn(all, win) : m.workspace = w /\ e.from <= m.at
    <3> HIDE DEF all
    <3>1. LogOK(all, now) /\ e \in InferEpochs(all, FirstSample)
      BY <1>2 DEF all
    <3> QED
      BY <1>2, <3>1, InferredWindow
  <2>5. PICK i \in DOMAIN all : all[i].kind = "account_seen" /\ all[i].workspace = w /\ e.from <= all[i].at
    BY <2>4 DEF SeenIn
  <2>6. i \in DOMAIN log /\ log[i] = all[i]
    BY <1>3, <2>5
  <2> HIDE DEF row
  <2>7. InferredTrue(row, log)
    BY <2>2, <2>3, <2>5, <2>6 DEF InferredTrue
  <2> QED
    BY <2>3, <2>7 DEF row
<1> HIDE DEF R, found
<1>5. ASSUME NEW n \in new
      PROVE  IF n.observed THEN ObservedTrue(n, now, login, files) ELSE InferredTrue(n, log)
  <2>1. CASE n \in Observed(epochs)
    BY <2>1 DEF Observed, EpochsTrue
  <2>2. CASE n \in rows
    BY <1>4, <2>2
  <2> QED
    BY <2>1, <2>2
<1>6. EpochsTrue(new, now, login, log, files)
    BY <1>5 DEF EpochsTrue
<1> QED
    BY <1>1, <1>6 DEF found

\* Who writes what.
LEMMA Writers ==
    ASSUME [Next]_serviceVars
    PROVE  /\ \/ epochs' = epochs
              \/ (ObserveAuth \/ RemapAccount \/ ReplaceHistory) /\ UNCHANGED world
           /\ alias' = alias \/ LinkAlias \/ RemapAccount \/ LinkHistory
           /\ quota' = quota \/ \E f \in Files : IngestQuotaTail(f) \/ DieInQuotaTail(f)
           /\ official' = official \/ RefreshOfficialUsage \/ StoreOfficialUsage
           /\ request' = request \/ request' = None \/ AskOfficialUsage
<1>1. CASE DaemonNext
  <2>1. CASE World
    BY <2>1 DEF World, LogIn, LogOut, SwapAuth, WriteLine, CutFile, ReplaceFile, ledger
  <2>2. CASE Work
    BY <2>2 DEF Work, ObserveAuth, LinkAlias, RemapAccount, Listen, ReadMarkers, LinkHistory,
             ReplaceHistory, RefreshOfficialUsage, IngestQuotaTail, ledger
  <2>3. CASE ~World /\ ~Work
    BY <1>1, <2>3 DEF DaemonNext, Tick, OfficialTick, ServeEnds, ClosePage, ListenFails, AskOfficialUsage, StoreOfficialUsage,
             ObserveAuthFails, Kill, Die, DieInQuotaTail, ledger
  <2> QED
    BY <2>1, <2>2, <2>3
<1>2. CASE ControllerNext /\ UNCHANGED <<login, log, files, ledger>>
    BY <1>2 DEF ControllerNext, OpenApp, ToggleCollection, Retry, QuitApp, BecomeHealthy, HealthTimesOut,
             HandleTermination, Transition, Terminated, Die, ledger
<1>3. CASE UNCHANGED serviceVars
    BY <1>3 DEF serviceVars, vars, ledger
<1> QED
    BY <1>1, <1>2, <1>3 DEF Next

\* What every step of the process starts from and leads to.
Around ==
    /\ IInv /\ IInv' /\ RightInv
    /\ [Next]_serviceVars
    /\ Truth(now', login', log', files', epochs, request)

\* Every epoch stays true.
LEMMA EpochsRight ==
    ASSUME OnePersonPerWorkspace, Around
    PROVE  EpochsTrue(epochs', now', login', log', files')
<1>1. /\ WorldOK /\ LedgerOK /\ WorkOK /\ epochs \subseteq Epoch /\ now \in Nat
      /\ login \in Login \cup {None} /\ files \in [Files -> File]
    BY DEF Around, IInv, WorldOK, LedgerOK, EpochsOK
<1>2. /\ WorldTrue(now, login, log, files) /\ EpochsTrue(epochs, now, login, log, files)
      /\ AliasTrue(alias) /\ [Next]_serviceVars
    BY DEF Around, RightInv
<1>3. CASE epochs' = epochs
    BY <1>3 DEF Around, Truth
<1>4. ASSUME ObserveAuth PROVE EpochsTrue(epochs', now, login, log, files)
  <2>1. \/ epochs' = CloseCurrentAuthEpoch(epochs, now)
        \/ login # None /\ epochs' = AppendAuthEpoch(epochs, login, now)
    BY <1>4 DEF ObserveAuth
  <2> QED
    BY <1>1, <1>2, <2>1, CloseTrue, AppendTrue
<1>5. ASSUME RemapAccount PROVE EpochsTrue(epochs', now, login, log, files)
  <2> DEFINE old == proc.old
             a == proc.read
  <2>1. epochs' = RemapEpochs(epochs, old, a) /\ Doing("merge") /\ "merge" \in Steps
    BY <1>5 DEF RemapAccount, Steps
  <2>2. Upcoming(proc) = "merge" /\ ReadOK(proc, alias)
    BY <1>1, <2>1, DoingUpcoming DEF WorkOK, ProcessOK
  <2>3. a \in People /\ old \in Fingerprint /\ old # a /\ old.workspace = a.workspace
    BY <2>2 DEF ReadOK
  <2> HIDE DEF a, old
  <2> QED
    BY <1>1, <1>2, <2>1, <2>3, RemapTrue
<1>6. ASSUME ReplaceHistory PROVE EpochsTrue(epochs', now, login, log, files)
  <2>1. /\ epochs' = ReplaceHistoricalAuthEpochs(epochs, HistoryRows(InferEpochs(Markers, FirstSample), alias))
        /\ Doing("replace") /\ "replace" \in Steps
    BY <1>6 DEF ReplaceHistory, Steps
  <2>2. Upcoming(proc) = "replace" /\ Settled(proc, epochs, alias, Markers, torn)
    BY <1>1, <2>1, DoingUpcoming DEF WorkOK, ProcessOK
  <2>3. \A e \in InferEpochs(Markers, FirstSample) : alias[e.workspace] # None
    BY <2>2 DEF Settled
  <2> QED
    BY <1>1, <1>2, <2>1, <2>3, ReplaceTrue
<1>7. epochs' = epochs \/ ((ObserveAuth \/ RemapAccount \/ ReplaceHistory) /\ UNCHANGED world)
    BY <1>2, Writers
<1>8. CASE (ObserveAuth \/ RemapAccount \/ ReplaceHistory) /\ UNCHANGED world
  <2>1. now' = now /\ login' = login /\ log' = log /\ files' = files
    BY <1>8 DEF world
  <2>2. EpochsTrue(epochs', now, login, log, files)
    BY <1>4, <1>5, <1>6, <1>8
  <2> QED
    BY <2>1, <2>2
<1> QED
    BY <1>3, <1>7, <1>8

\* Workspaces are linked to who is known.
LEMMA AliasRight ==
    ASSUME Around
    PROVE  AliasTrue(alias')
<1>1. /\ WorldOK /\ LedgerOK /\ WorkOK /\ AliasOK(alias) /\ now + FirstSample \in Nat
      /\ EpochsOK(epochs, now + FirstSample)
    BY DaemonAssumption DEF Around, IInv, LedgerOK, WorldOK
<1>2. AliasTrue(alias) /\ [Next]_serviceVars /\ EpochsTrue(epochs, now, login, log, files)
    BY DEF Around, RightInv
<1>3. CASE alias' = alias
    BY <1>2, <1>3
<1>4. CASE LinkAlias
  <2> DEFINE a == proc.read
             w == a.workspace
             c == TRUE
             new == UpsertAlias(alias, w, a, c)
  <2>1. alias' = new /\ Doing("alias") /\ "alias" \in Steps
    BY <1>4 DEF LinkAlias, Steps
  <2>2. Upcoming(proc) = "alias" /\ ReadOK(proc, alias)
    BY <1>1, <2>1, DoingUpcoming DEF WorkOK, ProcessOK
  <2>3. a \in People
    BY <2>2 DEF ReadOK
  <2>4. a \in Fingerprint /\ w \in Workspaces /\ a.workspace = w /\ c \in BOOLEAN
    BY <2>3, DaemonAssumption, FingerprintType
  <2> HIDE DEF w, a, c
  <2>5. /\ new[w].account \in {a, alias[w].account}
        /\ alias[w] = None => new[w].account = a
        /\ \A v \in Workspaces : v # w => new[v] = alias[v]
    BY <1>1, <2>4, UpsertType
  <2> HIDE DEF new
  <2> QED
    BY <1>2, <2>1, <2>3, <2>4, <2>5 DEF AliasTrue, Known
<1>5. CASE RemapAccount
  <2> DEFINE old == proc.old
             a == proc.read
             row == [account |-> a, canonical |-> TRUE]
  <2>1. alias' = RemapAliases(alias, old, a) /\ Doing("merge") /\ "merge" \in Steps
    BY <1>5 DEF RemapAccount, Steps
  <2>2. Upcoming(proc) = "merge" /\ ReadOK(proc, alias)
    BY <1>1, <2>1, DoingUpcoming DEF WorkOK, ProcessOK
  <2>3. a \in People
    BY <2>2 DEF ReadOK
  <2>4. \A v \in Workspaces : alias'[v] \in {row, alias[v]}
    BY <2>1 DEF RemapAliases
  <2>5. row.account = a
    OBVIOUS
  <2> HIDE DEF row, a
  <2> QED
    BY <1>2, <2>3, <2>4, <2>5 DEF AliasTrue, Known
<1>6. CASE LinkHistory
  <2> DEFINE found == InferEpochs(Markers, FirstSample)
             new == AliasesFor(found, alias, epochs)
  <2>1. alias' = new
    BY <1>6 DEF LinkHistory
  <2>2. found \subseteq WorkspaceEpoch
    BY <1>1, MarkersType
  <2>3. \A e \in epochs : e.account \in Known
    BY <1>2, AccountsKnown
  <2> HIDE DEF found
  <2>4. \A w \in Workspaces :
           \/ new[w] = alias[w]
           \/ /\ new[w] # None
              /\ \/ alias[w] # None /\ new[w].account = alias[w].account
                 \/ alias[w] = None /\ new[w].account = Provisional(w)
                 \/ \E e \in epochs : e.account = new[w].account
    BY <1>1, <2>2, AliasesKept
  <2> HIDE DEF new
  <2> QED
    BY <1>2, <2>1, <2>3, <2>4 DEF AliasTrue, Known
<1> QED
    BY <1>2, <1>3, <1>4, <1>5, <1>6, Writers

\* A process that is bound as before, or not bound, or ended.
Linking == {"alias", "merge"}
Harmless(q, p) ==
    \/ ~q.alive
    \/ q.binding = None /\ Upcoming(q) \notin Linking
    \/ /\ p.alive /\ q.binding = p.binding
       /\ Upcoming(p) \notin Linking /\ Upcoming(q) \notin Linking
    \/ /\ p.alive /\ q.binding = p.binding /\ q.read = p.read /\ Upcoming(q) = Upcoming(p)

\* Such a process is bound to the open epoch's account as before.
LEMMA HarmlessBinding ==
    ASSUME NEW p, NEW q, NEW es, Harmless(q, p), BindingTrue(p, es)
    PROVE  BindingTrue(q, es)
  BY DEF Harmless, BindingTrue, Linking

\* A process that ends, that starts, or whose server or page ends.
LEMMA EndsHarmless ==
    /\ \A p : Harmless(Dead, p)
    /\ \A mode \in Modes : \A p : Harmless(Started(mode), p)
    /\ proc \in Process => (Terminated \/ ClosePage => Harmless(proc', proc))
<1>1. \A p : Harmless(Dead, p)
    BY DeadOK DEF Harmless
<1>2. \A mode \in Modes : \A p : Harmless(Started(mode), p)
    BY DeadOK DEF Harmless, Linking
<1>3. ASSUME NEW p, NEW q, q.alive = p.alive, q.todo = p.todo, q.binding = p.binding, q.read = p.read
      PROVE  Harmless(q, p)
    BY <1>3 DEF Harmless, Upcoming
<1>4. ASSUME proc \in Process, Terminated PROVE Harmless(proc', proc)
  <2>1. proc' = Dead \/ \E held : proc' = [proc EXCEPT !.http = FALSE, !.held = held]
    BY <1>4 DEF Terminated, Die
  <2>2. CASE proc' = Dead
    BY <1>1, <2>2
  <2>3. ASSUME NEW held, proc' = [proc EXCEPT !.http = FALSE, !.held = held]
        PROVE  /\ proc'.alive = proc.alive /\ proc'.todo = proc.todo
               /\ proc'.binding = proc.binding /\ proc'.read = proc.read
    BY <1>4, <2>3 DEF Process
  <2> QED
    BY <1>3, <2>1, <2>2, <2>3
<1>5. ASSUME proc \in Process, ClosePage PROVE Harmless(proc', proc)
  <2>1. proc' = [proc EXCEPT !.held = FALSE]
    BY <1>5 DEF ClosePage
  <2>2. /\ proc'.alive = proc.alive /\ proc'.todo = proc.todo
        /\ proc'.binding = proc.binding /\ proc'.read = proc.read
    BY <1>5, <2>1 DEF Process
  <2> QED
    BY <1>3, <2>2
<1> QED
    BY <1>1, <1>2, <1>4, <1>5

\* A process that goes on after a step that is no link is bound as before.
LEMMA GoesOnHarmless ==
    ASSUME NEW p, ProcessOK(p), p.alive, p.todo # <<>>, p.todo[1] \notin Linking,
           NEW p2 \in Process, p2.alive = p.alive, p2.todo = p.todo, p2.binding = p.binding,
           NEW more \in More, more # <<>> => more[1] \notin Linking /\ p.todo[1] # "infer"
    PROVE  Harmless(Continue(p2, more), p)
<1> DEFINE q == Continue(p2, more)
<1>1. ProcessOK(p2) /\ p2.alive /\ p2.todo # <<>>
    BY DEF ProcessOK
<1>2. /\ SameBut(q, p2)
      /\ more # <<>> => Upcoming(q) = more[1]
      /\ more = <<>> => Upcoming(q) = "replace" \/ Upcoming(q) \notin InnerSteps
    BY <1>1, ContinueKeeps
<1> HIDE DEF q
<1>3. Upcoming(q) \notin Linking
    BY <1>2 DEF Linking, InnerSteps
<1>4. Upcoming(p) \notin Linking
    BY DEF Upcoming
<1> QED
    BY <1>2, <1>3, <1>4 DEF Harmless, SameBut, q

\* Every step but an observation, a link and a merge leaves the binding.
LEMMA StepsHarmless ==
    ASSUME IInv, IInv', [Next]_serviceVars
    PROVE  Harmless(proc', proc) \/ ObserveAuth \/ LinkAlias \/ RemapAccount
<1> DEFINE p == proc
           q == proc'
<1>1. ProcessOK(p) /\ p \in Process /\ q \in Process /\ ProcessOK(q)
    BY DEF IInv, WorkOK, ProcessOK
<1>2. \A step \in Steps : Doing(step) => p.alive /\ p.todo # <<>> /\ p.todo[1] = step
  <2>1. "none" \notin Steps
    BY DEF Steps
  <2> QED
    BY <1>1, <2>1, DoingUpcoming
<1>3. ASSUME NEW x \in Process, NEW y \in Process, y = x PROVE Harmless(y, x)
    BY <1>3 DEF Harmless
<1>4. q = p => Harmless(q, p)
    BY <1>1, <1>3
<1>5. ASSUME NEW step \in Steps, Doing(step), step \notin Linking,
             NEW p2 \in Process, p2.alive = p.alive, p2.todo = p.todo, p2.binding = p.binding,
             NEW more \in More, more # <<>> => more[1] \notin Linking /\ step # "infer",
             q = Continue(p2, more)
      PROVE  Harmless(q, p)
  <2>1. p.alive /\ p.todo # <<>> /\ p.todo[1] = step
    BY <1>2, <1>5
  <2> HIDE DEF p, q
  <2> QED
    BY <1>1, <1>5, <2>1, GoesOnHarmless
<1>6. ASSUME NEW step \in Steps, Doing(step), step \notin Linking, q = Continue(p, <<>>)
      PROVE  Harmless(q, p)
  <2> DEFINE more == <<>>
  <2>1. more \in More /\ more = <<>>
    BY DEF More
  <2> HIDE DEF more
  <2>2. q = Continue(p, more)
    BY <1>6 DEF more
  <2> QED
    BY <1>1, <1>5, <1>6, <2>1, <2>2
<1>7. {"epoch", "listen", "markers", "infer", "replace", "official", "quota"} \subseteq Steps \ Linking
    BY DEF Steps, Linking
<1>8. ASSUME Listen PROVE Harmless(q, p)
  <2> DEFINE p2 == [p EXCEPT !.http = TRUE, !.handles = TRUE]
             more == <<>>
  <2>1. Doing("listen") /\ q = Continue(p2, more)
    BY <1>8 DEF Listen
  <2>2. p2 \in Process /\ p2.alive = p.alive /\ p2.todo = p.todo /\ p2.binding = p.binding
    BY <1>1 DEF Process
  <2>3. more \in More /\ more = <<>>
    BY DEF More
  <2> HIDE DEF more, p2
  <2> QED
    BY <1>5, <1>7, <2>1, <2>2, <2>3
<1>9. ASSUME ReadMarkers PROVE Harmless(q, p)
  <2> DEFINE more == IF imported' = imported /\ Historical(epochs) # {} THEN <<>> ELSE <<"infer", "replace">>
  <2>1. Doing("markers") /\ q = Continue(p, more)
    BY <1>9 DEF ReadMarkers
  <2>2. more \in More /\ (more # <<>> => more[1] = "infer")
    BY DEF More
  <2> HIDE DEF more
  <2>3. more # <<>> => more[1] \notin Linking /\ "markers" # "infer"
    BY <2>2 DEF Linking
  <2> QED
    BY <1>1, <1>5, <1>7, <2>1, <2>2, <2>3
<1>10. ASSUME NEW f \in Files, IngestQuotaTail(f) PROVE Harmless(q, p)
  <2> DEFINE p2 == [p EXCEPT !.left = @ \ {f}]
             more == <<>>
  <2>1. /\ Doing("quota")
        /\ q = Dead \/ q = (IF p2.left = {} THEN Continue(p2, more) ELSE p2)
    BY <1>10 DEF IngestQuotaTail, FileRead
  <2>2. /\ p2 \in Process /\ p2.alive = p.alive /\ p2.todo = p.todo /\ p2.binding = p.binding
        /\ p2.read = p.read
    BY <1>1 DEF Process
  <2>3. more \in More /\ more = <<>>
    BY DEF More
  <2> HIDE DEF more, p2
  <2>4. CASE q = Continue(p2, more)
    BY <1>5, <1>7, <2>1, <2>2, <2>3, <2>4
  <2>5. CASE q = p2
    <3>1. p.alive
      BY <1>2, <1>7, <2>1
    <3> HIDE DEF p, q
    <3> QED
      BY <2>2, <2>5, <3>1 DEF Harmless, Upcoming
  <2> QED
    BY <2>1, <2>4, <2>5, EndsHarmless
<1>11. ASSUME Idle, q \in Process, q.binding = p.binding,
              \A i \in DOMAIN q.todo : q.todo[i] \notin InnerSteps
       PROVE  Harmless(q, p)
  <2>1. Upcoming(p) = "none" /\ p.alive
    BY <1>1, <1>11, DoingUpcoming DEF Idle
  <2> HIDE DEF p, q
  <2>2. Upcoming(q) \notin InnerSteps
    BY <1>11, TodoOK
  <2> QED
    BY <1>11, <2>1, <2>2 DEF Harmless, Linking, InnerSteps
<1>12. ASSUME Tick PROVE Harmless(q, p)
  <2> DEFINE ticks == (p.ticks + 1) % ObserveEvery
             before == IF ticks = 0 THEN <<"epoch", "markers">> ELSE <<>>
             own == IF p.mode = "daemon" THEN <<"quota">> ELSE <<>>
             todo == before \o own
  <2>1. Idle /\ q = [Waited(p) EXCEPT !.ticks = ticks, !.left = Files, !.todo = todo]
    BY <1>12 DEF Tick
  <2> HIDE DEF ticks
  <2>2. \A i \in DOMAIN todo : todo[i] \notin InnerSteps
    BY TickTodo
  <2> HIDE DEF todo
  <2>3. Waited(p) \in Process /\ Waited(p).binding = p.binding
    BY <1>1, WaitedKeeps
  <2>4. q.todo = todo /\ q.binding = p.binding
    BY <2>1, <2>3 DEF Process
  <2> QED
    BY <1>1, <1>11, <2>1, <2>2, <2>4
<1>13. ASSUME OfficialTick PROVE Harmless(q, p)
  <2> DEFINE todo == <<"official">>
  <2>1. Idle /\ q = [Waited(p) EXCEPT !.todo = todo]
    BY <1>13 DEF OfficialTick
  <2>2. \A i \in DOMAIN todo : todo[i] \notin InnerSteps
    BY DEF InnerSteps
  <2> HIDE DEF todo
  <2>3. Waited(p) \in Process /\ Waited(p).binding = p.binding
    BY <1>1, WaitedKeeps
  <2>4. q.todo = todo /\ q.binding = p.binding
    BY <2>1, <2>3 DEF Process
  <2> QED
    BY <1>1, <1>11, <2>1, <2>2, <2>4
<1>14. ASSUME ObserveAuthFails \/ ListenFails PROVE Harmless(q, p)
    BY <1>6, <1>7, <1>14, EndsHarmless DEF ObserveAuthFails, ListenFails
<1>15. ASSUME NEW mode \in Modes, NEW c, Launch(c, mode) PROVE Harmless(q, p)
    BY <1>4, <1>15, EndsHarmless DEF Launch
<1>16. ASSUME NEW mode \in Modes, Transition(mode) PROVE Harmless(q, p)
    BY <1>1, <1>4, <1>15, <1>16, EndsHarmless DEF Transition
<1>17. CASE DaemonNext
  <2>1. CASE World
    BY <1>4, <2>1 DEF World, LogIn, LogOut, SwapAuth, WriteLine, CutFile, ReplaceFile
  <2>2. CASE LinkHistory \/ ReplaceHistory \/ RefreshOfficialUsage
    BY <1>6, <1>7, <2>2 DEF LinkHistory, ReplaceHistory, RefreshOfficialUsage
  <2>3. CASE ServeEnds \/ Kill \/ \E f \in Files : DieInQuotaTail(f)
    BY <2>3, EndsHarmless DEF ServeEnds, Kill, Die, DieInQuotaTail
  <2>5. CASE ClosePage
    BY <1>1, <2>5, EndsHarmless
  <2>4. CASE AskOfficialUsage \/ StoreOfficialUsage
    BY <1>4, <2>4 DEF AskOfficialUsage, StoreOfficialUsage
  <2> QED
    BY <1>8, <1>9, <1>10, <1>12, <1>13, <1>14, <1>17, <2>1, <2>2, <2>3, <2>4, <2>5
       DEF DaemonNext, Work
<1>18. \A on : Preferred(on) \in Modes
    BY DEF Preferred, Modes
<1>19. CASE ControllerNext
  <2>1. CASE OpenApp
    BY <1>15, <1>18, <2>1 DEF OpenApp
  <2>2. CASE ToggleCollection \/ Retry
    BY <1>16, <1>18, <2>2 DEF ToggleCollection, Retry
  <2>3. CASE QuitApp
    BY <1>4, <2>3, EndsHarmless DEF QuitApp, Die
  <2>4. CASE BecomeHealthy
    BY <1>4, <2>4 DEF BecomeHealthy
  <2>5. CASE HealthTimesOut
    BY <1>1, <2>5, EndsHarmless DEF HealthTimesOut
  <2>6. CASE HandleTermination
    <3>1. ctl.pending # None => ctl.pending \in Modes
      BY DEF IInv, ControlOK, Controller
    <3> QED
      BY <1>4, <1>15, <2>6, <3>1 DEF HandleTermination
  <2> QED
    BY <1>19, <2>1, <2>2, <2>3, <2>4, <2>5, <2>6 DEF ControllerNext
<1>20. CASE UNCHANGED serviceVars
    BY <1>4, <1>20 DEF serviceVars, vars
<1> QED
    BY <1>17, <1>19, <1>20 DEF Next

\* The epoch that is open once a login is observed is the login's.
LEMMA AppendOpen ==
    ASSUME NEW es, NEW bound, EpochsOK(es, bound), NEW t \in Nat, NEW l, l # None, NEW rows, NEW fs,
           EpochsTrue(es, t, l, rows, fs)
    PROVE  \A e \in OpenEpochs(AppendAuthEpoch(es, l, t)) : e.account = l.account
<1> DEFINE own == [from |-> t, to |-> None, account |-> l.account,
                   generation |-> l.generation, observed |-> TRUE,
                   verified |-> l.account \in Consistent]
           closed == CloseCurrentAuthEpoch(es, t)
<1>1. CASE \E e \in OpenEpochs(es) : e.generation = l.generation
  <2>1. PICK e \in OpenEpochs(es) : e.generation = l.generation
    BY <1>1
  <2>2. AppendAuthEpoch(es, l, t) = es
    BY <1>1 DEF AppendAuthEpoch
  <2>3. \A f \in OpenEpochs(es) : f = e
    BY DEF EpochsOK
  <2>4. ObservedTrue(e, t, l, fs)
    BY DEF EpochsTrue, OpenEpochs, Observed
  <2> QED
    BY <2>1, <2>2, <2>3, <2>4 DEF ObservedTrue
<1>2. CASE ~(\E e \in OpenEpochs(es) : e.generation = l.generation)
  <2>1. AppendAuthEpoch(es, l, t) = closed \cup {own}
    BY <1>2 DEF AppendAuthEpoch
  <2>2. OpenEpochs(closed) = {}
    BY CloseKeeps
  <2>3. own.account = l.account
    OBVIOUS
  <2> HIDE DEF own, closed
  <2> QED
    BY <2>1, <2>2, <2>3 DEF OpenEpochs, Observed
<1> QED
    BY <1>1, <1>2

\* An observation and the links that follow it bind the account of the open epoch.
LEMMA ObservedBinding ==
    ASSUME Around, ObserveAuth
    PROVE  BindingTrue(proc', epochs')
<1> DEFINE p == proc
           q == proc'
<1>1. /\ WorldOK /\ EpochsOK(epochs, now + FirstSample) /\ now \in Nat
      /\ ProcessOK(p) /\ p \in Process /\ EpochsTrue(epochs, now, login, log, files)
    BY DEF Around, IInv, WorldOK, LedgerOK, WorkOK, ProcessOK, RightInv
<1>2. p.alive /\ p.todo # <<>> /\ p.todo[1] = "epoch"
  <2>1. Doing("epoch") /\ "epoch" \in Steps /\ "none" \notin Steps
    BY DEF ObserveAuth, Steps
  <2> QED
    BY <1>1, <2>1, DoingUpcoming
<1>3. CASE login = None
  <2> DEFINE x == None
  <2>1. q = Bound(p, x)
    BY <1>3 DEF ObserveAuth
  <2>2. x \in Fingerprint \cup {None} /\ x = None
    OBVIOUS
  <2> HIDE DEF x
  <2>3. Upcoming(Bound(p, x)) \notin InnerSteps /\ Bound(p, x).binding = x
    BY <1>1, <1>2, <2>2, BoundKeeps
  <2> HIDE DEF p, q
  <2>4. Upcoming(q) \notin InnerSteps /\ q.binding = None
    BY <2>1, <2>2, <2>3
  <2>5. BindingTrue(q, epochs')
    BY <2>4 DEF BindingTrue, InnerSteps
  <2> QED
    BY <2>5 DEF q
<1>4. CASE login # None
  <2> DEFINE a == login.account
             p2 == [p EXCEPT !.read = a]
             more == <<"alias">>
  <2>1. epochs' = AppendAuthEpoch(epochs, login, now) /\ q = Continue(p2, more)
    BY <1>4 DEF ObserveAuth
  <2>2. a \in Fingerprint \cup {None}
    BY <1>1, <1>4, DaemonAssumption DEF WorldOK, Login, Fingerprint
  <2>3. p2 \in Process /\ p2.read = a /\ p2.alive = p.alive /\ p2.todo = p.todo
    BY <1>1, <2>2 DEF Process
  <2>4. ProcessOK(p2) /\ p2.alive /\ p2.todo # <<>> /\ p2.todo[1] # "infer"
    BY <1>1, <1>2, <2>3 DEF ProcessOK
  <2>5. more \in More /\ more # <<>> /\ more[1] = "alias"
    BY DEF More
  <2> HIDE DEF p2, more, a
  <2>6. SameBut(q, p2) /\ Upcoming(q) = "alias"
    BY <2>1, <2>4, <2>5, ContinueKeeps
  <2>7. \A e \in OpenEpochs(epochs') : e.account = a
    <3> DEFINE b == now + FirstSample
               l == login
    <3>1. EpochsOK(epochs, b) /\ l # None /\ EpochsTrue(epochs, now, l, log, files)
      BY <1>1, <1>4
    <3> HIDE DEF b, l
    <3>2. \A e \in OpenEpochs(AppendAuthEpoch(epochs, l, now)) : e.account = l.account
      BY <1>1, <3>1, AppendOpen
    <3> QED
      BY <2>1, <3>2 DEF a, l
  <2> HIDE DEF p, q
  <2>8. BindingTrue(q, epochs')
    BY <2>3, <2>6, <2>7 DEF BindingTrue, SameBut
  <2> QED
    BY <2>8 DEF q
<1> QED
    BY <1>3, <1>4

\* The account that is linked is bound, or merged next.
LEMMA LinkedBinding ==
    ASSUME Around, LinkAlias
    PROVE  BindingTrue(proc', epochs')
<1> DEFINE p == proc
           q == proc'
           a == p.read
           old == ReplacedAccount(alias, a.workspace, a)
           p2 == [p EXCEPT !.old = old]
           more == <<"merge">>
<1>1. ProcessOK(p) /\ p \in Process /\ AliasOK(alias) /\ ReadOK(p, alias) /\ BindingTrue(p, epochs)
    BY DEF Around, IInv, LedgerOK, WorkOK, ProcessOK, RightInv
<1>2. p.alive /\ p.todo # <<>> /\ p.todo[1] = "alias" /\ Upcoming(p) = "alias"
  <2>1. Doing("alias") /\ "alias" \in Steps /\ "none" \notin Steps
    BY DEF LinkAlias, Steps
  <2> QED
    BY <1>1, <2>1, DoingUpcoming
<1>3. /\ a \in People /\ a \in Fingerprint
      /\ \A e \in OpenEpochs(epochs) : e.account = a
  <2>1. a \in People
    BY <1>1, <1>2 DEF ReadOK
  <2>2. a \in Fingerprint
    BY <2>1, DaemonAssumption, FingerprintType
  <2> QED
    BY <1>1, <1>2, <2>1, <2>2 DEF BindingTrue
<1>4. epochs' = epochs /\ (q = Bound(p, a) \/ q = Continue(p2, more))
    BY DEF LinkAlias
<1>5. CASE q = Bound(p, a)
  <2> HIDE DEF p, q, a
  <2>1. Upcoming(q) \notin InnerSteps /\ q.binding = a
    BY <1>1, <1>2, <1>3, <1>5, BoundKeeps
  <2>2. BindingTrue(q, epochs)
    BY <1>3, <2>1 DEF BindingTrue, InnerSteps
  <2> QED
    BY <1>4, <2>2 DEF q
<1>6. CASE q = Continue(p2, more)
  <2>1. old \in Fingerprint \cup {None}
    <3>1. a.workspace \in Workspaces
      BY <1>3, FingerprintType
    <3> QED
      BY <3>1, <1>1 DEF ReplacedAccount, AliasOK, Alias
  <2>2. p2 \in Process /\ p2.read = a /\ p2.alive = p.alive /\ p2.todo = p.todo
    BY <1>1, <2>1 DEF Process
  <2>3. ProcessOK(p2) /\ p2.alive /\ p2.todo # <<>> /\ p2.todo[1] # "infer"
    BY <1>1, <1>2, <2>2 DEF ProcessOK
  <2>4. more \in More /\ more # <<>> /\ more[1] = "merge"
    BY DEF More
  <2> HIDE DEF p2, more, a
  <2>5. SameBut(q, p2) /\ Upcoming(q) = "merge"
    BY <1>6, <2>3, <2>4, ContinueKeeps
  <2> HIDE DEF p, q
  <2>6. BindingTrue(q, epochs)
    BY <1>3, <2>2, <2>5 DEF BindingTrue, SameBut
  <2> QED
    BY <1>4, <2>6 DEF q
<1> QED
    BY <1>4, <1>5, <1>6

\* The account that another one was merged into is bound.
LEMMA MergedBinding ==
    ASSUME Around, RemapAccount
    PROVE  BindingTrue(proc', epochs')
<1> DEFINE p == proc
           q == proc'
           a == p.read
           old == p.old
           M(e) == [e EXCEPT !.account = IF @ = old THEN a ELSE @]
<1>1. ProcessOK(p) /\ p \in Process /\ ReadOK(p, alias) /\ BindingTrue(p, epochs) /\ epochs \subseteq Epoch
    BY DEF Around, IInv, LedgerOK, EpochsOK, WorkOK, ProcessOK, RightInv
<1>2. p.alive /\ p.todo # <<>> /\ p.todo[1] = "merge" /\ Upcoming(p) = "merge"
  <2>1. Doing("merge") /\ "merge" \in Steps /\ "none" \notin Steps
    BY DEF RemapAccount, Steps
  <2> QED
    BY <1>1, <2>1, DoingUpcoming
<1>3. /\ a \in Fingerprint
      /\ \A e \in OpenEpochs(epochs) : e.account = a
  <2>1. a \in People
    BY <1>1, <1>2 DEF ReadOK
  <2>2. a \in Fingerprint
    BY <2>1, DaemonAssumption, FingerprintType
  <2> QED
    BY <1>1, <1>2, <2>1, <2>2 DEF BindingTrue
<1>4. epochs' = {M(e) : e \in epochs} /\ q = Bound(p, a)
    BY DEF RemapAccount, RemapEpochs
<1>5. ASSUME NEW r \in OpenEpochs(epochs') PROVE r.account = a
  <2>1. r \in epochs' /\ r.observed /\ r.to = None
    BY <1>5 DEF OpenEpochs, Observed
  <2>2. PICK e \in epochs : r = M(e)
    BY <1>4, <2>1
  <2>3. e \in Epoch
    BY <1>1
  <2>4. /\ M(e).observed = e.observed /\ M(e).to = e.to
        /\ M(e).account = IF e.account = old THEN a ELSE e.account
    BY <2>3 DEF Epoch
  <2> HIDE DEF M
  <2>5. e \in OpenEpochs(epochs)
    BY <2>1, <2>2, <2>4 DEF OpenEpochs, Observed
  <2> QED
    BY <1>3, <2>2, <2>4, <2>5
<1> HIDE DEF p, q, a, M
<1>6. Upcoming(q) \notin InnerSteps /\ q.binding = a
    BY <1>1, <1>2, <1>3, <1>4, BoundKeeps
<1>7. BindingTrue(q, epochs')
    BY <1>5, <1>6 DEF BindingTrue, InnerSteps
<1> QED
    BY <1>7 DEF q

\* The process is bound to the account of the open epoch.
LEMMA BindingRight ==
    ASSUME Around
    PROVE  BindingTrue(proc', epochs')
<1>1. BindingTrue(proc, epochs) /\ IInv /\ IInv' /\ [Next]_serviceVars
    BY DEF Around, RightInv
<1>2. CASE Harmless(proc', proc) /\ ~ObserveAuth /\ ~RemapAccount
  <2>1. OpenEpochs(epochs') = OpenEpochs(epochs)
    <3>1. CASE epochs' = epochs
      BY <3>1
    <3>2. CASE ReplaceHistory
      <4> DEFINE found == InferEpochs(Markers, FirstSample)
      <4>1. epochs' = Observed(epochs) \cup HistoryRows(found, alias)
        BY <3>2 DEF ReplaceHistory, ReplaceHistoricalAuthEpochs
      <4>2. \A row \in HistoryRows(found, alias) : ~row.observed
        BY DEF HistoryRows
      <4> HIDE DEF found
      <4> QED
        BY <4>1, <4>2 DEF OpenEpochs, Observed
    <3> QED
      BY <1>1, <1>2, <3>1, <3>2, Writers
  <2>2. BindingTrue(proc', epochs)
    BY <1>1, <1>2, HarmlessBinding
  <2> QED
    BY <2>1, <2>2 DEF BindingTrue
<1> QED
    BY <1>1, <1>2, StepsHarmless, ObservedBinding, LinkedBinding, MergedBinding

\* Where the ledger knows the login, the open epoch that began last is its.
LEMMA ActiveNames ==
    ASSUME OnePersonPerWorkspace, IInv, RightInv, Fresh
    PROVE  /\ login # None /\ login.generation <= now
           /\ \E e \in OpenEpochs(epochs) : e.account = login.account
           /\ Names(ActiveAccount(epochs), login.account)
<1>1. /\ WorldOK /\ EpochsOK(epochs, now + FirstSample) /\ now + FirstSample \in Nat
      /\ LoginTrue(login, log, now) /\ EpochsTrue(epochs, now, login, log, files)
    BY DaemonAssumption DEF IInv, WorldOK, LedgerOK, RightInv, WorldTrue
<1>2. PICK e0 \in OpenEpochs(epochs) : login # None /\ e0.generation = login.generation
    BY DEF Fresh
<1>3. login \in Login /\ login.generation \in Nat /\ login.generation <= now /\ login.account \in People
    BY <1>1, <1>2 DEF WorldOK, Login, LoginTrue
<1>4. e0 \in epochs /\ e0.to = None /\ ObservedTrue(e0, now, login, files)
    BY <1>1 DEF OpenEpochs, Observed, EpochsTrue
<1>5. e0.account = login.account /\ login.generation <= e0.from /\ FirstNow <= e0.from
    BY <1>2, <1>4 DEF ObservedTrue
<1> DEFINE open == {e \in epochs : e.to = None}
           e == Latest(open)
<1>6. ActiveAccount(epochs) = e.account
    BY <1>4 DEF ActiveAccount
<1>7. e \in open /\ e0.from <= e.from
  <2> DEFINE S == open
             b == now + FirstSample
  <2>1. e0 \in S
    BY <1>4
  <2>2. b \in Nat /\ \A x \in S : x.from \in Nat /\ x.from <= b
    BY <1>1 DEF EpochsOK, Epoch
  <2> HIDE DEF open, b
  <2> QED
    BY <2>1, <2>2, LatestIn
<1> HIDE DEF e
<1>8. CASE e.observed
  <2>1. e \in OpenEpochs(epochs)
    BY <1>7, <1>8 DEF OpenEpochs, Observed
  <2>2. e = e0
    BY <1>1, <2>1 DEF EpochsOK
  <2> QED
    BY <1>2, <1>3, <1>5, <1>6, <2>2 DEF Names
<1>9. CASE ~e.observed
  <2>1. InferredTrue(e, log)
    BY <1>1, <1>7, <1>9 DEF EpochsTrue
  <2>2. PICK i \in DOMAIN log : /\ log[i].kind = "account_seen" /\ e.from <= log[i].at
                                /\ log[i].workspace = e.account.workspace
    BY <2>1 DEF InferredTrue
  <2>3. log[i].at \in Nat
    <3>1. log[i] \in Marker
      BY <1>1, LenProperties DEF WorldOK, LogOK
    <3> QED
      BY <3>1 DEF Marker
  <2>4. e.from \in Nat /\ e0.from \in Nat /\ FirstNow \in Nat
    BY <1>1, <1>4, <1>7, DaemonAssumption DEF EpochsOK, Epoch
  <2>5. login.generation <= log[i].at /\ FirstNow <= log[i].at
    BY <1>3, <1>5, <1>7, <2>2, <2>3, <2>4
  <2>6. e.account.workspace = login.account.workspace
    BY <1>1, <1>2, <2>2, <2>5 DEF LoginTrue
  <2>7. Names(e.account, login.account)
    BY <1>3, <2>1, <2>6, KnownNames DEF InferredTrue
  <2> QED
    BY <1>2, <1>3, <1>5, <1>6, <2>7
<1> QED
    BY <1>8, <1>9

\* A request that is answered by the login it was made for is answered rightly.
LEMMA RequestRight ==
    ASSUME OnePersonPerWorkspace, Around
    PROVE  RequestTrue(request', now', login')
<1>1. [Next]_serviceVars /\ RequestTrue(request, now', login')
    BY DEF Around, Truth
<1>2. CASE request' = request
    BY <1>1, <1>2
<1>3. CASE request' = None
    BY <1>3 DEF RequestTrue
<1>4. CASE AskOfficialUsage
  <2> DEFINE account == ActiveAccount(epochs)
             fresh == IF Fresh THEN login.generation ELSE None
             r == [account |-> account, fresh |-> fresh]
  <2>1. request' = r /\ now' = now /\ login' = login
    BY <1>4 DEF AskOfficialUsage, world
  <2>2. r.account = account /\ r.fresh = fresh
    OBVIOUS
  <2>3. fresh # None => Fresh /\ fresh = login.generation
    OBVIOUS
  <2> HIDE DEF account, fresh, r
  <2>4. Fresh => login.generation <= now /\ Names(account, login.account)
    BY ActiveNames DEF Around, account
  <2>5. RequestTrue(r, now, login)
    BY <2>2, <2>3, <2>4 DEF RequestTrue
  <2> QED
    BY <2>1, <2>5
<1> QED
    BY <1>1, <1>2, <1>3, <1>4, Writers

\* A row that is made of a line is filed rightly, or in doubt.
LEMMA RowRight ==
    ASSUME OnePersonPerWorkspace, IInv, RightInv, Doing("quota"),
           NEW f \in Files, NEW j \in 1 .. Len(files[f].lines),
           EpochAt(epochs, files[f].lines[j].at) # None, ~Doubtful(files[f].lines[j])
    PROVE  Names(EpochAt(epochs, files[f].lines[j].at).account, files[f].lines[j].by)
<1> DEFINE line == files[f].lines[j]
           a == line.by
           t == line.at
           e == EpochAt(epochs, t)
           b == now + FirstSample
<1>1. /\ WorldOK /\ LedgerOK /\ EpochsOK(epochs, b) /\ b \in Nat /\ proc \in Process
      /\ WorldTrue(now, login, log, files) /\ EpochsTrue(epochs, now, login, log, files)
      /\ Settled(proc, epochs, alias, Markers, torn) /\ now \in Nat
    BY DaemonAssumption DEF IInv, WorldOK, LedgerOK, WorkOK, ProcessOK, RightInv
<1>2. j \in DOMAIN files[f].lines /\ line \in Line
  <2>1. files[f].lines \in Seq(Line)
    BY <1>1 DEF WorldOK, File
  <2> QED
    BY <2>1, LenProperties, ElementOfSeq
<1>3. t \in Nat /\ a \in People /\ Witnessed(log, a, t)
    BY <1>1, <1>2 DEF WorldTrue, LinesTrue, Line
<1>4. e \in epochs /\ Covers(e, t)
  <2> HIDE DEF b, t
  <2>1. EpochAt(epochs, t) # None
    BY DEF t
  <2> QED
    BY <1>1, <2>1, EpochAtIn
<1>5. /\ ~line.stale /\ "history" \notin torn
      /\ \A i \in imported + 1 .. Len(log) : ~(log[i].at <= t)
    BY DEF Doubtful
<1> HIDE DEF e
<1>6. CASE e.observed
  <2>1. ObservedTrue(e, now, login, files)
    BY <1>1, <1>4, <1>6 DEF EpochsTrue
  <2>2. line.by = e.account
    BY <1>2, <1>4, <1>5, <2>1 DEF ObservedTrue
  <2> QED
    BY <2>2 DEF Names, e
<1>7. CASE ~e.observed
  <2> DEFINE rows == Markers
             x == [from |-> e.from, to |-> e.to, workspace |-> e.account.workspace]
  <2>1. e.account \in Known
    BY <1>1, <1>4, <1>7 DEF EpochsTrue, InferredTrue
  <2>2. InferEpochs(rows, FirstSample) = WorkspaceEpochs(epochs)
    <3>1. Upcoming(proc) = "quota"
      BY <1>1, DoingUpcoming DEF Steps
    <3> QED
      BY <1>1, <1>5, <3>1 DEF Settled
  <2>3. x \in InferEpochs(rows, FirstSample)
    BY <1>4, <1>7, <2>2 DEF WorkspaceEpochs, Historical, Observed
  <2>4. x.from = e.from /\ x.to = e.to /\ x.workspace = e.account.workspace
    OBVIOUS
  <2>5. /\ DOMAIN rows = 1 .. imported /\ 1 .. imported \subseteq DOMAIN log
        /\ \A i \in 1 .. imported : rows[i] = log[i]
    BY <1>1, MarkersAre
  <2>6. LogOK(rows, now)
    BY <1>1, MarkersType
  <2> HIDE DEF x, rows, a, t
  <2>7. Covers(x, t)
    BY <1>4, <2>4 DEF Covers
  <2>8. Witnessed(rows, a, t)
    <3>1. PICK i \in DOMAIN log :
             /\ log[i].kind = "account_seen" /\ log[i].workspace = a.workspace
             /\ FirstSample <= log[i].at /\ log[i].at <= t
             /\ \A k \in DOMAIN log :
                   log[k].kind = "logout" => log[k].at <= log[i].at \/ t < log[k].at
      BY <1>3 DEF Witnessed
    <3>2. i \in 1 .. imported
      <4>1. DOMAIN log = 1 .. Len(log) /\ Len(log) \in Nat /\ imported \in Nat
        BY <1>1, LenProperties DEF WorldOK, LogOK, LedgerOK
      <4> QED
        BY <1>5, <3>1, <4>1 DEF t
    <3>3. i \in DOMAIN rows /\ rows[i] = log[i]
      BY <2>5, <3>2
    <3>4. \A k \in DOMAIN rows :
             rows[k].kind = "logout" => rows[k].at <= rows[i].at \/ t < rows[k].at
      BY <2>5, <3>1, <3>3
    <3> QED
      BY <3>1, <3>3, <3>4 DEF Witnessed
  <2>9. x.workspace = a.workspace
    BY <1>1, <1>3, <2>3, <2>6, <2>7, <2>8, InferredRight
  <2>10. Names(e.account, a)
    BY <1>3, <2>1, <2>4, <2>9, KnownNames
  <2> QED
    BY <2>10 DEF e, a, t
<1> QED
    BY <1>6, <1>7

\* What is filed of a rollout is filed rightly.
LEMMA QuotaRight ==
    ASSUME OnePersonPerWorkspace, Around
    PROVE  \A i \in DOMAIN quota' : quota'[i].doubt \/ Names(quota'[i].account, quota'[i].by)
<1>1. /\ IInv /\ RightInv /\ [Next]_serviceVars /\ WorldOK /\ LedgerOK
      /\ \A i \in DOMAIN quota : quota[i].doubt \/ Names(quota[i].account, quota[i].by)
    BY DEF Around, IInv, RightInv, FiledRightly
<1>2. CASE quota' = quota
    BY <1>1, <1>2
<1>3. ASSUME NEW f \in Files, IngestQuotaTail(f) \/ DieInQuotaTail(f), quota' # quota
      PROVE  Doing("quota") /\ FiledFrom(f, quota')
  <2> DEFINE all == LinesOf(f)
  <2>1. /\ Doing("quota")
        /\ \/ quota' = FileLines(quota, epochs, all, Doubtful)
           \/ \E n \in 1 .. Len(all) : quota' = FileLines(quota, epochs, SubSeq(all, 1, n), Doubtful)
    BY <1>3 DEF IngestQuotaTail, DieInQuotaTail
  <2>2. LinesFrom(f, all) /\ \A n \in 1 .. Len(all) : LinesFrom(f, SubSeq(all, 1, n))
    BY <1>1, LinesOfType
  <2> HIDE DEF all
  <2>3. CASE quota' = FileLines(quota, epochs, all, Doubtful)
    BY <1>1, <2>1, <2>2, <2>3, LinesFiled
  <2>4. ASSUME NEW n \in 1 .. Len(all), quota' = FileLines(quota, epochs, SubSeq(all, 1, n), Doubtful)
        PROVE  FiledFrom(f, quota')
    <3> DEFINE some == SubSeq(all, 1, n)
    <3>1. LinesFrom(f, some)
      BY <2>2
    <3> HIDE DEF some
    <3>2. FiledFrom(f, FileLines(quota, epochs, some, Doubtful))
      BY <1>1, <3>1, LinesFiled
    <3> QED
      BY <2>4, <3>2 DEF some
  <2> QED
    BY <2>1, <2>3, <2>4
<1>4. ASSUME NEW f \in Files, IngestQuotaTail(f) \/ DieInQuotaTail(f), quota' # quota,
             NEW i \in DOMAIN quota'
      PROVE  quota'[i].doubt \/ Names(quota'[i].account, quota'[i].by)
  <2> DEFINE new == quota'
  <2>1. Doing("quota") /\ FiledFrom(f, new)
    BY <1>3, <1>4
  <2>2. CASE i \in DOMAIN quota /\ new[i] = quota[i]
    BY <1>1, <2>2
  <2>3. ASSUME NEW j \in 1 .. Len(files[f].lines), EpochAt(epochs, files[f].lines[j].at) # None,
               new[i] = RowOf(epochs, files[f].lines[j], Doubtful(files[f].lines[j]))
        PROVE  new[i].doubt \/ Names(new[i].account, new[i].by)
    <3> DEFINE line == files[f].lines[j]
               d == Doubtful(line)
    <3>1. new[i].doubt = d /\ new[i].account = EpochAt(epochs, line.at).account /\ new[i].by = line.by
      BY <2>3 DEF RowOf
    <3>2. ~d => Names(EpochAt(epochs, line.at).account, line.by)
      BY <1>1, <2>1, <2>3, RowRight
    <3> HIDE DEF line, d, new
    <3> QED
      BY <3>1, <3>2
  <2> HIDE DEF new
  <2>4. new[i].doubt \/ Names(new[i].account, new[i].by)
    BY <1>4, <2>1, <2>2, <2>3 DEF FiledFrom, new
  <2> QED
    BY <2>4 DEF new
<1> QED
    BY <1>1, <1>2, <1>4, Writers

\* What is answered is stored for who answered.
LEMMA OfficialRight ==
    ASSUME OnePersonPerWorkspace, Around
    PROVE  \A x \in Fingerprint : official'[x] # None => Names(x, official'[x])
<1>1. /\ IInv /\ RightInv /\ [Next]_serviceVars /\ official \in [Fingerprint -> Identity \cup {None}]
      /\ \A x \in Fingerprint : official[x] # None => Names(x, official[x])
      /\ RequestTrue(request, now, login) /\ BindingTrue(proc, epochs) /\ proc \in Process
      /\ login \in Login \cup {None}
    BY DEF Around, IInv, WorldOK, LedgerOK, WorkOK, ProcessOK, RightInv, FiledRightly
<1>2. CASE official' = official
    BY <1>1, <1>2
<1>3. ASSUME NEW x, NEW fresh \in BOOLEAN, official' = [official EXCEPT ![x] = Answer(fresh)],
             fresh => Names(x, login.account), NEW y \in Fingerprint, official'[y] # None
      PROVE  Names(y, official'[y])
  <2> DEFINE z == Answer(fresh)
  <2>1. z = IF fresh THEN login.account ELSE None
    BY DEF Answer
  <2> HIDE DEF z
  <2>2. official'[y] = IF y = x THEN z ELSE official[y]
    BY <1>1, <1>3 DEF z
  <2> QED
    BY <1>1, <1>3, <2>1, <2>2
<1>4. CASE RefreshOfficialUsage
  <2> DEFINE x == proc.binding
             fresh == Fresh
  <2>1. /\ Doing("official") /\ "official" \in Steps
        /\ \/ official' = official
           \/ x # None /\ official' = [official EXCEPT ![x] = Answer(fresh)]
    BY <1>4 DEF RefreshOfficialUsage, Steps
  <2>2. Upcoming(proc) = "official" /\ proc.alive
    BY <1>1, <2>1, DoingUpcoming DEF Doing
  <2>3. fresh \in BOOLEAN
    BY DEF Fresh
  <2>4. x # None /\ fresh => Names(x, login.account)
    <3>1. ASSUME x # None, fresh PROVE x = login.account
      <4>1. PICK e \in OpenEpochs(epochs) : e.account = login.account
        BY <1>1, <3>1, ActiveNames
      <4> QED
        BY <1>1, <2>2, <3>1, <4>1 DEF BindingTrue
    <3> QED
      BY <3>1 DEF Names
  <2> HIDE DEF x, fresh
  <2> QED
    BY <1>1, <1>3, <2>1, <2>3, <2>4
<1>5. CASE StoreOfficialUsage
  <2> DEFINE x == request.account
             fresh == request.fresh = login.generation
  <2>1. /\ request # None
        /\ \/ official' = official
           \/ login # None /\ official' = [official EXCEPT ![x] = Answer(fresh)]
    BY <1>5 DEF StoreOfficialUsage
  <2>2. fresh \in BOOLEAN
    OBVIOUS
  <2>3. login # None /\ fresh => Names(x, login.account)
    <3>1. login # None => login.generation # None
      BY <1>1, DaemonAssumption DEF Login
    <3> QED
      BY <1>1, <2>1, <3>1 DEF RequestTrue
  <2> HIDE DEF x, fresh
  <2> QED
    BY <1>1, <1>3, <2>1, <2>2, <2>3
<1> QED
    BY <1>1, <1>2, <1>4, <1>5, Writers

-----------------------------------------------------------------------------
(* The invariant. *)

\* Before the app is first opened the world is as the pasts say.
LEMMA InitRight ==
    ASSUME TruthfulPasts, Init
    PROVE  RightInv
<1>1. PICK past \in Pasts : /\ login = past.login /\ log = past.log
                            /\ files = [f \in Files |-> [id |-> 0, lines |-> past.lines]]
    BY DEF Init, DaemonInit
<1>2. /\ now = FirstNow /\ epochs = {} /\ alias = [w \in Workspaces |-> None] /\ quota = <<>>
      /\ official = [a \in Fingerprint |-> None] /\ proc = Dead /\ request = None
      /\ FirstNow \in Nat
    BY DaemonAssumption DEF Init, DaemonInit
<1>3. WorldTrue(now, login, log, files)
  <2>1. \A f \in Files : files[f].lines = past.lines
    BY <1>1
  <2>2. LinesTrue(past.lines, log, login, now) /\ LoginTrue(login, log, now)
    BY <1>1, <1>2 DEF TruthfulPasts
  <2> QED
    BY <1>2, <2>1, <2>2 DEF WorldTrue
<1>4. EpochsTrue(epochs, now, login, log, files) /\ AliasTrue(alias) /\ RequestTrue(request, now, login)
    BY <1>2 DEF EpochsTrue, AliasTrue, RequestTrue
<1>5. BindingTrue(proc, epochs)
    BY <1>2, DeadOK DEF BindingTrue
<1>6. FiledRightly
    BY <1>2 DEF FiledRightly
<1> QED
    BY <1>3, <1>4, <1>5, <1>6 DEF RightInv

\* Every step keeps it.
LEMMA NextRight ==
    ASSUME OnePersonPerWorkspace, TruthfulPasts, IInv, IInv', RightInv, [Next]_serviceVars
    PROVE  RightInv'
<1>1. Truth(now, login, log, files, epochs, request)
    BY DEF RightInv, Truth
<1>2. Truth(now', login', log', files', epochs, request)
    BY <1>1, WorldRight DEF IInv, WorkOK
<1>3. Around
    BY <1>2 DEF Around
<1>4. WorldTrue(now', login', log', files')
    BY <1>2 DEF Truth
<1>5. /\ EpochsTrue(epochs', now', login', log', files') /\ AliasTrue(alias')
      /\ BindingTrue(proc', epochs') /\ RequestTrue(request', now', login')
    BY <1>3, EpochsRight, AliasRight, BindingRight, RequestRight
<1>6. FiledRightly'
    BY <1>3, QuotaRight, OfficialRight DEF FiledRightly
<1> QED
    BY <1>4, <1>5, <1>6 DEF RightInv

\* Whatever is observed, imported, merged, killed and restarted in between: if
\* nobody shares a workspace and the log tells the truth back to its first
\* sample, a quota line is filed under the account of the person who was logged
\* in when it was written, or was read when the ledger had reason for doubt, and
\* official usage under the account of the person who answered.
THEOREM FiledRightlyHolds ==
    ASSUME OnePersonPerWorkspace, TruthfulPasts
    PROVE  Spec => []FiledRightly
<1>1. Init => RightInv
    BY InitRight
<1>2. IInv /\ IInv' /\ RightInv /\ [Next]_serviceVars => RightInv'
    BY NextRight
<1>3. RightInv => FiledRightly
    BY DEF RightInv
<1> QED
    BY Invariant, <1>1, <1>2, <1>3, PTL DEF Spec
=============================================================================
