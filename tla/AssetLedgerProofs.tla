-------------------------- MODULE AssetLedgerProofs --------------------------
(***************************************************************************)
(* Theorems about AssetLedger for any number of servers, services,         *)
(* accounts, scans and threads, any machines, names and programs.          *)
(*                                                                         *)
(* The invariant has three parts: Tables says what the rows are, Asked     *)
(* what a request can have read and means to write, OnCourse how far an    *)
(* import has come that nothing has failed and nothing disturbed: the      *)
(* services of its copy are as they were, and those it has done are on the *)
(* server.  A step that writes services tells every import what it lost    *)
(* (Watched), so OnCourse needs a proof only for the import that moves.    *)
(***************************************************************************)
EXTENDS AssetLedger, FiniteSetTheorems, TLAPS

Form(form) ==
    /\ \A a \in DOMAIN form.kept : form.kept[a] \in Row
    /\ form.new \in {{}} \cup {{r} : r \in Row}

\* CredentialsFit, of one server.
Fits(login) ==
    IF login.auth = "password" THEN login.password
    ELSE login.key # "none" /\ (login.key = "locked" => login.phrase = "own")

Imports ==
    [op : {"import"}, scan : ScanIds, server : ServerIds, groups : SUBSET Environments,
     selected : SUBSET Candidate, todo : SUBSET Candidate, update : BOOLEAN,
     known : Partial(ServiceIds, Service), failed : BOOLEAN, disturbed : BOOLEAN]

RequestOK(r) ==
    /\ r.op = "saveServer" =>
          /\ r.target \in Targets /\ r.login \in Credentials /\ Fits(r.login)
          /\ r.groups \subseteq Environments
    /\ r.op = "upsertCard" =>
          /\ r.target \in Targets /\ r.groups \subseteq Environments
          /\ r.server = NoId => ~r.keep
    /\ r.op = "saveService" => r.name \in Names /\ Form(r.form)
    /\ r.op = "importCard" => r.selected \subseteq Candidate /\ r.update \in BOOLEAN
    /\ r.op = "import" =>
          /\ r \in Imports
          /\ \A v \in DOMAIN r.known : r.known[v].server = r.server

Asked == DOMAIN request = Threads /\ \A t \in Threads : RequestOK(request[t])

\* Of an import, with the services as they are.
OnCourse(r, rows) ==
    r.op = "import" /\ ~r.failed /\ ~r.disturbed =>
        /\ \A v \in DOMAIN r.known :
              /\ v \in DOMAIN rows
              /\ rows[v].name = r.known[v].name /\ rows[v].server = r.known[v].server
        /\ \A c \in r.selected \ r.todo : \E v \in DOMAIN rows :
              rows[v].server = r.server /\ rows[v].name.stem = c.name.stem

ImportsOnCourse == \A t \in Threads : OnCourse(request[t], services)

\* The ids given out.
IdsAreSpent ==
    /\ serial \in [server : ServerIds, service : {0} \cup ServiceIds,
                   account : {0} \cup AccountIds, scan : {0} \cup ScanIds]
    /\ DOMAIN servers \subseteq 1 .. serial.server
    /\ DOMAIN services \subseteq 1 .. serial.service
    /\ DOMAIN accounts \subseteq 1 .. serial.account
    /\ DOMAIN scans \subseteq 1 .. serial.scan

\* NothingDangles, CredentialsFit and PasswordsAreStored, row by row.
Tables ==
    /\ dictionary \in [Entries -> {"unused", "listed", "deleted"}]
    /\ operations \in 0 .. MaxOperations
    /\ IdsAreSpent
    /\ recorded \subseteq DOMAIN servers
    /\ \A s \in DOMAIN servers :
          servers[s] \in Server /\ servers[s].groups \subseteq Listed /\ Fits(servers[s].login)
    /\ \A v \in DOMAIN services :
          /\ services[v] \in Service
          /\ services[v].server \in DOMAIN servers
          /\ services[v].entries \subseteq Listed
    /\ \A v, w \in DOMAIN services :
          services[v].server = services[w].server /\ services[v].name = services[w].name => v = w
    /\ \A a \in DOMAIN accounts :
          /\ accounts[a] \in Account
          /\ accounts[a].service \in DOMAIN services
          /\ accounts[a].secret = "password" => accounts[a].stored
    /\ \A c \in DOMAIN scans : scans[c] \in Scan /\ scans[c].server \in DOMAIN servers
    /\ overdue \subseteq DOMAIN scans

IInv == Tables /\ Asked /\ ImportsOnCourse

-----------------------------------------------------------------------------
(* Operators.                                                              *)

\* What is stored of a form that is accepted can be logged in with.
LEMMA StoredFits ==
  ASSUME NEW f \in LoginForms, NEW old \in Credentials,
         Supplied(f) \/ (f.auth = old.auth /\ Fits(old))
  PROVE  Stored(f, old) \in Credentials /\ Fits(Stored(f, old))
<1>1. f \in Credentials /\ (f.key = "locked" => f.phrase = "own")
  BY DEF LoginForms
<1>2. CASE f.auth = "password"
  <2>1. Stored(f, old) = [NoLogin EXCEPT !.password = f.password \/ old.password]
    BY <1>2 DEF Stored
  <2>2. f.password \/ old.password
    BY <1>2 DEF Supplied, Fits
  <2> QED BY <1>1, <2>1, <2>2 DEF NoLogin, Credentials, Fits
<1>3. CASE f.auth # "password"
  <2>1. f.auth = "key"
    BY <1>1, <1>3 DEF Credentials
  <2>2. Stored(f, old) = [auth |-> "key", password |-> FALSE,
                          key |-> IF f.key # "none" THEN f.key ELSE old.key,
                          phrase |-> IF f.key # "none" THEN f.phrase ELSE old.phrase]
    BY <2>1 DEF Stored, Phrase
  <2>3. CASE f.key # "none"
    BY <1>1, <2>2, <2>3 DEF Credentials, Fits
  <2>4. CASE f.key = "none"
    <3>1. old.auth = "key" /\ Fits(old)
      BY <2>1, <2>4 DEF Supplied
    <3> QED BY <2>2, <2>4, <3>1 DEF Credentials, Fits
  <2> QED BY <2>3, <2>4
<1> QED BY <1>2, <1>3

\* The entry an import takes for a candidate is one of the candidate's name.
LEMMA ExistingMatches ==
  ASSUME NEW known, NEW name, Matches(known, name) # {},
         \A v \in DOMAIN known : known[v].name \in Names
  PROVE  Existing(known, name) \in Matches(known, name)
<1> DEFINE M == Matches(known, name)
           Last(v) == known[v].name.capital => \A w \in M : known[w].name.capital
<1>1. \E v \in M : Last(v)
  OBVIOUS
<1> QED BY <1>1 DEF Existing

-----------------------------------------------------------------------------
(* Requests.                                                               *)

\* A request that others disturb stays what it is.
LEMMA WatchedIsOK ==
  ASSUME Asked, ImportsOnCourse, NEW t \in Threads
  PROVE  /\ RequestOK(Watched[t]) /\ OnCourse(Watched[t], services')
         /\ Watched[t].op = request[t].op
         /\ request[t].op = "import" =>
               /\ Watched[t] \in Imports
               /\ Watched[t] = [request[t] EXCEPT !.disturbed = Watched[t].disturbed]
               /\ ~Watched[t].disturbed =>
                     ~request[t].disturbed /\ \A v \in DOMAIN services : ~Lost(v)
<1> DEFINE r == request[t]
<1>1. RequestOK(r) /\ OnCourse(r, services)
  BY DEF Asked, ImportsOnCourse
<1>2. CASE r.op = "import" /\ \E v \in DOMAIN services : Lost(v)
  <2>1. Watched[t] = [r EXCEPT !.disturbed = TRUE]
    BY <1>2 DEF Watched
  <2>2. r \in Imports
    BY <1>1, <1>2 DEF RequestOK
  <2> HIDE DEF r
  <2>3. /\ Watched[t] \in Imports /\ Watched[t].op = "import" /\ Watched[t].disturbed
        /\ Watched[t].known = r.known /\ Watched[t].server = r.server
    BY <2>1, <2>2 DEF Imports
  <2>4. RequestOK(Watched[t])
    BY <1>1, <1>2, <2>3 DEF RequestOK
  <2>5. OnCourse(Watched[t], services')
    BY <2>3 DEF OnCourse
  <2> QED BY <1>2, <2>1, <2>3, <2>4, <2>5 DEF r
<1>3. CASE ~(r.op = "import" /\ \E v \in DOMAIN services : Lost(v))
  <2>1. Watched[t] = r
    BY <1>3 DEF Watched
  <2>2. r.op = "import" => /\ r \in Imports
                           /\ r = [r EXCEPT !.disturbed = r.disturbed]
    BY <1>1 DEF RequestOK, Imports
  <2>3. OnCourse(r, services')
    <3> SUFFICES ASSUME r.op = "import", ~r.failed, ~r.disturbed
                 PROVE  OnCourse(r, services')
      BY DEF OnCourse
    <3>1. ASSUME NEW v \in DOMAIN services
          PROVE  v \in DOMAIN services' /\ services'[v].name = services[v].name
                 /\ services'[v].server = services[v].server
      BY <1>3, <3>1 DEF Lost
    <3> QED BY <1>1, <3>1 DEF OnCourse
  <2> QED BY <1>1, <1>3, <2>1, <2>2, <2>3
<1> QED BY <1>2, <1>3

\* One thread goes on as r, the others are told what was lost.
LEMMA BecomesKeeps ==
  ASSUME Asked, ImportsOnCourse, NEW t \in Threads, NEW r, Becomes(t, r),
         RequestOK(r), OnCourse(r, services')
  PROVE  Asked' /\ ImportsOnCourse'
<1>1. DOMAIN Watched = Threads
  BY DEF Watched
<1>2. DOMAIN request' = Threads
      /\ \A u \in Threads : request'[u] = IF u = t THEN r ELSE Watched[u]
  BY <1>1 DEF Becomes
<1> QED BY <1>2, WatchedIsOK DEF Asked, ImportsOnCourse

LEMMA NoneWaitsKeeps ==
  ASSUME Asked, ImportsOnCourse, NoneWaits
  PROVE  Asked' /\ ImportsOnCourse'
<1>1. DOMAIN Watched = Threads
  BY DEF Watched
<1> QED BY <1>1, WatchedIsOK DEF NoneWaits, Asked, ImportsOnCourse

\* One thread goes on as r in a step that leaves the services alone.
LEMMA GoesOn ==
  ASSUME Asked, ImportsOnCourse, NEW t \in Threads, NEW r,
         request' = [request EXCEPT ![t] = r], UNCHANGED services,
         RequestOK(r), OnCourse(r, services)
  PROVE  Asked' /\ ImportsOnCourse'
<1>1. DOMAIN request' = Threads
      /\ \A u \in Threads : request'[u] = IF u = t THEN r ELSE request[u]
  BY DEF Asked
<1> QED BY <1>1 DEF Asked, ImportsOnCourse

LEMMA IdleIsOK == RequestOK(Idle) /\ \A rows : OnCourse(Idle, rows)
BY DEF RequestOK, OnCourse, Idle

LEMMA GoesIdle ==
  ASSUME Asked, ImportsOnCourse, NEW t \in Threads,
         request' = [request EXCEPT ![t] = Idle], UNCHANGED services
  PROVE  Asked' /\ ImportsOnCourse'
BY GoesOn, IdleIsOK

\* Nobody moves, and the services are as they were but for their entries.
LEMMA NoneMoves ==
  ASSUME Asked, ImportsOnCourse, UNCHANGED request,
         DOMAIN services' = DOMAIN services,
         \A v \in DOMAIN services : services'[v].name = services[v].name
                                    /\ services'[v].server = services[v].server
  PROVE  Asked' /\ ImportsOnCourse'
<1>1. ASSUME NEW t \in Threads PROVE OnCourse(request[t], services')
  <2>1. OnCourse(request[t], services)
    BY DEF ImportsOnCourse
  <2> QED BY <2>1 DEF OnCourse
<1> QED BY <1>1 DEF Asked, ImportsOnCourse

-----------------------------------------------------------------------------
(* Tables.                                                                 *)

LEMMA OperationsAreCounted ==
  ASSUME operations \in 0 .. MaxOperations, Edit \/ Ask \/ Continue
  PROVE  operations' \in 0 .. MaxOperations
BY LedgerAssumption DEF Edit, Ask, Continue, Begin, MayBegin

\* A step that leaves the tables alone.
LEMMA TablesStay ==
  ASSUME Tables, UNCHANGED ledger, Edit \/ Ask \/ Continue
  PROVE  Tables'
<1>1. operations' \in 0 .. MaxOperations
  BY OperationsAreCounted DEF Tables
<1> QED BY <1>1 DEF ledger, Tables, IdsAreSpent, Listed

\* Another server, with what can be logged in with.
LEMMA AddServerKeeps ==
  ASSUME Tables, NEW x \in Targets, NEW login \in Credentials, Fits(login),
         NEW g \in SUBSET Environments, AddServerRow(x, login, g),
         Edit \/ Continue,
         UNCHANGED <<dictionary, recorded, services, accounts, scans, overdue>>
  PROVE  Tables'
<1> DEFINE n == serial.server + 1
           row == [target |-> x, login |-> login, groups |-> g \cap Listed]
<1>1. serial.server \in ServerIds /\ n \in ServerIds /\ serial' = [serial EXCEPT !.server = n]
  BY LedgerAssumption DEF Tables, IdsAreSpent, AddServerRow, ServerIds
<1>2. servers' = servers ++ [s \in {n} |-> row]
  BY DEF AddServerRow
<1>3. n \notin DOMAIN servers
  BY <1>1 DEF Tables, IdsAreSpent, ServerIds
<1>4. DOMAIN servers' = DOMAIN servers \cup {n} /\ servers'[n] = row
      /\ \A s \in DOMAIN servers : servers'[s] = servers[s]
  <2> HIDE DEF n, row
  <2> QED BY <1>2, <1>3 DEF ++
<1>5. row \in Server /\ row.groups \subseteq Listed /\ Fits(row.login)
  BY DEF Server
<1>6. IdsAreSpent'
  BY <1>1, <1>4 DEF Tables, IdsAreSpent, ServerIds
<1>7. operations' \in 0 .. MaxOperations
  BY OperationsAreCounted DEF Tables
<1>8. Listed' = Listed
  BY DEF Listed
<1> HIDE DEF n, row
<1> QED BY <1>4, <1>5, <1>6, <1>7, <1>8 DEF Tables

\* A server is written again, or not.
LEMMA ServerWritten ==
  ASSUME Tables, NEW s, NEW row \in Server, row.groups \subseteq Listed, Fits(row.login),
         \/ servers' = [servers EXCEPT ![s] = row]
         \/ UNCHANGED servers,
         Continue,
         UNCHANGED <<dictionary, recorded, services, accounts, scans, overdue, serial>>
  PROVE  Tables'
<1>1. operations' \in 0 .. MaxOperations
  BY OperationsAreCounted DEF Tables
<1>2. Listed' = Listed
  BY DEF Listed
<1>3. DOMAIN servers' = DOMAIN servers
      /\ \A i \in DOMAIN servers : servers'[i] = servers[i] \/ servers'[i] = row
  OBVIOUS
<1>4. IdsAreSpent'
  BY <1>3 DEF Tables, IdsAreSpent
<1> QED BY <1>1, <1>2, <1>3, <1>4 DEF Tables

\* Services go with their accounts, their server with its scans and hardware.
LEMMA ServicesDropped ==
  ASSUME Tables, NEW S, NEW R, DropServices(S),
         servers' = Without(servers, R),
         \A v \in DOMAIN services : services[v].server \in R => v \in S,
         scans' = Without(scans, UNION {ScansOf(s) : s \in R}),
         overdue' = overdue \ UNION {ScansOf(s) : s \in R},
         recorded' = recorded \ R,
         Edit, UNCHANGED <<dictionary, serial>>
  PROVE  Tables'
<1>1. operations' \in 0 .. MaxOperations
  BY OperationsAreCounted DEF Tables
<1>2. Listed' = Listed
  BY DEF Listed
<1>3. DOMAIN servers' = DOMAIN servers \ R /\ \A s \in DOMAIN servers' : servers'[s] = servers[s]
  BY DEF Without, Restrict
<1>4. DOMAIN services' = DOMAIN services \ S
      /\ \A v \in DOMAIN services' : services'[v] = services[v]
  BY DEF Without, Restrict, DropServices
<1>5. /\ DOMAIN accounts' = {a \in DOMAIN accounts : accounts[a].service \notin S}
      /\ \A a \in DOMAIN accounts' : accounts'[a] = accounts[a]
  BY DEF Without, Restrict, DropServices, AccountsOf
<1>6. /\ DOMAIN scans' = {c \in DOMAIN scans : scans[c].server \notin R}
      /\ \A c \in DOMAIN scans' : scans'[c] = scans[c]
  BY DEF Without, Restrict, ScansOf
<1>7. overdue' \subseteq DOMAIN scans'
  <2> SUFFICES ASSUME NEW c \in overdue' PROVE c \in DOMAIN scans /\ scans[c].server \notin R
    BY <1>6
  <2>1. c \in DOMAIN scans
    BY DEF Tables
  <2>2. c \notin ScansOf(scans[c].server) \/ scans[c].server \notin R
    OBVIOUS
  <2> QED BY <2>1, <2>2 DEF ScansOf
<1>8. IdsAreSpent'
  BY <1>3, <1>4, <1>5, <1>6 DEF Tables, IdsAreSpent
<1> QED BY <1>1, <1>2, <1>3, <1>4, <1>5, <1>6, <1>7, <1>8 DEF Tables

LEMMA DeleteServiceKeeps ==
  ASSUME Tables, NEW v, DeleteService(v)
  PROVE  Tables'
<1>1. operations' \in 0 .. MaxOperations
  BY OperationsAreCounted DEF Tables, DeleteService
<1>2. Listed' = Listed
  BY DEF Listed, DeleteService
<1>4. DOMAIN services' = DOMAIN services \ {v}
      /\ \A w \in DOMAIN services' : services'[w] = services[w]
  BY DEF Without, Restrict, DropServices, DeleteService
<1>5. /\ DOMAIN accounts' = {a \in DOMAIN accounts : accounts[a].service # v}
      /\ \A a \in DOMAIN accounts' : accounts'[a] = accounts[a]
  BY DEF Without, Restrict, DropServices, AccountsOf, DeleteService
<1>8. IdsAreSpent'
  BY <1>4, <1>5 DEF Tables, IdsAreSpent, DeleteService
<1> QED BY <1>1, <1>2, <1>4, <1>5, <1>8 DEF Tables, DeleteService

LEMMA DeleteServerKeeps ==
  ASSUME Tables, NEW s, DeleteServer(s)
  PROVE  Tables'
<1>1. \A v \in DOMAIN services : services[v].server \in {s} => v \in ServicesOf(s)
  BY DEF ServicesOf
<1>2. UNION {ScansOf(r) : r \in {s}} = ScansOf(s)
  OBVIOUS
<1> QED BY <1>1, <1>2, ServicesDropped DEF DeleteServer

LEMMA AddEntryKeeps ==
  ASSUME Tables, NEW d \in Entries, AddEntry(d)
  PROVE  Tables'
<1>1. operations' \in 0 .. MaxOperations
  BY OperationsAreCounted DEF Tables, AddEntry
<1>2. dictionary' \in [Entries -> {"unused", "listed", "deleted"}] /\ Listed \subseteq Listed'
  BY DEF AddEntry, Tables, Listed
<1> QED BY <1>1, <1>2 DEF AddEntry, Tables, IdsAreSpent

LEMMA DeleteEntryKeeps ==
  ASSUME Tables, NEW d \in Entries, DeleteEntry(d)
  PROVE  Tables'
<1>1. operations' \in 0 .. MaxOperations
  BY OperationsAreCounted DEF Tables, DeleteEntry
<1>2. /\ dictionary' \in [Entries -> {"unused", "listed", "deleted"}]
      /\ Listed \ {d} \subseteq Listed'
  BY DEF DeleteEntry, Tables, Listed
<1>3. /\ DOMAIN servers' = DOMAIN servers
      /\ \A s \in DOMAIN servers :
            /\ servers'[s] \in Server /\ servers'[s].login = servers[s].login
            /\ servers'[s].groups = servers[s].groups \ {d}
  BY DEF DeleteEntry, Tables, Server
<1>4. /\ DOMAIN services' = DOMAIN services
      /\ \A v \in DOMAIN services :
            /\ services'[v] \in Service /\ services'[v].server = services[v].server
            /\ services'[v].name = services[v].name
            /\ services'[v].entries = services[v].entries \ {d}
  BY DEF DeleteEntry, Tables, Service
<1>5. IdsAreSpent'
  BY <1>3, <1>4 DEF Tables, IdsAreSpent, DeleteEntry
<1>6. UNCHANGED <<recorded, accounts, scans, overdue>>
  BY DEF DeleteEntry
<1>7. \A s \in DOMAIN servers' : servers'[s].groups \subseteq Listed' /\ Fits(servers'[s].login)
  BY <1>2, <1>3 DEF Tables
<1>8. \A v \in DOMAIN services' : services'[v].entries \subseteq Listed'
                                  /\ services'[v].server \in DOMAIN servers'
  BY <1>2, <1>3, <1>4 DEF Tables
<1>9. \A v, w \in DOMAIN services' :
         services'[v].server = services'[w].server /\ services'[v].name = services'[w].name => v = w
  BY <1>4 DEF Tables
<1> QED BY <1>1, <1>2, <1>3, <1>4, <1>5, <1>6, <1>7, <1>8, <1>9 DEF Tables

\* Hardware is recorded of a server that is there, and forgotten of any.
LEMMA RecordedKeeps ==
  ASSUME Tables, recorded' \subseteq DOMAIN servers, Continue,
         UNCHANGED <<dictionary, servers, services, accounts, scans, overdue, serial>>
  PROVE  Tables'
<1>1. operations' \in 0 .. MaxOperations
  BY OperationsAreCounted DEF Tables
<1> QED BY <1>1 DEF Tables, IdsAreSpent, Listed

\* The accounts after the service v was written, the last id being n.
Rewritten(rows, v, n) ==
    /\ DOMAIN rows \subseteq 1 .. n
    /\ \A a \in DOMAIN rows :
          /\ rows[a] \in Account
          /\ rows[a].secret = "password" => rows[a].stored
          /\ rows[a].service = v \/ (a \in DOMAIN accounts /\ rows[a] = accounts[a])
    /\ n \in {0} \cup AccountIds

\* What a form does to the accounts: those of other services stay, those of the
\* service are named by the form or new, and have the password they need.
LEMMA SyncedAccounts ==
  ASSUME Tables, NEW v \in ServiceIds, NEW form, Form(form), SyncSucceeds(v, form),
         serial.account + Cardinality(form.new) <= MaxAccounts
  PROVE  /\ Rewritten(Synced(v, form), v, serial.account + Cardinality(form.new))
         /\ \A a \in DOMAIN accounts : accounts[a].service # v =>
               a \in DOMAIN Synced(v, form) /\ Synced(v, form)[a] = accounts[a]
<1> DEFINE n == serial.account + Cardinality(form.new)
           others == Without(accounts, AccountsOf(v))
           kept == [a \in DOMAIN form.kept |->
                      [service |-> v, secret |-> form.kept[a].secret,
                       stored |-> form.kept[a].given \/ accounts[a].stored]]
           new == [a \in {serial.account + 1 : r \in form.new} |->
                     LET r == CHOOSE r \in form.new : TRUE
                     IN [service |-> v, secret |-> r.secret, stored |-> r.given]]
           all == Synced(v, form)
<1>1. serial.account \in Nat
  BY LedgerAssumption DEF Tables, IdsAreSpent, AccountIds
<1>2. /\ Cardinality(form.new) \in {0, 1} /\ (form.new = {} <=> Cardinality(form.new) = 0)
      /\ \A r \in form.new : r \in Row
  <2>1. CASE form.new = {}
    BY <2>1, FS_EmptySet
  <2>2. CASE \E r \in Row : form.new = {r}
    BY <2>2, FS_Singleton
  <2> QED BY <2>1, <2>2 DEF Form
<1>3. DOMAIN others = {a \in DOMAIN accounts : accounts[a].service # v}
      /\ \A a \in DOMAIN others : others[a] = accounts[a]
  BY DEF Without, Restrict, AccountsOf
<1>4. DOMAIN form.kept \subseteq AccountsOf(v)
  BY DEF SyncSucceeds
<1>5. \A a \in DOMAIN kept : kept[a] \in Account /\ kept[a].service = v
  BY <1>4 DEF Form, Row, Account, Tables, AccountsOf
<1>6. \A a \in DOMAIN new : new[a] \in Account /\ new[a].service = v
  BY <1>2 DEF Row, Account
<1>7. DOMAIN new \subseteq {n} /\ n <= MaxAccounts /\ n \in Nat /\ serial.account <= n
      /\ (DOMAIN new # {} => n = serial.account + 1)
  BY <1>1, <1>2
<1>8. all = others ++ kept ++ new
  BY DEF Synced
<1> HIDE DEF others, kept, new, all, n
<1>9. DOMAIN all = DOMAIN others \cup DOMAIN kept \cup DOMAIN new
      /\ \A a \in DOMAIN all :
            all[a] = IF a \in DOMAIN others THEN others[a]
                     ELSE IF a \in DOMAIN kept THEN kept[a] ELSE new[a]
  BY <1>8 DEF ++
<1>10. DOMAIN kept \subseteq DOMAIN accounts /\ DOMAIN accounts \subseteq 1 .. serial.account
       /\ DOMAIN others \subseteq DOMAIN accounts
  BY <1>3, <1>4 DEF kept, AccountsOf, Tables, IdsAreSpent
<1>11. DOMAIN all \subseteq 1 .. n
  <2>1. 1 .. serial.account \subseteq 1 .. n
    BY <1>1, <1>7
  <2>2. DOMAIN new \subseteq 1 .. n
    BY <1>1, <1>7
  <2> QED BY <1>9, <1>10, <2>1, <2>2
<1>12. ASSUME NEW a \in DOMAIN all
       PROVE  /\ all[a] \in Account
              /\ \/ all[a].service = v
                 \/ a \in DOMAIN accounts /\ accounts[a].service # v /\ all[a] = accounts[a]
  BY <1>3, <1>5, <1>6, <1>9 DEF Tables
<1>13. ASSUME NEW a \in DOMAIN all, all[a].secret = "password"
       PROVE  all[a].stored
  <2>1. CASE all[a].service = v
    BY <1>13, <2>1 DEF SyncSucceeds, all
  <2>2. CASE a \in DOMAIN accounts /\ all[a] = accounts[a]
    BY <1>13, <2>2 DEF Tables
  <2> QED BY <1>12, <2>1, <2>2
<1>14. n \in {0} \cup AccountIds
  BY <1>7, LedgerAssumption DEF AccountIds
<1>15. \A a \in DOMAIN accounts : accounts[a].service # v => a \in DOMAIN all /\ all[a] = accounts[a]
  BY <1>3, <1>9
<1>16. Rewritten(all, v, n)
  BY <1>11, <1>12, <1>13, <1>14 DEF Rewritten
<1> QED BY <1>15, <1>16 DEF all, n

LEMMA CountOfNew ==
  ASSUME NEW form, Form(form)
  PROVE  Cardinality(form.new) \in Nat
<1>1. CASE form.new = {}
  BY <1>1, FS_EmptySet
<1>2. CASE \E r \in Row : form.new = {r}
  BY <1>2, FS_Singleton
<1> QED BY <1>1, <1>2 DEF Form

LEMMA AccountsAfter ==
  ASSUME Tables, NEW v \in ServiceIds, NEW form, Form(form), Sync(v, form),
         form.provided => SyncSucceeds(v, form),
         serial.account + Cardinality(form.new) <= MaxAccounts
  PROVE  Rewritten(accounts', v, serial.account + Cardinality(form.new))
<1>1. CASE form.provided
  BY <1>1, SyncedAccounts DEF Sync
<1>2. CASE ~form.provided
  <2>1. accounts' = accounts
    BY <1>2 DEF Sync
  <2>2. serial.account \in Nat /\ Cardinality(form.new) \in Nat
    BY CountOfNew, LedgerAssumption DEF Tables, IdsAreSpent, AccountIds
  <2>3. serial.account + Cardinality(form.new) \in {0} \cup AccountIds
    BY <2>2, LedgerAssumption DEF AccountIds
  <2>4. DOMAIN accounts' \subseteq 1 .. serial.account + Cardinality(form.new)
    BY <2>1, <2>2 DEF Tables, IdsAreSpent
  <2> QED BY <2>1, <2>3, <2>4 DEF Tables, Rewritten
<1> QED BY <1>1, <1>2

LEMMA UpdateServiceKeeps ==
  ASSUME Tables, NEW v \in DOMAIN services, NEW s, NEW name \in Names, NEW g, NEW form,
         Form(form), CanUpdateService(v, s, name, g, form),
         serial.account + Cardinality(form.new) <= MaxAccounts,
         UpdateServiceRow(v, s, name, g, form), Continue,
         UNCHANGED <<dictionary, servers, recorded, scans, overdue>>
  PROVE  Tables'
<1>1. operations' \in 0 .. MaxOperations
  BY OperationsAreCounted DEF Tables
<1>2. Listed' = Listed
  BY DEF Listed
<1>3. v \in ServiceIds
  BY LedgerAssumption DEF Tables, IdsAreSpent, ServiceIds
<1> DEFINE n == serial.account + Cardinality(form.new)
           row == [server |-> s, name |-> name, entries |-> g]
<1>4. Rewritten(accounts', v, n)
  <2>1. Sync(v, form) /\ (form.provided => SyncSucceeds(v, form))
    BY DEF CanUpdateService, UpdateServiceRow
  <2> QED BY <1>3, <2>1, AccountsAfter
<1>5. serial' = [serial EXCEPT !.account = n] /\ services' = [services EXCEPT ![v] = row]
  BY DEF UpdateServiceRow
<1>6. /\ row \in Service /\ row.server \in DOMAIN servers /\ row.entries \subseteq Listed
      /\ \A w \in DOMAIN services \ {v} :
            ~(services[w].server = row.server /\ services[w].name = row.name)
  <2>1. s \in ServerIds
    BY LedgerAssumption DEF CanUpdateService, Tables, IdsAreSpent, ServerIds
  <2>2. g \subseteq Entries
    BY DEF CanUpdateService, Listed
  <2> QED BY <2>1, <2>2 DEF Service, CanUpdateService, NameIsFree, ServicesOf
<1> HIDE DEF n, row
<1>7. IdsAreSpent'
  BY <1>4, <1>5 DEF Tables, IdsAreSpent, Rewritten
<1>8. DOMAIN services' = DOMAIN services
      /\ \A w \in DOMAIN services : services'[w] = IF w = v THEN row ELSE services[w]
  BY <1>5
<1> QED BY <1>1, <1>2, <1>4, <1>6, <1>7, <1>8 DEF Tables, Rewritten

LEMMA AddServiceKeeps ==
  ASSUME Tables, NEW s, NEW name \in Names, NEW g, NEW form,
         Form(form), CanAddService(s, name, g, form), serial.service < MaxServices,
         serial.account + Cardinality(form.new) <= MaxAccounts,
         AddServiceRow(s, name, g, form), Continue,
         UNCHANGED <<dictionary, servers, recorded, scans, overdue>>
  PROVE  Tables'
<1>1. operations' \in 0 .. MaxOperations
  BY OperationsAreCounted DEF Tables
<1>2. Listed' = Listed
  BY DEF Listed
<1> DEFINE v == serial.service + 1
           n == serial.account + Cardinality(form.new)
           row == [server |-> s, name |-> name, entries |-> g]
<1>3. v \in ServiceIds /\ v \notin DOMAIN services /\ serial.service \in Nat
  BY LedgerAssumption DEF Tables, IdsAreSpent, ServiceIds
<1>4. Rewritten(accounts', v, n)
  <2>1. Sync(v, form) /\ (form.provided => SyncSucceeds(v, form))
    BY DEF CanAddService, AddServiceRow
  <2> HIDE DEF v
  <2> QED BY <1>3, <2>1, AccountsAfter
<1>5. /\ serial' = [serial EXCEPT !.service = v, !.account = n]
      /\ services' = services ++ [w \in {v} |-> row]
  BY DEF AddServiceRow
<1>6. /\ row \in Service /\ row.server \in DOMAIN servers /\ row.entries \subseteq Listed
      /\ \A w \in DOMAIN services :
            ~(services[w].server = row.server /\ services[w].name = row.name)
  <2>1. s \in ServerIds
    BY LedgerAssumption DEF CanAddService, Tables, IdsAreSpent, ServerIds
  <2>2. g \subseteq Entries
    BY DEF CanAddService, Listed
  <2>3. NoId \notin DOMAIN services
    BY DEF NoId, Tables, IdsAreSpent
  <2> QED BY <2>1, <2>2, <2>3 DEF Service, CanAddService, NameIsFree, ServicesOf
<1>7. v = serial.service + 1
  OBVIOUS
<1> HIDE DEF n, row, v
<1>8. DOMAIN services' = DOMAIN services \cup {v} /\ services'[v] = row
      /\ \A w \in DOMAIN services : services'[w] = services[w]
  BY <1>3, <1>5 DEF ++
<1>9. IdsAreSpent'
  <2>1. serial' \in [server : ServerIds, service : {0} \cup ServiceIds,
                     account : {0} \cup AccountIds, scan : {0} \cup ScanIds]
        /\ serial'.server = serial.server /\ serial'.scan = serial.scan
        /\ serial'.service = v /\ serial'.account = n
    BY <1>3, <1>4, <1>5 DEF Tables, IdsAreSpent, Rewritten
  <2>2. DOMAIN services' \subseteq 1 .. v
    BY <1>3, <1>7, <1>8 DEF Tables, IdsAreSpent
  <2> QED BY <1>4, <2>1, <2>2 DEF Tables, IdsAreSpent, Rewritten
<1> QED BY <1>1, <1>2, <1>4, <1>6, <1>8, <1>9 DEF Tables, Rewritten

\* The scans are written again: another one, or another state of one.
LEMMA ScansWritten ==
  ASSUME Tables, NEW n \in ScanIds, serial.scan <= n,
         DOMAIN scans \subseteq DOMAIN scans', DOMAIN scans' \subseteq 1 .. n,
         \A c \in DOMAIN scans' : scans'[c] \in Scan /\ scans'[c].server \in DOMAIN servers,
         overdue' \subseteq DOMAIN scans,
         serial' = [serial EXCEPT !.scan = n],
         Ask \/ Continue,
         UNCHANGED <<dictionary, servers, recorded, services, accounts>>
  PROVE  Tables'
<1>1. operations' \in 0 .. MaxOperations
  BY OperationsAreCounted DEF Tables
<1>2. Listed' = Listed
  BY DEF Listed
<1>3. IdsAreSpent'
  BY DEF Tables, IdsAreSpent
<1> QED BY <1>1, <1>2, <1>3 DEF Tables

-----------------------------------------------------------------------------
(* Steps.                                                                  *)

LEMMA NoLoginIsTyped == NoLogin \in Credentials
BY DEF NoLogin, Credentials

LEMMA ServerStepsKeep ==
  ASSUME IInv, ServerSteps
  PROVE  IInv'
<1> USE DEF IInv
<1>1. ASSUME NEW s \in DOMAIN servers, DeleteServer(s) PROVE IInv'
  BY <1>1, DeleteServerKeeps, NoneWaitsKeeps DEF DeleteServer
<1>2. ASSUME NEW s \in DOMAIN servers, Record(s) PROVE IInv'
  <2>1. recorded' \subseteq DOMAIN servers
    BY <1>2 DEF Record, Tables
  <2>2. Tables'
    BY <1>2, <2>1, RecordedKeeps DEF Record
  <2> QED BY <1>2, <2>2, NoneMoves DEF Record
<1>3. ASSUME NEW x \in Targets, NEW f \in LoginForms, NEW g \in SUBSET Environments,
             AddServer(x, f, g)
      PROVE  IInv'
  <2>1. Stored(f, NoLogin) \in Credentials /\ Fits(Stored(f, NoLogin))
    <3>1. Supplied(f)
      BY <1>3 DEF AddServer
    <3> QED BY <3>1, StoredFits, NoLoginIsTyped
  <2>2. Tables'
    BY <1>3, <2>1, AddServerKeeps DEF AddServer
  <2> QED BY <1>3, <2>2, NoneMoves DEF AddServer
<1>4. ASSUME NEW x \in Targets, NEW f \in LoginForms, NEW g \in SUBSET Environments,
             NEW t \in Threads, NEW s \in DOMAIN servers, ReadServer(t, s, x, f, g)
      PROVE  IInv'
  <2>1. servers[s].login \in Credentials /\ Fits(servers[s].login)
    BY DEF Tables, Server
  <2>2. Stored(f, servers[s].login) \in Credentials /\ Fits(Stored(f, servers[s].login))
    BY <1>4, <2>1, StoredFits DEF ReadServer, Accepts
  <2> DEFINE r == [op |-> "saveServer", by |-> "user", server |-> s, target |-> x,
                   login |-> Stored(f, servers[s].login), groups |-> g,
                   moved |-> x # servers[s].target]
  <2>3. RequestOK(r) /\ OnCourse(r, services)
    BY <2>2 DEF RequestOK, OnCourse
  <2>4. request' = [request EXCEPT ![t] = r]
    BY <1>4 DEF ReadServer
  <2> HIDE DEF r
  <2>5. Asked' /\ ImportsOnCourse'
    BY <1>4, <2>3, <2>4, GoesOn DEF ReadServer, ledger
  <2> QED BY <1>4, <2>5, TablesStay DEF ReadServer
<1>5. ASSUME NEW t \in Threads, SaveServer(t) PROVE IInv'
  <2> DEFINE r == request[t]
             row == [target |-> r.target, login |-> r.login, groups |-> r.groups]
  <2>1. row \in Server /\ Fits(row.login) /\ row.groups = r.groups
    BY <1>5 DEF Asked, RequestOK, SaveServer, Server
  <2>2. \/ UNCHANGED servers
        \/ r.groups \subseteq Listed /\ servers' = [servers EXCEPT ![r.server] = row]
    BY <1>5 DEF SaveServer
  <2>3. Tables'
    <3>1. CASE UNCHANGED servers
      <4>1. operations' \in 0 .. MaxOperations
        BY <1>5, OperationsAreCounted DEF Tables, SaveServer
      <4> QED BY <1>5, <3>1, <4>1 DEF SaveServer, Tables, IdsAreSpent, Listed
    <3>2. CASE r.groups \subseteq Listed /\ servers' = [servers EXCEPT ![r.server] = row]
      <4> HIDE DEF row
      <4> QED BY <1>5, <2>1, <3>2, ServerWritten DEF SaveServer
    <3> QED BY <2>2, <3>1, <3>2
  <2>4. CASE request' = [request EXCEPT ![t] = Idle]
    BY <1>5, <2>3, <2>4, GoesIdle DEF SaveServer
  <2>5. CASE request' = [request EXCEPT ![t] = [op |-> "forget", server |-> r.server]]
    <3> DEFINE q == [op |-> "forget", server |-> r.server]
    <3>1. RequestOK(q) /\ OnCourse(q, services)
      BY DEF RequestOK, OnCourse
    <3> HIDE DEF q
    <3>2. Asked' /\ ImportsOnCourse'
      BY <1>5, <2>5, <3>1, GoesOn DEF SaveServer, q
    <3> QED BY <2>3, <3>2
  <2> QED BY <1>5, <2>4, <2>5 DEF SaveServer
<1>6. ASSUME NEW t \in Threads, SaveNewServer(t) PROVE IInv'
  <2>1. /\ request[t].target \in Targets /\ request[t].login \in Credentials
        /\ Fits(request[t].login) /\ request[t].groups \in SUBSET Environments
    BY <1>6 DEF SaveNewServer, Asked, RequestOK
  <2>2. Tables'
    BY <1>6, <2>1, AddServerKeeps DEF SaveNewServer
  <2> QED BY <1>6, <2>2, GoesIdle DEF SaveNewServer
<1>7. ASSUME NEW t \in Threads, Forget(t) PROVE IInv'
  <2>1. recorded' \subseteq DOMAIN servers
    BY <1>7 DEF Forget, Tables
  <2>2. Tables'
    BY <1>7, <2>1, RecordedKeeps DEF Forget
  <2> QED BY <1>7, <2>2, GoesIdle DEF Forget
<1> QED BY <1>1, <1>2, <1>3, <1>4, <1>5, <1>6, <1>7 DEF ServerSteps

LEMMA UpsertStepsKeep ==
  ASSUME IInv, UpsertSteps
  PROVE  IInv'
<1> USE DEF IInv
<1>1. ASSUME NEW t \in Threads, NEW f \in LoginForms, CheckUpsert(t, f) PROVE IInv'
  <2> DEFINE card == request[t]
             new == card.server = NoId
             old == IF new THEN NoLogin ELSE servers[card.server].login
             r == [op |-> "saveServer", by |-> "assistant", server |-> card.server,
                   target |-> card.target, login |-> Stored(f, old),
                   groups |-> card.groups,
                   moved |-> ~new /\ card.target # servers[card.server].target]
  <2>0. Continue /\ UNCHANGED ledger /\ UNCHANGED services
    BY <1>1 DEF CheckUpsert, ledger
  <2>1. Tables'
    BY <2>0, TablesStay
  <2>2. card.target \in Targets /\ card.groups \subseteq Environments /\ (new => ~card.keep)
    BY <1>1 DEF CheckUpsert, Asked, RequestOK
  <2>3. CASE request' = [request EXCEPT ![t] = Idle]
    BY <2>0, <2>1, <2>3, GoesIdle
  <2>4. CASE /\ new \/ (card.server \in DOMAIN servers /\ Accepts(f, old))
             /\ request' = [request EXCEPT ![t] = r]
    <3>1. old \in Credentials
      BY <2>4, NoLoginIsTyped DEF Tables, Server
    <3>2. Supplied(f) \/ (f.auth = old.auth /\ Fits(old))
      BY <1>1, <2>2, <2>4 DEF CheckUpsert, Accepts, Tables
    <3>3. Stored(f, old) \in Credentials /\ Fits(Stored(f, old))
      BY <3>1, <3>2, StoredFits
    <3>4. RequestOK(r) /\ OnCourse(r, services)
      BY <2>2, <3>3 DEF RequestOK, OnCourse
    <3> HIDE DEF r
    <3> QED BY <2>0, <2>1, <2>4, <3>4, GoesOn
  <2>5. \/ request' = [request EXCEPT ![t] = Idle]
        \/ /\ new \/ (card.server \in DOMAIN servers /\ Accepts(f, old))
           /\ request' = [request EXCEPT ![t] = r]
    BY <1>1 DEF CheckUpsert
  <2> HIDE DEF r, old, new
  <2> QED BY <2>3, <2>4, <2>5
<1>2. ASSUME NEW t \in Threads, NEW s \in {NoId} \cup DOMAIN servers, NEW x \in Targets,
             NEW auth \in {"password", "key"}, NEW keep \in BOOLEAN,
             NEW g \in SUBSET Environments, ProposeUpsert(t, s, x, auth, keep, g)
      PROVE  IInv'
  <2> DEFINE r == [op |-> "upsertCard", server |-> s, target |-> x, auth |-> auth,
                   keep |-> keep, groups |-> g]
  <2>1. RequestOK(r) /\ OnCourse(r, services)
    BY <1>2 DEF ProposeUpsert, RequestOK, OnCourse
  <2>2. request' = [request EXCEPT ![t] = r]
    BY <1>2 DEF ProposeUpsert
  <2> HIDE DEF r
  <2>3. Asked' /\ ImportsOnCourse'
    BY <1>2, <2>1, <2>2, GoesOn DEF ProposeUpsert, ledger
  <2> QED BY <1>2, <2>3, TablesStay DEF ProposeUpsert
<1> QED BY <1>1, <1>2 DEF UpsertSteps

\* A writing step of a thread that then rests.
LEMMA WritesAndRests ==
  ASSUME IInv, NEW t \in Threads, Becomes(t, Idle), Tables'
  PROVE  IInv'
BY BecomesKeeps, IdleIsOK DEF IInv

\* A transaction that was rolled back.
LEMMA NothingWritten ==
  ASSUME Tables, Continue,
         UNCHANGED <<dictionary, servers, recorded, services, accounts, scans, overdue, serial>>
  PROVE  Tables'
BY TablesStay DEF ledger

LEMMA SaveServiceKeeps ==
  ASSUME IInv, NEW t \in Threads, SaveService(t) \/ SaveNewService(t)
  PROVE  IInv'
<1> DEFINE r == request[t]
<1>1. r.name \in Names /\ Form(r.form)
  BY DEF IInv, Asked, RequestOK, SaveService, SaveNewService
<1>2. Becomes(t, Idle) /\ Continue /\ serial.account + Cardinality(r.form.new) <= MaxAccounts
      /\ UNCHANGED <<dictionary, servers, recorded, scans, overdue>>
  BY DEF SaveService, SaveNewService
<1>3. CASE UNCHANGED <<services, accounts, serial>>
  <2>1. Tables'
    BY <1>2, <1>3, NothingWritten DEF IInv
  <2> QED BY <1>2, <2>1, WritesAndRests
<1>4. CASE /\ r.service \in DOMAIN services
           /\ CanUpdateService(r.service, r.server, r.name, r.entries, r.form)
           /\ UpdateServiceRow(r.service, r.server, r.name, r.entries, r.form)
  <2>1. Tables'
    BY <1>1, <1>2, <1>4, UpdateServiceKeeps DEF IInv
  <2> QED BY <1>2, <2>1, WritesAndRests
<1>5. CASE /\ CanAddService(r.server, r.name, r.entries, r.form)
           /\ AddServiceRow(r.server, r.name, r.entries, r.form)
           /\ serial.service < MaxServices
  <2>1. Tables'
    BY <1>1, <1>2, <1>5, AddServiceKeeps DEF IInv
  <2> QED BY <1>2, <2>1, WritesAndRests
<1> QED BY <1>3, <1>4, <1>5 DEF SaveService, SaveNewService

LEMMA ServiceStepsKeep ==
  ASSUME IInv, ServiceSteps
  PROVE  IInv'
<1>1. ASSUME NEW v \in DOMAIN services, DeleteService(v) PROVE IInv'
  BY <1>1, DeleteServiceKeeps, NoneWaitsKeeps DEF DeleteService, IInv
<1>2. ASSUME NEW d \in Entries, AddEntry(d) PROVE IInv'
  <2>1. UNCHANGED request /\ UNCHANGED services
    BY <1>2 DEF AddEntry
  <2> QED BY <1>2, <2>1, AddEntryKeeps, NoneMoves DEF IInv
<1>3. ASSUME NEW d \in Entries, DeleteEntry(d) PROVE IInv'
  <2>1. /\ UNCHANGED request /\ DOMAIN services' = DOMAIN services
        /\ \A v \in DOMAIN services : services'[v].name = services[v].name
                                      /\ services'[v].server = services[v].server
    BY <1>3 DEF DeleteEntry, IInv, Tables, Service
  <2>2. Tables'
    BY <1>3, DeleteEntryKeeps DEF IInv
  <2> QED BY <2>1, <2>2, NoneMoves DEF IInv
<1>4. ASSUME NEW t \in Threads, NEW v \in {NoId} \cup DOMAIN services, NEW s \in DOMAIN servers,
             NEW name \in Names, NEW g \in SUBSET Listed, NEW form \in AccountForms,
             ReadService(t, v, s, name, g, form)
      PROVE  IInv'
  <2> DEFINE r == [op |-> "saveService", service |-> v, server |-> s, name |-> name,
                   entries |-> g, form |-> form]
  <2>1. Form(form)
    <3>1. CASE form = NoAccounts
      BY <3>1 DEF NoAccounts, Form
    <3>2. CASE form \in [provided : {TRUE}, kept : Partial(1 .. serial.account, Row),
                         new : {{}} \cup {{q} : q \in {x \in Row : x.secret = "password" => x.given}}]
      BY <3>2 DEF Form, Partial
    <3> QED BY <3>1, <3>2 DEF AccountForms
  <2>2. RequestOK(r) /\ OnCourse(r, services)
    BY <2>1 DEF RequestOK, OnCourse
  <2>3. request' = [request EXCEPT ![t] = r] /\ Edit /\ UNCHANGED ledger /\ UNCHANGED services
    BY <1>4 DEF ReadService, ledger
  <2> HIDE DEF r
  <2> QED BY <2>2, <2>3, GoesOn, TablesStay DEF IInv
<1> QED BY <1>1, <1>2, <1>3, <1>4, SaveServiceKeeps DEF ServiceSteps

-----------------------------------------------------------------------------
(* Scans and imports.                                                      *)

\* A turn of an import that was on course leaves it on course, if the service
\* it was about is now on the server unless that failed.
LEMMA TurnKeeps ==
  ASSUME Asked, ImportsOnCourse, NEW t \in Threads, request[t].op = "import",
         NEW c \in request[t].todo, NEW failed \in BOOLEAN,
         request[t].failed => failed,
         NEW next, next = [Watched[t] EXCEPT !.todo = @ \ {c}, !.failed = failed],
         Becomes(t, next),
         ~failed /\ ~Watched[t].disturbed =>
            \E v \in DOMAIN services' :
               services'[v].server = request[t].server /\ services'[v].name.stem = c.name.stem
  PROVE  Asked' /\ ImportsOnCourse'
<1> DEFINE w == Watched[t]
           r == request[t]
<1>1. /\ w \in Imports /\ r \in Imports
      /\ \A v \in DOMAIN r.known : r.known[v].server = r.server
      /\ w = [r EXCEPT !.disturbed = w.disturbed]
      /\ OnCourse(w, services')
  BY WatchedIsOK DEF Asked, RequestOK
<1> HIDE DEF w, r
<1>2. /\ w.known = r.known /\ w.server = r.server /\ w.selected = r.selected
      /\ w.todo = r.todo /\ w.failed = r.failed /\ w.op = "import"
  BY <1>1 DEF Imports
<1>3. next \in Imports /\ next.op = "import"
  BY <1>1 DEF Imports, w
<1>4. /\ next.known = r.known /\ next.server = r.server /\ next.selected = r.selected
      /\ next.todo = r.todo \ {c} /\ next.failed = failed /\ next.disturbed = w.disturbed
  BY <1>1, <1>2 DEF Imports, w
<1>5. RequestOK(next)
  BY <1>1, <1>3, <1>4 DEF RequestOK
<1>6. OnCourse(next, services')
  BY <1>1, <1>2, <1>3, <1>4 DEF OnCourse, r, w
<1> QED BY <1>5, <1>6, BecomesKeeps

\* What a turn finds in the copy for a candidate is on the server still.
LEMMA CopyIsTrue ==
  ASSUME IInv, NEW t \in Threads, request[t].op = "import",
         NEW c \in request[t].todo, Matches(request[t].known, c.name) # {}
  PROVE  LET v == Existing(request[t].known, c.name)
         IN  /\ request[t].known[v] \in Service
             /\ request[t].known[v].name.stem = c.name.stem
             /\ ~request[t].failed /\ ~Watched[t].disturbed =>
                   /\ v \in DOMAIN services
                   /\ services[v].server = request[t].server
                   /\ services[v].name.stem = c.name.stem
<1> DEFINE r == request[t]
           v == Existing(r.known, c.name)
<1>1. /\ r \in Imports /\ OnCourse(r, services)
      /\ \A w \in DOMAIN r.known : r.known[w].server = r.server
  BY DEF IInv, Asked, RequestOK, ImportsOnCourse
<1>2. \A w \in DOMAIN r.known : r.known[w] \in Service
  BY <1>1 DEF Imports, Partial
<1>3. v \in Matches(r.known, c.name)
  BY <1>2, ExistingMatches DEF Service
<1>4. v \in DOMAIN r.known /\ r.known[v].name.stem = c.name.stem
  BY <1>3 DEF Matches
<1>5. ~Watched[t].disturbed => ~r.disturbed
  BY WatchedIsOK DEF IInv
<1> HIDE DEF r, v
<1>6. r.op = "import"
  BY DEF r
<1>7. ~r.failed /\ ~r.disturbed => /\ v \in DOMAIN services
                                   /\ services[v].server = r.server
                                   /\ services[v].name.stem = c.name.stem
  BY <1>1, <1>4, <1>6 DEF OnCourse
<1> QED BY <1>2, <1>4, <1>5, <1>7 DEF r, v

LEMMA ImportOneKeeps ==
  ASSUME IInv, NEW t \in Threads, ImportOne(t)
  PROVE  IInv'
<1> DEFINE r == request[t]
           w == Watched[t]
<1>1. /\ r.op = "import" /\ Continue
      /\ UNCHANGED <<dictionary, servers, recorded, scans, overdue>>
  BY DEF ImportOne
<1>2. /\ r \in Imports /\ w \in Imports /\ w.failed = r.failed
      /\ r.failed \in BOOLEAN
  <2>1. r \in Imports
    BY <1>1 DEF IInv, Asked, RequestOK
  <2>2. w \in Imports /\ w = [r EXCEPT !.disturbed = w.disturbed]
    BY <1>1, WatchedIsOK DEF IInv
  <2> HIDE DEF r, w
  <2> QED BY <2>1, <2>2 DEF Imports
<1>3. PICK c \in r.todo :
         LET v == Existing(r.known, c.name)
             old == r.known[v]
             g == (old.entries \cap Systems) \cup r.groups
             rest == [w EXCEPT !.todo = @ \ {c}]
         IN \/ /\ Matches(r.known, c.name) # {} /\ ~r.update
               /\ UNCHANGED <<services, accounts, serial>>
               /\ Becomes(t, rest)
            \/ /\ Matches(r.known, c.name) # {} /\ r.update
               /\ v \in DOMAIN services
               /\ IF CanUpdateService(v, r.server, old.name, g, NoAccounts)
                  THEN UpdateServiceRow(v, r.server, old.name, g, NoAccounts)
                  ELSE UNCHANGED <<services, accounts, serial>>
               /\ Becomes(t, Counted(rest,
                     CanUpdateService(v, r.server, old.name, g, NoAccounts)))
            \/ /\ Matches(r.known, c.name) # {} /\ r.update
               /\ v \notin DOMAIN services
               /\ UNCHANGED <<services, accounts, serial>>
               /\ Becomes(t, Counted(rest,
                     r.server \in DOMAIN servers /\ g \subseteq Listed))
            \/ /\ Matches(r.known, c.name) = {}
               /\ serial.service < MaxServices
               /\ IF CanAddService(r.server, c.name, r.groups, NoAccounts)
                  THEN AddServiceRow(r.server, c.name, r.groups, NoAccounts)
                  ELSE UNCHANGED <<services, accounts, serial>>
               /\ Becomes(t, Counted(rest,
                     CanAddService(r.server, c.name, r.groups, NoAccounts)))
  BY DEF ImportOne
<1> DEFINE v == Existing(r.known, c.name)
           old == r.known[v]
           g == (old.entries \cap Systems) \cup r.groups
           rest == [w EXCEPT !.todo = @ \ {c}]
           canUpdate == CanUpdateService(v, r.server, old.name, g, NoAccounts)
           canAdd == CanAddService(r.server, c.name, r.groups, NoAccounts)
           there == \E u \in DOMAIN services' :
                       services'[u].server = r.server /\ services'[u].name.stem = c.name.stem
<1>4. Form(NoAccounts) /\ NoAccounts.new = {} /\ Cardinality(NoAccounts.new) = 0
      /\ serial.account + 0 <= MaxAccounts
  <2>1. serial.account \in Nat /\ serial.account <= MaxAccounts
    BY LedgerAssumption DEF IInv, Tables, IdsAreSpent, AccountIds
  <2> QED BY <2>1, FS_EmptySet, LedgerAssumption DEF NoAccounts, Form
<1>5. c.name \in Names
  BY <1>2 DEF Imports, Candidate
<1>6. ASSUME Matches(r.known, c.name) # {}
      PROVE  /\ old \in Service /\ old.name.stem = c.name.stem
             /\ ~r.failed /\ ~w.disturbed =>
                   /\ v \in DOMAIN services
                   /\ services[v].server = r.server
                   /\ services[v].name.stem = c.name.stem
  BY <1>1, <1>6, CopyIsTrue
<1>7. ASSUME NEW ok \in BOOLEAN
      PROVE  Counted(rest, ok) = [w EXCEPT !.todo = @ \ {c}, !.failed = r.failed \/ ~ok]
  <2> HIDE DEF w, r
  <2> QED BY <1>2 DEF Counted, Imports
<1>8. rest = [w EXCEPT !.todo = @ \ {c}, !.failed = r.failed]
  <2> HIDE DEF w, r
  <2> QED BY <1>2 DEF Imports
<1>9. ASSUME Tables',
             \/ Becomes(t, rest) /\ (~r.failed /\ ~w.disturbed => there)
             \/ \E ok \in BOOLEAN : /\ Becomes(t, Counted(rest, ok))
                                    /\ ~r.failed /\ ok /\ ~w.disturbed => there
      PROVE  IInv'
  <2>1. PICK failed \in BOOLEAN :
           /\ r.failed => failed
           /\ Becomes(t, [w EXCEPT !.todo = @ \ {c}, !.failed = failed])
           /\ ~failed /\ ~w.disturbed => there
    <3> HIDE DEF w, r, there, rest
    <3> QED BY <1>2, <1>7, <1>8, <1>9
  <2> QED BY <1>1, <1>9, <2>1, TurnKeeps DEF IInv
<1>10. CASE /\ Matches(r.known, c.name) # {}
            /\ UNCHANGED <<services, accounts, serial>>
            /\ Becomes(t, rest)
  <2>1. Tables'
    BY <1>1, <1>10, NothingWritten DEF IInv
  <2>2. ~r.failed /\ ~w.disturbed => there
    BY <1>6, <1>10
  <2> HIDE DEF w, r, there, rest
  <2> QED BY <1>9, <1>10, <2>1, <2>2
<1>11. CASE /\ Matches(r.known, c.name) # {}
            /\ v \in DOMAIN services
            /\ IF canUpdate THEN UpdateServiceRow(v, r.server, old.name, g, NoAccounts)
               ELSE UNCHANGED <<services, accounts, serial>>
            /\ Becomes(t, Counted(rest, canUpdate))
  <2>1. Tables'
    <3>1. CASE canUpdate
      <4>1. old.name \in Names
        BY <1>6, <1>11 DEF Service
      <4> HIDE DEF v, old, g, r
      <4> QED BY <1>1, <1>4, <1>11, <3>1, <4>1, UpdateServiceKeeps DEF IInv
    <3>2. CASE ~canUpdate
      BY <1>1, <1>11, <3>2, NothingWritten DEF IInv
    <3> QED BY <3>1, <3>2
  <2>2. canUpdate => there
    <3> SUFFICES ASSUME canUpdate PROVE there
      OBVIOUS
    <3>1. services' = [services EXCEPT ![v] =
                         [server |-> r.server, name |-> old.name, entries |-> g]]
      BY <1>11 DEF UpdateServiceRow
    <3>2. old.name.stem = c.name.stem
      BY <1>6, <1>11
    <3> HIDE DEF v, old, g, r
    <3> QED BY <1>11, <3>1, <3>2
  <2>3. canUpdate \in BOOLEAN
    BY DEF CanUpdateService
  <2> HIDE DEF w, r, there, rest, canUpdate
  <2> QED BY <1>9, <1>11, <2>1, <2>2, <2>3
<1>12. CASE /\ Matches(r.known, c.name) # {}
            /\ v \notin DOMAIN services
            /\ UNCHANGED <<services, accounts, serial>>
            /\ Becomes(t, Counted(rest, r.server \in DOMAIN servers /\ g \subseteq Listed))
  <2>1. Tables'
    BY <1>1, <1>12, NothingWritten DEF IInv
  <2>2. ~(~r.failed /\ ~w.disturbed)
    BY <1>6, <1>12
  <2> DEFINE ok == r.server \in DOMAIN servers /\ g \subseteq Listed
  <2>3. ok \in BOOLEAN
    OBVIOUS
  <2>4. Becomes(t, Counted(rest, ok))
    BY <1>12
  <2> HIDE DEF w, r, there, rest, ok
  <2> QED BY <1>9, <2>1, <2>2, <2>3, <2>4
<1>13. CASE /\ serial.service < MaxServices
            /\ IF canAdd THEN AddServiceRow(r.server, c.name, r.groups, NoAccounts)
               ELSE UNCHANGED <<services, accounts, serial>>
            /\ Becomes(t, Counted(rest, canAdd))
  <2>1. Tables'
    <3>1. CASE canAdd
      <4> HIDE DEF r
      <4> QED BY <1>1, <1>4, <1>5, <1>13, <3>1, AddServiceKeeps DEF IInv
    <3>2. CASE ~canAdd
      BY <1>1, <1>13, <3>2, NothingWritten DEF IInv
    <3> QED BY <3>1, <3>2
  <2>2. canAdd => there
    <3> SUFFICES ASSUME canAdd PROVE there
      OBVIOUS
    <3>1. services' = services ++ [u \in {serial.service + 1} |->
                         [server |-> r.server, name |-> c.name, entries |-> r.groups]]
      BY <1>13 DEF AddServiceRow
    <3>2. serial.service + 1 \notin DOMAIN services
      BY LedgerAssumption DEF IInv, Tables, IdsAreSpent, ServiceIds
    <3> HIDE DEF r
    <3> QED BY <3>1, <3>2 DEF ++
  <2>3. canAdd \in BOOLEAN
    BY DEF CanAddService
  <2> HIDE DEF w, r, there, rest, canAdd
  <2> QED BY <1>9, <1>13, <2>1, <2>2, <2>3
<1> QED BY <1>3, <1>10, <1>11, <1>12, <1>13

LEMMA ExpiredIsTyped ==
  ASSUME Tables
  PROVE  /\ DOMAIN Expired = DOMAIN scans
         /\ \A c \in DOMAIN scans :
               /\ Expired[c] \in Scan /\ Expired[c].server = scans[c].server
               /\ Expired[c].candidates = scans[c].candidates
BY DEF Expired, Tables, Scan

\* A state of a scan that there is.
LEMMA StatesWritten ==
  ASSUME Tables, DOMAIN scans' = DOMAIN scans,
         \A c \in DOMAIN scans : scans'[c] \in Scan /\ scans'[c].server = scans[c].server,
         overdue' \subseteq DOMAIN scans,
         Ask \/ Continue,
         UNCHANGED <<dictionary, servers, recorded, services, accounts, serial>>
  PROVE  Tables'
<1>1. operations' \in 0 .. MaxOperations
  BY OperationsAreCounted DEF Tables
<1>2. Listed' = Listed /\ IdsAreSpent'
  BY DEF Listed, Tables, IdsAreSpent
<1> QED BY <1>1, <1>2 DEF Tables

LEMMA ScanStepsKeep ==
  ASSUME IInv,
         \/ \E c \in DOMAIN scans : PassTtl(c)
         \/ \E t \in Threads :
               (\E s \in DOMAIN servers : ReadScanned(t, s)) \/ SaveScan(t) \/ ScanFails(t)
  PROVE  IInv'
<1> USE DEF IInv
<1>1. ASSUME NEW c \in DOMAIN scans, PassTtl(c) PROVE IInv'
  <2>1. overdue' \subseteq DOMAIN scans /\ UNCHANGED scans
    BY <1>1 DEF PassTtl, Tables
  <2>2. Tables'
    BY <1>1, <2>1, StatesWritten DEF PassTtl, Tables
  <2> QED BY <1>1, <2>2, NoneMoves DEF PassTtl
<1>2. ASSUME NEW t \in Threads, NEW s \in DOMAIN servers, ReadScanned(t, s) PROVE IInv'
  <2> DEFINE r == [op |-> "scan", server |-> s]
  <2>1. RequestOK(r) /\ OnCourse(r, services)
    BY DEF RequestOK, OnCourse
  <2>2. request' = [request EXCEPT ![t] = r] /\ Ask /\ UNCHANGED ledger /\ UNCHANGED services
    BY <1>2 DEF ReadScanned, ledger
  <2> HIDE DEF r
  <2> QED BY <2>1, <2>2, GoesOn, TablesStay
<1>3. ASSUME NEW t \in Threads, SaveScan(t) PROVE IInv'
  <2> DEFINE n == serial.scan + 1
  <2>1. /\ n \in ScanIds /\ serial.scan \in Nat /\ n \notin DOMAIN scans
        /\ DOMAIN scans \subseteq 1 .. serial.scan
    BY <1>3, LedgerAssumption DEF SaveScan, Tables, IdsAreSpent, ScanIds
  <2>2. PICK answering \in SUBSET Sources, all \in BOOLEAN :
          \E candidates \in Discoveries(Found(answering, all)) :
             scans' = scans ++ [c \in {n} |->
                [server |-> request[t].server, status |-> "ready",
                 candidates |-> candidates]]
    BY <1>3 DEF SaveScan
  <2>3. PICK candidates \in Discoveries(Found(answering, all)) :
             scans' = scans ++ [c \in {n} |->
                [server |-> request[t].server, status |-> "ready",
                 candidates |-> candidates]]
    BY <2>2
  <2> DEFINE row == [server |-> request[t].server, status |-> "ready",
                     candidates |-> candidates]
  <2>4. candidates \in SUBSET Candidate
    <3>1. Found(answering, all) \subseteq Candidate
      BY LedgerAssumption DEF Found, Candidate
    <3> QED BY <3>1 DEF Discoveries
  <2>5. row \in Scan /\ row.server \in DOMAIN servers
    <3>1. request[t].server \in DOMAIN servers /\ DOMAIN servers \subseteq ServerIds
      BY <1>3, LedgerAssumption DEF SaveScan, Tables, IdsAreSpent, ServerIds
    <3> QED BY <2>4, <3>1 DEF Scan
  <2>6. n = serial.scan + 1 /\ serial' = [serial EXCEPT !.scan = n]
    BY <1>3 DEF SaveScan
  <2> HIDE DEF row, n
  <2>7. /\ DOMAIN scans' = DOMAIN scans \cup {n} /\ scans'[n] = row
        /\ \A c \in DOMAIN scans : scans'[c] = scans[c]
    BY <2>1, <2>3 DEF ++, row
  <2>8. DOMAIN scans' \subseteq 1 .. n
    BY <2>1, <2>6, <2>7
  <2>9. \A c \in DOMAIN scans' : scans'[c] \in Scan /\ scans'[c].server \in DOMAIN servers
    BY <2>5, <2>7 DEF Tables
  <2>10. Tables'
    BY <1>3, <2>1, <2>6, <2>7, <2>8, <2>9, ScansWritten DEF SaveScan, Tables
  <2> QED BY <1>3, <2>10, GoesIdle DEF SaveScan
<1>4. ASSUME NEW t \in Threads, ScanFails(t) PROVE IInv'
  <2>1. Tables'
    BY <1>4, TablesStay DEF ScanFails
  <2> QED BY <1>4, <2>1, GoesIdle DEF ScanFails, ledger
<1> QED BY <1>1, <1>2, <1>3, <1>4

LEMMA ProposeImportKeeps ==
  ASSUME IInv, NEW t \in Threads, NEW c \in DOMAIN scans, NEW update \in BOOLEAN,
         ProposeImport(t, c, update)
  PROVE  IInv'
<1>1. PICK selected \in SUBSET scans[c].candidates \ {{}} :
         request' = [request EXCEPT ![t] =
            [op |-> "importCard", scan |-> c, selected |-> selected, update |-> update]]
  BY DEF ProposeImport
<1>2. scans[c].candidates \subseteq Candidate
  BY DEF IInv, Tables, Scan
<1> DEFINE r == [op |-> "importCard", scan |-> c, selected |-> selected, update |-> update]
<1>3. RequestOK(r) /\ OnCourse(r, services)
  BY <1>2 DEF RequestOK, OnCourse
<1> HIDE DEF r
<1>4. Asked' /\ ImportsOnCourse'
  BY <1>1, <1>3, GoesOn DEF ProposeImport, IInv, r
<1>5. overdue' \subseteq DOMAIN scans
  BY DEF ProposeImport, IInv, Tables
<1>6. Tables'
  BY <1>5, ExpiredIsTyped, StatesWritten DEF ProposeImport, IInv
<1> QED BY <1>4, <1>6 DEF IInv

LEMMA BeginImportKeeps ==
  ASSUME IInv, NEW t \in Threads, BeginImport(t)
  PROVE  IInv'
<1> DEFINE card == request[t]
           s == scans[card.scan].server
           known == Restrict(services, ServicesOf(s))
           r == [op |-> "import", scan |-> card.scan, server |-> s,
                 groups |-> servers[s].groups, selected |-> card.selected,
                 todo |-> card.selected, update |-> card.update,
                 known |-> known, failed |-> FALSE, disturbed |-> FALSE]
<1>1. overdue' \subseteq DOMAIN scans
  BY DEF BeginImport, IInv, Tables
<1>2. Tables'
  BY <1>1, ExpiredIsTyped, StatesWritten DEF BeginImport, IInv
<1>3. CASE request' = [request EXCEPT ![t] = Idle]
  BY <1>2, <1>3, GoesIdle DEF BeginImport, IInv
<1>4. CASE IsReady(card.scan) /\ request' = [request EXCEPT ![t] = r]
  <2>1. card.scan \in DOMAIN scans /\ card.scan \in ScanIds
    BY <1>4, LedgerAssumption DEF IsReady, IInv, Tables, IdsAreSpent, ScanIds
  <2>2. s \in DOMAIN servers /\ s \in ServerIds /\ servers[s].groups \subseteq Environments
    BY <2>1 DEF IInv, Tables, Scan, Server
  <2>3. /\ DOMAIN known = ServicesOf(s) /\ known \in [ServicesOf(s) -> Service]
        /\ \A v \in DOMAIN known : known[v] = services[v] /\ v \in DOMAIN services
                                   /\ known[v].server = s
    BY DEF Restrict, ServicesOf, IInv, Tables
  <2>4. known \in Partial(ServiceIds, Service)
    <3>1. ServicesOf(s) \in SUBSET ServiceIds
      BY LedgerAssumption DEF ServicesOf, IInv, Tables, IdsAreSpent, ServiceIds
    <3> HIDE DEF known
    <3> QED BY <2>3, <3>1 DEF Partial
  <2>5. card.selected \subseteq Candidate /\ card.update \in BOOLEAN
    BY DEF BeginImport, IInv, Asked, RequestOK
  <2> HIDE DEF known, s, card
  <2>6. r \in Imports
    BY <2>1, <2>2, <2>4, <2>5 DEF Imports
  <2>7. RequestOK(r)
    BY <2>3, <2>6 DEF RequestOK
  <2>8. OnCourse(r, services)
    BY <2>3 DEF OnCourse
  <2> HIDE DEF r
  <2> QED BY <1>2, <1>4, <2>7, <2>8, GoesOn DEF BeginImport, IInv
<1> QED BY <1>3, <1>4 DEF BeginImport

LEMMA FinishImportKeeps ==
  ASSUME IInv, NEW t \in Threads, FinishImport(t)
  PROVE  IInv'
<1>1. overdue' \subseteq DOMAIN scans
  BY DEF FinishImport, IInv, Tables
<1>2. /\ DOMAIN scans' = DOMAIN scans
      /\ \A c \in DOMAIN scans : scans'[c] \in Scan /\ scans'[c].server = scans[c].server
  BY DEF FinishImport, IInv, Tables, Scan
<1>3. Tables'
  BY <1>1, <1>2, StatesWritten DEF FinishImport, IInv
<1> QED BY <1>3, GoesIdle DEF FinishImport, IInv

LEMMA RestartKeeps ==
  ASSUME IInv, Restart
  PROVE  IInv'
<1>1. Tables'
  BY TablesStay DEF Restart, IInv
<1>2. Asked' /\ ImportsOnCourse'
  BY IdleIsOK DEF Restart, Asked, ImportsOnCourse
<1> QED BY <1>1, <1>2 DEF IInv

LEMMA StepKeeps == IInv /\ [Next]_vars => IInv'
<1> SUFFICES ASSUME IInv, [Next]_vars PROVE IInv'
  OBVIOUS
<1>1. CASE UNCHANGED vars
  <2>1. Tables'
    BY <1>1 DEF vars, IInv, Tables, IdsAreSpent, Listed
  <2>2. Asked' /\ ImportsOnCourse'
    BY <1>1 DEF vars, IInv, Asked, ImportsOnCourse
  <2> QED BY <2>1, <2>2 DEF IInv
<1>2. CASE ImportSteps
  BY <1>2, ScanStepsKeep, ProposeImportKeeps, BeginImportKeeps, ImportOneKeeps,
     FinishImportKeeps DEF ImportSteps
<1> QED BY <1>1, <1>2, ServerStepsKeep, UpsertStepsKeep, ServiceStepsKeep, RestartKeeps DEF Next

LEMMA InitOK == Init => IInv
<1> SUFFICES ASSUME Init PROVE IInv
  OBVIOUS
<1>1. Asked /\ ImportsOnCourse
  BY IdleIsOK DEF Init, Asked, ImportsOnCourse
<1>2. 1 \in ServerIds /\ 1 \in ServiceIds /\ 1 \in AccountIds /\ 0 \in 0 .. MaxOperations
  BY LedgerAssumption DEF ServerIds, ServiceIds, AccountIds
<1>3. /\ dictionary \in [Entries -> {"unused", "listed", "deleted"}]
      /\ DOMAIN servers = {1} /\ servers[1] \in Server
      /\ servers[1].groups \subseteq Listed /\ Fits(servers[1].login)
  BY DEF Init, Server, SavedKey, Credentials, Fits
<1>4. \/ DOMAIN services = {} /\ DOMAIN accounts = {}
      \/ /\ DOMAIN services = {1} /\ services[1] \in Service
         /\ services[1].server = 1 /\ services[1].entries = {}
         /\ DOMAIN accounts = {1} /\ accounts[1] \in Account /\ accounts[1].service = 1
         /\ accounts[1].secret = "password" => accounts[1].stored
  <2>1. CASE services = <<>> /\ accounts = <<>>
    BY <2>1
  <2>2. CASE \E row \in {SavedPassword, SavedKeyFile}, name \in Names :
             /\ services = [v \in {1} |-> [server |-> 1, name |-> name, entries |-> {}]]
             /\ accounts = [i \in {1} |-> [service |-> 1, secret |-> row.secret,
                                          stored |-> row.stored]]
    <3>1. PICK row \in {SavedPassword, SavedKeyFile}, name \in Names :
             /\ services = [v \in {1} |-> [server |-> 1, name |-> name, entries |-> {}]]
             /\ accounts = [i \in {1} |-> [service |-> 1, secret |-> row.secret,
                                          stored |-> row.stored]]
      BY <2>2
    <3>2. /\ row.secret \in {"password", "other"} /\ row.stored \in BOOLEAN
          /\ row.secret = "password" => row.stored = TRUE
      <4>1. CASE row = SavedPassword
        BY <4>1 DEF SavedPassword
      <4>2. CASE row = SavedKeyFile
        BY <4>2 DEF SavedKeyFile
      <4> QED BY <4>1, <4>2
    <3>3. services[1] \in Service /\ accounts[1] \in Account
      BY <1>2, <3>1, <3>2 DEF Service, Account
    <3>4. accounts[1].secret = "password" => accounts[1].stored
      BY <3>1, <3>2
    <3> QED BY <3>1, <3>3, <3>4
  <2> QED BY <2>1, <2>2 DEF Init
<1>5. /\ Cardinality(DOMAIN services) \in {0, 1} /\ Cardinality(DOMAIN accounts) \in {0, 1}
      /\ DOMAIN services \subseteq 1 .. Cardinality(DOMAIN services)
      /\ DOMAIN accounts \subseteq 1 .. Cardinality(DOMAIN accounts)
  <2>1. CASE DOMAIN services = {} /\ DOMAIN accounts = {}
    BY <2>1, FS_EmptySet
  <2>2. CASE DOMAIN services = {1} /\ DOMAIN accounts = {1}
    BY <2>2, FS_Singleton
  <2> QED BY <1>4, <2>1, <2>2
<1>6. DOMAIN scans = {} /\ overdue = {} /\ recorded = {1} /\ operations = 0
  BY DEF Init
<1>7. IdsAreSpent
  BY <1>2, <1>3, <1>5, <1>6 DEF IdsAreSpent, Init
<1>8. Tables
  BY <1>2, <1>3, <1>4, <1>6, <1>7 DEF Tables
<1> QED BY <1>1, <1>8 DEF IInv

-----------------------------------------------------------------------------
(* Theorems.                                                               *)

THEOREM Invariance == Spec => []IInv
<1> QED BY InitOK, StepKeeps, PTL DEF Spec

\* The foreign keys and the UNIQUE constraint of models.py hold of every table,
\* whatever a request has read before it writes.
THEOREM NothingEverDangles == Spec => []NothingDangles
<1>1. ASSUME Tables PROVE NothingDangles
  <2>1. /\ DOMAIN servers \subseteq ServerIds /\ DOMAIN services \subseteq ServiceIds
        /\ DOMAIN accounts \subseteq AccountIds /\ DOMAIN scans \subseteq ScanIds
    BY <1>1, LedgerAssumption
       DEF Tables, IdsAreSpent, ServerIds, ServiceIds, AccountIds, ScanIds
  <2>2. TypeOK
    BY <1>1, <2>1 DEF Tables, TypeOK, IsRows
  <2> QED BY <1>1, <2>2 DEF Tables, NothingDangles, NameIsFree, ServicesOf
<1> QED BY <1>1, Invariance, PTL DEF IInv

\* update_server and add_server store what a server can be logged in with,
\* although the callers chose it by what they had read before.
THEOREM CredentialsAlwaysFit == Spec => []CredentialsFit
<1>1. IInv => CredentialsFit
  BY DEF IInv, Tables, CredentialsFit, Fits
<1> QED BY <1>1, Invariance, PTL

\* _sync_service_accounts leaves no password account without its ciphertext.
THEOREM PasswordsStayStored == Spec => []PasswordsAreStored
<1>1. IInv => PasswordsAreStored
  BY DEF IInv, Tables, PasswordsAreStored
<1> QED BY <1>1, Invariance, PTL

\* An import that has counted no failure at its end, and that was not disturbed,
\* has every selected service on the server, for any number of imports at once.
THEOREM ImportTellsTheTruth == Spec => []ImportIsComplete
<1>1. IInv => ImportIsComplete
  BY DEF IInv, ImportsOnCourse, OnCourse, ImportIsComplete
<1> QED BY <1>1, Invariance, PTL

-----------------------------------------------------------------------------
(* The accounts of a service that stays.                                   *)

SameAccounts(v) ==
    AccountsOf(v)' = AccountsOf(v) /\ \A a \in AccountsOf(v) : accounts'[a] = accounts[a]

LEMMA AccountsUnchanged ==
  ASSUME NEW v, UNCHANGED accounts
  PROVE  SameAccounts(v)
BY DEF SameAccounts, AccountsOf

LEMMA DropLeaves ==
  ASSUME NEW S, NEW v, v \notin S, DropServices(S)
  PROVE  SameAccounts(v)
<1>1. /\ DOMAIN accounts' = {a \in DOMAIN accounts : accounts[a].service \notin S}
      /\ \A a \in DOMAIN accounts' : accounts'[a] = accounts[a]
  BY DEF DropServices, Without, Restrict, AccountsOf
<1> QED BY <1>1 DEF SameAccounts, AccountsOf

\* The form of another service.
LEMMA SyncLeaves ==
  ASSUME Tables, NEW u \in ServiceIds, NEW v, v # u, NEW form, Form(form), Sync(u, form),
         form.provided => SyncSucceeds(u, form),
         serial.account + Cardinality(form.new) <= MaxAccounts
  PROVE  SameAccounts(v)
<1>1. CASE form.provided
  <2>1. accounts' = Synced(u, form)
    BY <1>1 DEF Sync
  <2>2. /\ Rewritten(accounts', u, serial.account + Cardinality(form.new))
        /\ \A a \in DOMAIN accounts : accounts[a].service # u =>
              a \in DOMAIN accounts' /\ accounts'[a] = accounts[a]
    BY <1>1, <2>1, SyncedAccounts
  <2> QED BY <2>2 DEF Rewritten, SameAccounts, AccountsOf
<1>2. CASE ~form.provided
  BY <1>2, AccountsUnchanged DEF Sync
<1> QED BY <1>1, <1>2

\* No step but the saving of a form with an account section reaches the accounts
\* of a service that stays.
LEMMA AccountsMove ==
  ASSUME IInv, [Next]_vars,
         NEW v \in DOMAIN services, v \in DOMAIN services',
         \A t \in Threads : ~(/\ request[t].op = "saveService" /\ request[t].service = v
                              /\ request[t].form.provided
                              /\ request'[t] = Idle)
  PROVE  SameAccounts(v)
<1> USE DEF IInv
<1>1. ASSUME NEW S, DropServices(S) PROVE SameAccounts(v)
  <2>1. v \notin S
    BY <1>1 DEF DropServices, Without, Restrict
  <2> QED BY <1>1, <2>1, DropLeaves
<1>2. ASSUME NEW t \in Threads, SaveService(t) \/ SaveNewService(t) PROVE SameAccounts(v)
  <2> DEFINE r == request[t]
  <2>1. Form(r.form) /\ serial.account + Cardinality(r.form.new) <= MaxAccounts
    BY <1>2 DEF SaveService, SaveNewService, Asked, RequestOK
  <2>2. r.op = "saveService" /\ request'[t] = Idle
    <3>1. r.op = "saveService" /\ Becomes(t, Idle)
      BY <1>2 DEF SaveService, SaveNewService
    <3>2. t \in DOMAIN Watched
      BY DEF Watched
    <3> QED BY <3>1, <3>2 DEF Becomes
  <2>3. CASE UNCHANGED accounts
    BY <2>3, AccountsUnchanged
  <2>4. CASE /\ r.service \in DOMAIN services
             /\ CanUpdateService(r.service, r.server, r.name, r.entries, r.form)
             /\ UpdateServiceRow(r.service, r.server, r.name, r.entries, r.form)
    <3>1. /\ Sync(r.service, r.form)
          /\ r.form.provided => SyncSucceeds(r.service, r.form)
      BY <2>4 DEF CanUpdateService, UpdateServiceRow
    <3>2. CASE r.service = v
      BY <2>2, <3>1, <3>2, AccountsUnchanged DEF Sync
    <3>3. CASE r.service # v
      <4>1. r.service \in ServiceIds
        BY <2>4, LedgerAssumption DEF Tables, IdsAreSpent, ServiceIds
      <4> QED BY <2>1, <3>1, <3>3, <4>1, SyncLeaves
    <3> QED BY <3>2, <3>3
  <2>5. CASE /\ serial.service < MaxServices
             /\ CanAddService(r.server, r.name, r.entries, r.form)
             /\ AddServiceRow(r.server, r.name, r.entries, r.form)
    <3>1. /\ Sync(serial.service + 1, r.form)
          /\ SyncSucceeds(serial.service + 1, r.form)
      BY <2>5 DEF CanAddService, AddServiceRow
    <3>2. serial.service + 1 \in ServiceIds /\ v # serial.service + 1
      BY <2>5, LedgerAssumption DEF Tables, IdsAreSpent, ServiceIds
    <3> QED BY <2>1, <3>1, <3>2, SyncLeaves
  <2> QED BY <1>2, <2>3, <2>4, <2>5 DEF SaveService, SaveNewService
<1>3. ASSUME NEW t \in Threads, ImportOne(t) PROVE SameAccounts(v)
  <2>1. ~NoAccounts.provided
    BY DEF NoAccounts
  <2>2. UNCHANGED accounts
    BY <1>3, <2>1 DEF ImportOne, UpdateServiceRow, AddServiceRow, Sync
  <2> QED BY <2>2, AccountsUnchanged
<1>4. CASE ServerSteps
  <2>1. CASE \E s \in DOMAIN servers : DeleteServer(s)
    BY <1>1, <2>1 DEF DeleteServer
  <2>2. CASE ~\E s \in DOMAIN servers : DeleteServer(s)
    <3>1. UNCHANGED accounts
      BY <1>4, <2>2 DEF ServerSteps, Record, AddServer, ReadServer, SaveServer,
                        SaveNewServer, Forget, ledger
    <3> QED BY <3>1, AccountsUnchanged
  <2> QED BY <2>1, <2>2
<1>5. CASE UpsertSteps
  <2>1. UNCHANGED accounts
    BY <1>5 DEF UpsertSteps, CheckUpsert, ProposeUpsert, ledger
  <2> QED BY <2>1, AccountsUnchanged
<1>6. CASE ServiceSteps
  <2>1. CASE \E u \in DOMAIN services : DeleteService(u)
    BY <1>1, <2>1 DEF DeleteService
  <2>2. CASE ~(\E u \in DOMAIN services : DeleteService(u))
             /\ ~(\E t \in Threads : SaveService(t) \/ SaveNewService(t))
    <3>1. UNCHANGED accounts
      BY <1>6, <2>2 DEF ServiceSteps, AddEntry, DeleteEntry, ReadService, ledger
    <3> QED BY <3>1, AccountsUnchanged
  <2> QED BY <1>2, <2>1, <2>2
<1>7. CASE ImportSteps
  <2>1. CASE ~\E t \in Threads : ImportOne(t)
    <3>1. UNCHANGED accounts
      BY <1>7, <2>1 DEF ImportSteps, PassTtl, ReadScanned, SaveScan, ScanFails,
                        ProposeImport, BeginImport, FinishImport, ledger
    <3> QED BY <3>1, AccountsUnchanged
  <2> QED BY <1>3, <2>1
<1>8. CASE Restart
  BY <1>8, AccountsUnchanged DEF Restart, ledger
<1>9. CASE UNCHANGED vars
  BY <1>9, AccountsUnchanged DEF vars
<1> QED BY <1>4, <1>5, <1>6, <1>7, <1>8, <1>9 DEF Next

\* An ordinary edit of a service, an import and every other step leave the
\* accounts of a service that stays as they are (accounts_provided).
THEOREM AccountsStayAlone == Spec => AccountsAreLeftAlone
<1> DEFINE Alone ==
      \A v \in DOMAIN services \cap DOMAIN services' :
        Restrict(accounts, AccountsOf(v)) # Restrict(accounts, AccountsOf(v))'
        => \E t \in Threads :
              /\ request[t].op = "saveService" /\ request[t].service = v
              /\ request[t].form.provided
              /\ request'[t] = Idle
<1>1. IInv /\ [Next]_vars => Alone
  <2> SUFFICES ASSUME IInv, [Next]_vars, NEW v \in DOMAIN services \cap DOMAIN services',
                      \A t \in Threads : ~(/\ request[t].op = "saveService"
                                           /\ request[t].service = v
                                           /\ request[t].form.provided
                                           /\ request'[t] = Idle)
               PROVE  Restrict(accounts, AccountsOf(v)) = Restrict(accounts, AccountsOf(v))'
    OBVIOUS
  <2>1. SameAccounts(v)
    BY AccountsMove
  <2> QED BY <2>1 DEF SameAccounts, Restrict
<1>2. IInv /\ [Next]_vars => [Alone]_vars
  BY <1>1
<1> QED BY <1>2, Invariance, PTL DEF Spec, AccountsAreLeftAlone
=============================================================================
