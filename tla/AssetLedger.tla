----------------------------- MODULE AssetLedger -----------------------------
(***************************************************************************)
(* The asset ledger: servers with their credentials, environments and      *)
(* systems, services with their accounts, and the two ways the assistant   *)
(* writes to it: a server registered through a card, and services found on *)
(* a server imported from a scan (app.py, models.py, ai_tools.py,          *)
(* service_discovery.py).                                                  *)
(*                                                                         *)
(* A request reads and validates in one transaction or several and writes  *)
(* in a later one; what it has read may be stale by then.  The reads of a  *)
(* request are one step, every writing transaction is one step.            *)
(***************************************************************************)
EXTENDS Naturals, FiniteSets, Functions

CONSTANTS
    Environments,   \* ids of service_environments (mirrored in server_groups)
    Systems,        \* ids of service_systems
    Targets,        \* address, port and user of a machine
    Stems,          \* names of services up to upper and lower case
    Programs,       \* what runs on a machine: [source, name, system]
    Threads,        \* request threads
    MaxServers, MaxServices, MaxAccounts, MaxScans,  \* bounds: ids given out
    MaxOperations   \* bound: operations begun, an edit by hand counted twice

Sources == {"docker", "pm2", "systemd", "listeners"}
\* Names that differ only in case are different names to the UNIQUE constraint
\* and the same name to an import.
Names == [stem : Stems, capital : BOOLEAN]

ASSUME LedgerAssumption ==
    /\ Environments \cap Systems = {}
    /\ Programs \subseteq [source : Sources, name : Names, system : BOOLEAN]
    /\ {MaxServers, MaxServices, MaxAccounts} \subseteq Nat \ {0}
    /\ {MaxScans, MaxOperations} \subseteq Nat

VARIABLES
    dictionary,  \* which environments and systems are listed
    servers,     \* rows of servers with their environments
    recorded,    \* servers with a row in server_hardware_snapshots
    services,    \* rows of service_infos with their environments and systems
    accounts,    \* rows of service_accounts
    scans,       \* rows of ai_service_discovery_scans
    overdue,     \* scans whose expires_at has passed
    serial,      \* the last id given out (AUTOINCREMENT)
    request,     \* request[t]: what the thread has read and will write
    operations   \* operations begun so far

vars == <<dictionary, servers, recorded, services, accounts, scans, overdue,
          serial, request, operations>>
ledger == <<dictionary, servers, recorded, services, accounts, scans, overdue,
            serial>>

Entries == Environments \cup Systems
ServerIds == 1 .. MaxServers
ServiceIds == 1 .. MaxServices
AccountIds == 1 .. MaxAccounts
ScanIds == 1 .. MaxScans
NoId == 0

\* auth_type, enc_password, enc_private_key and enc_key_passphrase: no text, the
\* passphrase that opens the locked key beside it, or any other text.
Credentials == [auth : {"password", "key"}, password : BOOLEAN,
                key : {"none", "plain", "locked"}, phrase : {"none", "own", "other"}]
Server == [target : Targets, login : Credentials, groups : SUBSET Environments]
Service == [server : ServerIds, name : Names, entries : SUBSET Entries]
Account == [service : ServiceIds, secret : {"password", "other"}, stored : BOOLEAN]
Candidate == [source : Sources, name : Names]
Scan == [server : ServerIds, status : {"ready", "imported", "expired"},
         candidates : SUBSET Candidate]

Idle == [op |-> "idle"]
Listed == {d \in Entries : dictionary[d] = "listed"}
Partial(D, R) == UNION {[S -> R] : S \in SUBSET D}
\* The rows of a table and the rows of another that it does not have.
f ++ g == [x \in DOMAIN f \cup DOMAIN g |-> IF x \in DOMAIN f THEN f[x] ELSE g[x]]
IsRows(f, D, R) == DOMAIN f \subseteq D /\ \A x \in DOMAIN f : f[x] \in R

\* What a submitted form says of the accounts: nothing, or the rows it keeps
\* (with or without a new password) and a new one.
Row == [secret : {"password", "other"}, given : BOOLEAN]
NoAccounts == [provided |-> FALSE, kept |-> <<>>, new |-> {}]
AccountForms ==
    {NoAccounts} \cup
    [provided : {TRUE}, kept : Partial(1 .. serial.account, Row),
     new : {{}} \cup {{r} : r \in {x \in Row : x.secret = "password" => x.given}}]

-----------------------------------------------------------------------------
(* The ledger at the start: one server, at most one service with an account *)

SavedKey == [auth |-> "key", password |-> FALSE, key |-> "locked", phrase |-> "own"]
SavedPassword == [secret |-> "password", stored |-> TRUE]
SavedKeyFile == [secret |-> "other", stored |-> FALSE]

Init ==
    /\ \E listed \in BOOLEAN, x \in Targets :
          /\ dictionary = [d \in Entries |-> IF listed THEN "listed" ELSE "unused"]
          /\ servers = [s \in {1} |-> [target |-> x, login |-> SavedKey,
                                       groups |-> Listed \cap Environments]]
    /\ recorded = {1}
    /\ \/ services = <<>> /\ accounts = <<>>
       \/ \E row \in {SavedPassword, SavedKeyFile}, name \in Names :
             /\ name.capital
             /\ services = [v \in {1} |-> [server |-> 1, name |-> name, entries |-> {}]]
             /\ accounts = [i \in {1} |-> [service |-> 1, secret |-> row.secret,
                                          stored |-> row.stored]]
    /\ scans = <<>> /\ overdue = {}
    /\ serial = [server |-> 1, service |-> Cardinality(DOMAIN services),
                 account |-> Cardinality(DOMAIN accounts), scan |-> 0]
    /\ request = [t \in Threads |-> Idle]
    /\ operations = 0

MayBegin(weight) == operations + weight <= MaxOperations
Begin(weight) == MayBegin(weight) /\ operations' = operations + weight
Edit == Begin(2)
Ask == Begin(1)
Continue == UNCHANGED operations

-----------------------------------------------------------------------------
(* Imports watch the services: an import is disturbed when a service is    *)
(* deleted, renamed or moved while it runs.                                *)

Lost(v) ==
    \/ v \notin DOMAIN services'
    \/ services'[v].name # services[v].name
    \/ services'[v].server # services[v].server

Watched ==
    [t \in Threads |->
        IF request[t].op = "import" /\ \E v \in DOMAIN services : Lost(v)
        THEN [request[t] EXCEPT !.disturbed = TRUE] ELSE request[t]]

Becomes(t, r) == request' = [Watched EXCEPT ![t] = r]
NoneWaits == request' = Watched

-----------------------------------------------------------------------------
(* Deletion, with the rows that hang on what is deleted (ON DELETE CASCADE) *)

Without(f, S) == Restrict(f, DOMAIN f \ S)
ServicesOf(s) == {v \in DOMAIN services : services[v].server = s}
AccountsOf(v) == {a \in DOMAIN accounts : accounts[a].service = v}
ScansOf(s) == {c \in DOMAIN scans : scans[c].server = s}

\* Slip: no foreign key removes the rows that hang on a service.
DropServicesAlone(S) == services' = Without(services, S) /\ UNCHANGED accounts

DropServices(S) ==
    /\ services' = Without(services, S)
    /\ accounts' = Without(accounts, UNION {AccountsOf(v) : v \in S})

\* api_services, DELETE.
DeleteService(v) ==
    /\ v \in DOMAIN services
    /\ Edit
    /\ DropServices({v})
    /\ NoneWaits
    /\ UNCHANGED <<dictionary, servers, recorded, scans, overdue, serial>>

\* api_servers, DELETE.
DeleteServer(s) ==
    /\ s \in DOMAIN servers
    /\ Edit
    /\ servers' = Without(servers, {s})
    /\ recorded' = recorded \ {s}
    /\ DropServices(ServicesOf(s))
    /\ scans' = Without(scans, ScansOf(s))
    /\ overdue' = overdue \ ScansOf(s)
    /\ NoneWaits
    /\ UNCHANGED <<dictionary, serial>>

\* api_groups, api_service_systems, api_service_environments: an entry that is
\* added again has a new id.
AddEntry(d) ==
    /\ dictionary[d] = "unused"
    /\ Edit
    /\ dictionary' = [dictionary EXCEPT ![d] = "listed"]
    /\ UNCHANGED <<servers, recorded, services, accounts, scans, overdue, serial, request>>

DeleteEntry(d) ==
    /\ d \in Listed
    /\ Edit
    /\ dictionary' = [dictionary EXCEPT ![d] = "deleted"]
    /\ servers' = [s \in DOMAIN servers |-> [servers[s] EXCEPT !.groups = @ \ {d}]]
    /\ services' = [v \in DOMAIN services |-> [services[v] EXCEPT !.entries = @ \ {d}]]
    /\ UNCHANGED <<recorded, accounts, scans, overdue, serial, request>>

-----------------------------------------------------------------------------
(* Servers.                                                                *)

NoLogin == [auth |-> "password", password |-> FALSE, key |-> "none", phrase |-> "none"]

\* What a form may carry: a key is parsed with the passphrase beside it, so a
\* locked one comes with its own.  A plain key is parsed whatever stands there,
\* and without a key nothing looks at the passphrase.
LoginForms == {f \in Credentials : f.key = "locked" <=> f.phrase = "own"}

Supplied(f) == IF f.auth = "password" THEN f.password ELSE f.key # "none"

\* A change of the authentication type needs the new secret.
Accepts(f, old) == f.auth = old.auth \/ Supplied(f)

\* Slip: a passphrase that is typed is stored, though the key is the old one.
PhraseAsTyped(f, old) == IF f.phrase # "none" THEN f.phrase ELSE old.phrase

\* The passphrase goes with the key: kept with a kept key, replaced with it.
Phrase(f, old) == IF f.key # "none" THEN f.phrase ELSE old.phrase

Stored(f, old) ==
    IF f.auth = "password"
    THEN [NoLogin EXCEPT !.password = f.password \/ old.password]
    ELSE [auth |-> "key", password |-> FALSE,
          key |-> IF f.key # "none" THEN f.key ELSE old.key,
          phrase |-> Phrase(f, old)]

\* add_server: environments that do not exist (any more) are passed over.
AddServerRow(x, login, g) ==
    /\ serial.server < MaxServers
    /\ serial' = [serial EXCEPT !.server = @ + 1]
    /\ servers' = servers ++ [s \in {serial.server + 1} |->
                     [target |-> x, login |-> login, groups |-> g \cap Listed]]

\* api_servers, POST.
AddServer(x, f, g) ==
    /\ Supplied(f)
    /\ Edit
    /\ AddServerRow(x, Stored(f, NoLogin), g)
    /\ UNCHANGED <<dictionary, recorded, services, accounts, scans, overdue, request>>

\* api_servers, PUT, up to update_server: get_server, validation, what is kept.
ReadServer(t, s, x, f, g) ==
    /\ request[t] = Idle /\ s \in DOMAIN servers
    /\ Edit
    /\ Accepts(f, servers[s].login)
    /\ request' = [request EXCEPT ![t] =
            [op |-> "saveServer", by |-> "user", server |-> s, target |-> x,
             login |-> Stored(f, servers[s].login), groups |-> g,
             moved |-> x # servers[s].target]]
    /\ UNCHANGED ledger

\* The first half of _ai_exec_upsert_server: the card is approved, the server
\* it names is read again, and a connection is made with what will be stored.
CheckUpsert(t, f) ==
    LET card == request[t]
        new == card.server = NoId
        old == IF new THEN NoLogin ELSE servers[card.server].login
    IN /\ card.op = "upsertCard"
       /\ f.auth = card.auth
       /\ IF card.keep THEN ~Supplied(f) ELSE Supplied(f)
       /\ Continue
       /\ IF \/ ~new /\ card.server \notin DOMAIN servers
             \/ ~new /\ ~Accepts(f, old)
          THEN request' = [request EXCEPT ![t] = Idle]
          ELSE \/ request' = [request EXCEPT ![t] =
                    [op |-> "saveServer", by |-> "assistant", server |-> card.server,
                     target |-> card.target, login |-> Stored(f, old),
                     groups |-> card.groups,
                     moved |-> ~new /\ card.target # servers[card.server].target]]
               \/ request' = [request EXCEPT ![t] = Idle]   \* no connection
       /\ UNCHANGED ledger

\* update_server, one transaction: the row and its environments, or nothing when
\* an environment is gone.  A row that is gone is not noticed by the callers.
SaveServer(t) ==
    LET r == request[t]
    IN /\ r.op = "saveServer" /\ r.server # NoId
       /\ Continue
       /\ IF r.server \in DOMAIN servers /\ r.groups \subseteq Listed
          THEN servers' = [servers EXCEPT ![r.server] =
                    [target |-> r.target, login |-> r.login, groups |-> r.groups]]
          ELSE UNCHANGED servers
       /\ IF r.moved /\ ~(r.server \in DOMAIN servers /\ ~(r.groups \subseteq Listed))
          THEN request' = [request EXCEPT ![t] = [op |-> "forget", server |-> r.server]]
          ELSE request' = [request EXCEPT ![t] = Idle]
       /\ UNCHANGED <<dictionary, recorded, services, accounts, scans, overdue, serial>>

\* add_server for the assistant.
SaveNewServer(t) ==
    LET r == request[t]
    IN /\ r.op = "saveServer" /\ r.server = NoId
       /\ Continue
       /\ AddServerRow(r.target, r.login, r.groups)
       /\ request' = [request EXCEPT ![t] = Idle]
       /\ UNCHANGED <<dictionary, recorded, services, accounts, scans, overdue>>

\* reset_resource_configuration of a user's edit, delete_server_hardware of the
\* assistant's.  What the former deletes besides is in ResourceConfig.
Forget(t) ==
    /\ request[t].op = "forget"
    /\ Continue
    /\ recorded' = recorded \ {request[t].server}
    /\ request' = [request EXCEPT ![t] = Idle]
    /\ UNCHANGED <<dictionary, servers, services, accounts, scans, overdue, serial>>

\* The hardware monitor or an inspection.
Record(s) ==
    /\ s \in DOMAIN servers \ recorded
    /\ Continue
    /\ recorded' = recorded \cup {s}
    /\ UNCHANGED <<dictionary, servers, services, accounts, scans, overdue, serial, request>>

\* _normalize_upsert_server: what a card can ask for when it is made.
ProposeUpsert(t, s, x, auth, keep, g) ==
    /\ request[t] = Idle
    /\ Edit
    /\ IF s = NoId
       THEN /\ ~keep
            /\ \A other \in DOMAIN servers : servers[other].target # x
       ELSE /\ s \in DOMAIN servers
            /\ auth # servers[s].login.auth => ~keep
    /\ g \subseteq Listed
    /\ request' = [request EXCEPT ![t] =
            [op |-> "upsertCard", server |-> s, target |-> x, auth |-> auth,
             keep |-> keep, groups |-> g]]
    /\ UNCHANGED ledger

-----------------------------------------------------------------------------
(* Services and their accounts.                                            *)

\* UNIQUE(server_id, name).
NameIsFree(v, s, name) ==
    \A w \in ServicesOf(s) \ {v} : services[w].name # name

\* The account rows as _sync_service_accounts leaves them: kept rows take what
\* is given, rows that are not named go, a new row gets an id.
Synced(v, form) ==
    LET others == Without(accounts, AccountsOf(v))
        kept == [a \in DOMAIN form.kept |->
                    [service |-> v, secret |-> form.kept[a].secret,
                     stored |-> form.kept[a].given \/ accounts[a].stored]]
        new == [a \in {serial.account + 1 : r \in form.new} |->
                    LET r == CHOOSE r \in form.new : TRUE
                    IN [service |-> v, secret |-> r.secret, stored |-> r.given]]
    IN others ++ kept ++ new

\* Slip: the rows are not looked at again before the commit.
SyncAnyhow(v, form) == DOMAIN form.kept \subseteq AccountsOf(v)

\* The rows named exist, and every password that is stored is there.
SyncSucceeds(v, form) ==
    /\ DOMAIN form.kept \subseteq AccountsOf(v)
    /\ \A a \in DOMAIN Synced(v, form) :
          LET row == Synced(v, form)[a]
          IN row.service = v /\ row.secret = "password" => row.stored

\* Slip: a form without accounts means that there are none.
SyncAlways(v, form) == accounts' = Synced(v, form)

Sync(v, form) ==
    IF form.provided THEN accounts' = Synced(v, form) ELSE UNCHANGED accounts

\* add_service and update_service: one transaction that is rolled back whole.
CanAddService(s, name, g, form) ==
    /\ s \in DOMAIN servers
    /\ NameIsFree(NoId, s, name)
    /\ g \subseteq Listed
    /\ SyncSucceeds(serial.service + 1, form)

AddServiceRow(s, name, g, form) ==
    /\ services' = services ++ [v \in {serial.service + 1} |->
                      [server |-> s, name |-> name, entries |-> g]]
    /\ Sync(serial.service + 1, form)
    /\ serial' = [serial EXCEPT !.service = @ + 1,
                                !.account = @ + Cardinality(form.new)]

CanUpdateService(v, s, name, g, form) ==
    /\ s \in DOMAIN servers
    /\ NameIsFree(v, s, name)
    /\ g \subseteq Listed
    /\ form.provided => SyncSucceeds(v, form)

UpdateServiceRow(v, s, name, g, form) ==
    /\ services' = [services EXCEPT ![v] =
                      [server |-> s, name |-> name, entries |-> g]]
    /\ Sync(v, form)
    /\ serial' = [serial EXCEPT !.account = @ + Cardinality(form.new)]

\* api_services, POST and PUT, up to the write: get_service,
\* validate_service_payload, _clean_accounts and _encrypt_account_rows.
ReadService(t, v, s, name, g, form) ==
    /\ request[t] = Idle
    /\ Edit
    /\ IF v = NoId THEN DOMAIN form.kept = {} ELSE v \in DOMAIN services
    /\ s \in DOMAIN servers /\ g \subseteq Listed
    /\ request' = [request EXCEPT ![t] =
            [op |-> "saveService", service |-> v, server |-> s, name |-> name,
             entries |-> g, form |-> form]]
    /\ UNCHANGED ledger

SaveService(t) ==
    LET r == request[t]
    IN /\ r.op = "saveService" /\ r.service # NoId
       /\ Continue
       /\ serial.account + Cardinality(r.form.new) <= MaxAccounts
       /\ IF /\ r.service \in DOMAIN services
             /\ CanUpdateService(r.service, r.server, r.name, r.entries, r.form)
          THEN UpdateServiceRow(r.service, r.server, r.name, r.entries, r.form)
          ELSE UNCHANGED <<services, accounts, serial>>
       /\ Becomes(t, Idle)
       /\ UNCHANGED <<dictionary, servers, recorded, scans, overdue>>

SaveNewService(t) ==
    LET r == request[t]
    IN /\ r.op = "saveService" /\ r.service = NoId
       /\ Continue
       /\ serial.service < MaxServices
       /\ serial.account + Cardinality(r.form.new) <= MaxAccounts
       /\ IF CanAddService(r.server, r.name, r.entries, r.form)
          THEN AddServiceRow(r.server, r.name, r.entries, r.form)
          ELSE UNCHANGED <<services, accounts, serial>>
       /\ Becomes(t, Idle)
       /\ UNCHANGED <<dictionary, servers, recorded, scans, overdue>>

-----------------------------------------------------------------------------
(* Scans.                                                                  *)

\* discover: what the collectors that answered report.  A listening process is
\* left out when its name is part of the name of a service that was found, and
\* one service is kept of those a collector reports under names equal but for
\* case.
Found(answering, all) ==
    LET visible == {p \in Programs : p.source \in answering}
        units == {p \in visible : p.source # "listeners"
                                   /\ (p.source = "systemd" /\ p.system => all)}
        listening == {p \in visible :
            p.source = "listeners" /\ \A u \in units : u.name.stem # p.name.stem}
    IN {[source |-> p.source, name |-> p.name] : p \in units \cup listening}

Discoveries(found) ==
    {candidates \in SUBSET found :
        \A c \in found : Cardinality({d \in candidates :
            d.source = c.source /\ d.name.stem = c.name.stem}) = 1}

\* _tool_discover_server_services and its runner.
ReadScanned(t, s) ==
    /\ request[t] = Idle /\ s \in DOMAIN servers
    /\ Ask
    /\ request' = [request EXCEPT ![t] = [op |-> "scan", server |-> s]]
    /\ UNCHANGED ledger

SaveScan(t) ==
    /\ request[t].op = "scan" /\ request[t].server \in DOMAIN servers
    /\ serial.scan < MaxScans
    /\ Continue
    /\ \E answering \in SUBSET Sources, all \in BOOLEAN :
          \E candidates \in Discoveries(Found(answering, all)) :
             scans' = scans ++ [c \in {serial.scan + 1} |->
                [server |-> request[t].server, status |-> "ready",
                 candidates |-> candidates]]
    /\ serial' = [serial EXCEPT !.scan = @ + 1]
    /\ request' = [request EXCEPT ![t] = Idle]
    /\ UNCHANGED <<dictionary, servers, recorded, services, accounts, overdue>>

\* No connection, or the server is gone when the scan is stored.
ScanFails(t) ==
    /\ request[t].op = "scan"
    /\ Continue
    /\ request' = [request EXCEPT ![t] = Idle]
    /\ UNCHANGED ledger

\* The clock passes expires_at.
PassTtl(c) ==
    /\ c \in DOMAIN scans \ overdue
    /\ Continue
    /\ overdue' = overdue \cup {c}
    /\ UNCHANGED <<dictionary, servers, recorded, services, accounts, scans,
                   serial, request>>

\* expire_ai_service_discovery_scans.
Expired == [c \in DOMAIN scans |->
    IF c \in overdue /\ scans[c].status = "ready"
    THEN [scans[c] EXCEPT !.status = "expired"] ELSE scans[c]]

IsReady(c) == c \in DOMAIN scans /\ Expired[c].status = "ready"

-----------------------------------------------------------------------------
(* Imports.                                                                *)

\* _normalize_import_discovered_services: the card.
ProposeImport(t, c, update) ==
    /\ request[t] = Idle
    /\ Ask
    /\ scans' = Expired
    /\ IsReady(c)
    /\ \E selected \in SUBSET scans[c].candidates \ {{}} :
          request' = [request EXCEPT ![t] =
            [op |-> "importCard", scan |-> c, selected |-> selected, update |-> update]]
    /\ UNCHANGED <<dictionary, servers, recorded, services, accounts, overdue, serial>>

\* The first half of _ai_exec_import_discovered_services: the scan, the server
\* and a copy of its services.
BeginImport(t) ==
    LET card == request[t]
        s == scans[card.scan].server
    IN /\ card.op = "importCard"
       /\ Continue
       /\ scans' = Expired
       /\ IF IsReady(card.scan)
          THEN request' = [request EXCEPT ![t] =
                 [op |-> "import", scan |-> card.scan, server |-> s,
                  groups |-> servers[s].groups, selected |-> card.selected,
                  todo |-> card.selected, update |-> card.update,
                  known |-> Restrict(services, ServicesOf(s)),
                  failed |-> FALSE, disturbed |-> FALSE]]
          ELSE request' = [request EXCEPT ![t] = Idle]
       /\ UNCHANGED <<dictionary, servers, recorded, services, accounts, overdue, serial>>

\* existing_by_name: the last service by name with the candidate's name in
\* small letters (capitals sort first).
Matches(known, name) == {v \in DOMAIN known : known[v].name.stem = name.stem}
Existing(known, name) ==
    CHOOSE v \in Matches(known, name) :
        known[v].name.capital => \A w \in Matches(known, name) : known[w].name.capital

\* Slip: an exception of one service is only logged.
Passed(r, ok) == r

Counted(r, ok) == [r EXCEPT !.failed = @ \/ ~ok]

\* One turn of the loop: a service that was there is left or updated from the
\* copy, with the environments of the server; another is added.  What cannot be
\* written is counted and the loop goes on.
ImportOne(t) ==
    /\ request[t].op = "import"
    /\ Continue
    /\ \E c \in request[t].todo :
          LET r == request[t]
              v == Existing(r.known, c.name)
              old == r.known[v]
              g == (old.entries \cap Systems) \cup r.groups
              rest == [Watched[t] EXCEPT !.todo = @ \ {c}]
          IN \/ /\ Matches(r.known, c.name) # {} /\ ~r.update
                /\ UNCHANGED <<services, accounts, serial>>
                /\ Becomes(t, rest)
             \/ /\ Matches(r.known, c.name) # {} /\ r.update
                /\ v \in DOMAIN services
                /\ IF CanUpdateService(v, r.server, old.name, g, NoAccounts)
                   THEN UpdateServiceRow(v, r.server, old.name, g, NoAccounts)
                   ELSE UNCHANGED <<services, accounts, serial>>
                /\ Becomes(t, Counted(rest,
                      CanUpdateService(v, r.server, old.name, g, NoAccounts)))
             \/ \* the row is gone: only what is validated before can fail
                /\ Matches(r.known, c.name) # {} /\ r.update
                /\ v \notin DOMAIN services
                /\ UNCHANGED <<services, accounts, serial>>
                /\ Becomes(t, Counted(rest,
                      r.server \in DOMAIN servers /\ g \subseteq Listed))
             \/ /\ Matches(r.known, c.name) = {}
                /\ serial.service < MaxServices
                /\ IF CanAddService(r.server, c.name, r.groups, NoAccounts)
                   THEN AddServiceRow(r.server, c.name, r.groups, NoAccounts)
                   ELSE UNCHANGED <<services, accounts, serial>>
                /\ Becomes(t, Counted(rest,
                      CanAddService(r.server, c.name, r.groups, NoAccounts)))
    /\ UNCHANGED <<dictionary, servers, recorded, scans, overdue>>

\* finish_ai_service_discovery_scan, unless a service failed, and the report.
FinishImport(t) ==
    LET r == request[t]
    IN /\ r.op = "import" /\ r.todo = {}
       /\ Continue
       /\ scans' = [c \in DOMAIN scans |->
             IF c = r.scan /\ ~r.failed /\ scans[c].status = "ready"
             THEN [scans[c] EXCEPT !.status = "imported"] ELSE scans[c]]
       /\ request' = [request EXCEPT ![t] = Idle]
       /\ UNCHANGED <<dictionary, servers, recorded, services, accounts, overdue, serial>>

\* The process is restarted: nothing but the tables is left.
Restart ==
    /\ \E t \in Threads : request[t] # Idle
    /\ Continue
    /\ request' = [t \in Threads |-> Idle]
    /\ UNCHANGED ledger

-----------------------------------------------------------------------------
ServerSteps ==
    \/ \E s \in DOMAIN servers : DeleteServer(s) \/ Record(s)
    \/ /\ MayBegin(2)
       /\ \E x \in Targets, f \in LoginForms, g \in SUBSET Environments :
             \/ AddServer(x, f, g)
             \/ \E t \in Threads, s \in DOMAIN servers : ReadServer(t, s, x, f, g)
    \/ \E t \in Threads : SaveServer(t) \/ SaveNewServer(t) \/ Forget(t)

UpsertSteps ==
    \E t \in Threads :
        \/ \E f \in LoginForms : CheckUpsert(t, f)
        \/ /\ MayBegin(2)
           /\ \E s \in {NoId} \cup DOMAIN servers, x \in Targets,
                 auth \in {"password", "key"}, keep \in BOOLEAN,
                 g \in SUBSET Environments : ProposeUpsert(t, s, x, auth, keep, g)

ServiceSteps ==
    \/ \E v \in DOMAIN services : DeleteService(v)
    \/ \E d \in Entries : AddEntry(d) \/ DeleteEntry(d)
    \/ \E t \in Threads :
          \/ SaveService(t) \/ SaveNewService(t)
          \/ /\ MayBegin(2) /\ request[t] = Idle
             /\ \E v \in {NoId} \cup DOMAIN services, s \in DOMAIN servers,
                   name \in Names, g \in SUBSET Listed, form \in AccountForms :
                   ReadService(t, v, s, name, g, form)

ImportSteps ==
    \/ \E c \in DOMAIN scans : PassTtl(c)
    \/ \E t \in Threads :
          \/ \E s \in DOMAIN servers : ReadScanned(t, s)
          \/ SaveScan(t) \/ ScanFails(t)
          \/ \E c \in DOMAIN scans, update \in BOOLEAN : ProposeImport(t, c, update)
          \/ BeginImport(t) \/ ImportOne(t) \/ FinishImport(t)

Next == ServerSteps \/ UpsertSteps \/ ServiceSteps \/ ImportSteps \/ Restart

Spec == Init /\ [][Next]_vars

-----------------------------------------------------------------------------
(* Properties.                                                             *)

\* The tables hold rows of their types (part of NothingDangles).
TypeOK ==
    /\ dictionary \in [Entries -> {"unused", "listed", "deleted"}]
    /\ IsRows(servers, ServerIds, Server)
    /\ recorded \subseteq ServerIds
    /\ IsRows(services, ServiceIds, Service)
    /\ IsRows(accounts, AccountIds, Account)
    /\ IsRows(scans, ScanIds, Scan)
    /\ overdue \subseteq DOMAIN scans
    /\ operations \in 0 .. MaxOperations

\* Every row has its type, and none hangs on a row that is gone: services, scans
\* and hardware on their server, accounts on their service, memberships on an
\* entry that is listed; no two services of a server have one name (the foreign
\* keys and the UNIQUE constraint of models.py, kept by every request whatever
\* it has read before).
NothingDangles ==
    /\ TypeOK
    /\ recorded \subseteq DOMAIN servers
    /\ \A s \in DOMAIN servers : servers[s].groups \subseteq Listed
    /\ \A v \in DOMAIN services :
          /\ services[v].server \in DOMAIN servers
          /\ services[v].entries \subseteq Listed
          /\ NameIsFree(v, services[v].server, services[v].name)
    /\ \A a \in DOMAIN accounts : accounts[a].service \in DOMAIN services
    /\ \A c \in DOMAIN scans : scans[c].server \in DOMAIN servers

\* A server can be logged in to with what is stored of it: the secret of its
\* authentication type is there, and a locked key has the passphrase that opens
\* it, whatever the forms say beside the keys (api_servers and
\* _ai_exec_upsert_server, which write what they read earlier).
CredentialsFit ==
    \A s \in DOMAIN servers :
        LET login == servers[s].login
        IN IF login.auth = "password" THEN login.password
           ELSE login.key # "none" /\ (login.key = "locked" => login.phrase = "own")

\* Every account of the type password has its ciphertext, through all edits that
\* keep, retype, add and remove rows (_sync_service_accounts).
PasswordsAreStored ==
    \A a \in DOMAIN accounts : accounts[a].secret = "password" => accounts[a].stored

\* The accounts of a service that stays change only through a form of that
\* service that has an account section: neither an ordinary edit nor an import
\* touches them (update_service, accounts_provided).
AccountsAreLeftAlone ==
    [][\A v \in DOMAIN services \cap DOMAIN services' :
        Restrict(accounts, AccountsOf(v)) # Restrict(accounts, AccountsOf(v))'
        => \E t \in Threads :
              /\ request[t].op = "saveService" /\ request[t].service = v
              /\ request[t].form.provided
              /\ request'[t] = Idle]_vars

\* An import that reports success has told the truth: every service that was
\* selected is on the server, unless services were deleted, renamed or moved
\* while it ran (_ai_exec_import_discovered_services).
ImportIsComplete ==
    \A t \in Threads :
        LET r == request[t]
        IN r.op = "import" /\ r.todo = {} /\ ~r.failed /\ ~r.disturbed
           => \A c \in r.selected : \E v \in DOMAIN services :
                 services[v].server = r.server /\ services[v].name.stem = c.name.stem

-----------------------------------------------------------------------------
(* What the code does not do.                                              *)

\* A service that an import counts as updated is on the server.  update_service
\* returns FALSE when the row was deleted since the copy was read; the import
\* does not look at it and counts the service as updated.
UpdatedIsThere ==
    [][\A t \in Threads :
        LET r == request[t]
        IN /\ r.op = "import" /\ r.update
           /\ request'[t].op = "import" /\ ~request'[t].failed
           => \A c \in r.todo \ request'[t].todo : \E v \in DOMAIN services' :
                 /\ services'[v].server = r.server
                 /\ services'[v].name.stem = c.name.stem]_vars

\* A scan is used up when everything it found was selected.  One import without
\* a failure uses it up, whatever was selected of it; the rest needs a new scan.
UsedScanWasTakenWhole ==
    [][\A c \in DOMAIN scans \cap DOMAIN scans' :
        scans[c].status = "ready" /\ scans'[c].status = "imported"
        => \E t \in Threads : /\ request[t].op = "import" /\ request[t].scan = c
                              /\ request[t].selected = scans[c].candidates]_vars

=============================================================================
