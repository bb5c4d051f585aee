-------------------------------- MODULE Accounts --------------------------------
(***************************************************************************)
(* Accounts, sessions and the two lockouts (app.py, models.py,             *)
(* role_policy.py): every request is first checked against the accounts,   *)
(* login and the reveal of credentials count failures in a window of time, *)
(* administrators edit the accounts meanwhile, and the process restarts.   *)
(*                                                                         *)
(* The session is a signed cookie: a request works on the copy it came     *)
(* with, and its response puts that copy back into the browser.  Captcha   *)
(* and password are right or wrong, and a session may be found idle for    *)
(* too long at any request.  All browsers are behind one address, so that  *)
(* failures are counted by user name.                                      *)
(***************************************************************************)
EXTENDS Naturals, Sequences, FiniteSets

CONSTANTS
    Requests,     \* request threads
    Browsers,
    Names,
    Admin,        \* the name "admin"
    Nobody,       \* the name in a session without a user
    MaxFailures,  \* LOGIN_MAX_FAILURES, REVEAL_MAX_FAILURES
    Window,       \* LOGIN_FAILURE_WINDOW, REVEAL_FAILURE_WINDOW, in ticks
    MaxEdits      \* bound: edits of accounts

ASSUME AccountsAssumption ==
    /\ Admin \in Names /\ Nobody \notin Names
    /\ MaxFailures \in Nat \ {0}
    /\ {Window, MaxEdits} \subseteq Nat
    /\ IsFiniteSet(Requests)
    /\ Browsers # {}

VARIABLES
    users,    \* users: the role of a name, "none" without a row
    failures, \* _login_failures, _reveal_failures: the ages, in ticks
    cookie,   \* the session each browser holds
    request,  \* of each thread: its place, and its copy of the session
    seen,     \* history: the roles its user had since the request came in
    edits

vars == <<users, failures, cookie, request, seen, edits>>

Roles == {"admin", "asset_manager", "viewer"}
Kinds == {"login", "reveal", "users", "logout"}
Keys == {"login", "reveal"} \X Names
Sessions == [name : Names \cup {Nobody}, role : Roles \cup {"none"}]
Visitor == [name |-> Nobody, role |-> "none"]

\* The hook of every request, the steps of the handlers, the response.
Places == {"idle", "arrived", "testing", "verifying", "failing", "clearing",
           "editing", "responding"}
NoRequest == [pc |-> "idle", kind |-> "logout", browser |-> CHOOSE b \in Browsers : TRUE,
              name |-> Nobody, session |-> Visitor]

OldestFirst(ages) ==
    \A i, j \in 1 .. Len(ages) : i < j => ages[i] >= ages[j]

TypeOK ==
    /\ users \in [Names -> Roles \cup {"none"}]
    /\ failures \in [Keys -> Seq(0 .. Window)]
    /\ \A k \in Keys : OldestFirst(failures[k])
    /\ cookie \in [Browsers -> Sessions]
    /\ request \in [Requests -> [pc : Places, kind : Kinds, browser : Browsers,
                                 name : Names \cup {Nobody}, session : Sessions]]
    /\ seen \in [Requests -> SUBSET (Roles \cup {"none"})]
    /\ edits \in 0 .. MaxEdits

\* init_default_admin on a new database, and the accounts made since.
Init ==
    /\ users \in [Names -> Roles \cup {"none"}]
    /\ users[Admin] = "admin"
    /\ failures = [k \in Keys |-> <<>>]
    /\ cookie = [b \in Browsers |-> Visitor]
    /\ request = [t \in Requests |-> NoRequest]
    /\ seen = [t \in Requests |-> {}]
    /\ edits = 0

-----------------------------------------------------------------------------
\* get_user and normalize_role: its role, "none" without a row.
RoleOf(roles, name) == IF name = Nobody THEN "none" ELSE roles[name]

At(t, pc) == request[t].pc = pc
Session(t) == request[t].session
Goto(t, pc) == request' = [request EXCEPT ![t].pc = pc]
Proceed(t, pc, session) ==
    request' = [request EXCEPT ![t].pc = pc, ![t].session = session]

\* The handler returns: what was asked for is of no matter any more.
Answer(t, session) ==
    request' = [request EXCEPT ![t] = [NoRequest EXCEPT !.pc = "responding",
                    !.browser = request[t].browser, !.session = session]]

\* can_access: what a role may ask for.
CanAccess(role, kind) ==
    \/ role = "admin"
    \/ kind \in {"login", "logout"}
    \/ role = "asset_manager" /\ kind = "reveal"

\* _login_failure_key and _reveal_failure_key.
Key(t) == <<request[t].kind,
            IF request[t].kind = "login" THEN request[t].name ELSE Session(t).name>>

\* Slip: one more.
LockedLate(k) == Len(failures[k]) > MaxFailures

\* _is_login_locked, _is_reveal_locked.
Locked(k) == Len(failures[k]) >= MaxFailures

\* A browser sends a request with the session it holds.
Arrive(t, b, kind) ==
    /\ At(t, "idle")
    /\ \E n \in IF kind = "login" THEN Names ELSE {Nobody} :
          request' = [request EXCEPT ![t] =
              [pc |-> "arrived", kind |-> kind, browser |-> b, name |-> n,
               session |-> cookie[b]]]
    /\ seen' = [seen EXCEPT ![t] = {RoleOf(users, cookie[b].name)}]
    /\ UNCHANGED <<users, failures, cookie, edits>>

\* Where the handler begins.
First(kind) == IF kind = "users" THEN "editing" ELSE "testing"

\* Slip: the role of the cookie is good enough.
EnforceByCookie(t) ==
    /\ At(t, "arrived")
    /\ IF CanAccess(Session(t).role, request[t].kind) /\ request[t].kind # "logout"
       THEN Goto(t, First(request[t].kind)) ELSE Answer(t, Visitor)
    /\ UNCHANGED <<users, failures, cookie, seen, edits>>

\* enforce_request_security: the account as it is now, then its role, then the
\* time since the last request; login_required.  api_logout clears the session.
Enforce(t) ==
    /\ At(t, "arrived")
    /\ LET n == Session(t).name
           now == [name |-> n, role |-> RoleOf(users, n)]
           kind == request[t].kind
       IN  \/ n = Nobody /\ IF kind = "login" THEN Goto(t, "testing") ELSE Answer(t, Visitor)
           \/ n # Nobody /\ now.role = "none" /\ Answer(t, Visitor)
           \/ /\ now.role # "none"
              /\ IF ~CanAccess(now.role, kind) THEN Answer(t, now)
                 ELSE \/ Answer(t, Visitor) \* idle for too long
                      \/ IF kind = "logout" THEN Answer(t, Visitor)
                         ELSE Proceed(t, First(kind), now)
    /\ UNCHANGED <<users, failures, cookie, seen, edits>>

-----------------------------------------------------------------------------
(* api_login and api_reveal_service_accounts.                              *)

\* Slip: an attempt that is refused begins the window again.
RefusedRenews(t) ==
    /\ At(t, "testing")
    /\ IF Locked(Key(t)) THEN Answer(t, Session(t)) ELSE Goto(t, "verifying")
    /\ failures' = [failures EXCEPT ![Key(t)] =
           IF Locked(Key(t)) THEN [i \in DOMAIN @ |-> 0] ELSE @]
    /\ UNCHANGED <<users, cookie, seen, edits>>

TestLock(t) ==
    /\ At(t, "testing")
    /\ IF Locked(Key(t)) THEN Answer(t, Session(t)) ELSE Goto(t, "verifying")
    /\ UNCHANGED <<users, failures, cookie, seen, edits>>

\* The captcha, get_user and verify_password; a missing captcha is no failure.
Verify(t) ==
    /\ At(t, "verifying")
    /\ LET n == Key(t)[2]
       IN  \/ Goto(t, "failing")
           \/ request[t].kind = "login" /\ Answer(t, Session(t))
           \/ /\ users[n] # "none"
              /\ Proceed(t, "clearing", IF request[t].kind = "reveal" THEN Session(t)
                                        ELSE [name |-> n, role |-> users[n]])
    /\ UNCHANGED <<users, failures, cookie, seen, edits>>

RecordFailure(t) ==
    /\ At(t, "failing")
    /\ failures' = [failures EXCEPT ![Key(t)] = Append(@, 0)]
    /\ Answer(t, Session(t))
    /\ UNCHANGED <<users, cookie, seen, edits>>

ClearFailures(t) ==
    /\ At(t, "clearing")
    /\ failures' = [failures EXCEPT ![Key(t)] = <<>>]
    /\ Answer(t, Session(t))
    /\ UNCHANGED <<users, cookie, seen, edits>>

\* The session with a user is sent back with every response, since the time of
\* its last request was written into it; one without when its token or captcha
\* was.
Respond(t) ==
    /\ At(t, "responding")
    /\ \/ cookie' = [cookie EXCEPT ![request[t].browser] = Session(t)]
       \/ Session(t) = Visitor /\ UNCHANGED cookie
    /\ request' = [request EXCEPT ![t] = NoRequest]
    /\ seen' = [seen EXCEPT ![t] = {}]
    /\ UNCHANGED <<users, failures, edits>>

-----------------------------------------------------------------------------
(* api_users and api_user_detail.                                          *)

\* One statement: an account is added, deleted or given another role, or it is
\* renamed.  The default account cannot be deleted, but like any other it can be
\* demoted, or renamed to a name outside of Names.
EditAccounts ==
    \E n \in Names, r \in Roles \cup {"none"} :
        \/ users' = [users EXCEPT ![n] = r]
        \/ \E m \in Names : \* username is UNIQUE
              /\ users[m] = "none" /\ users[n] # "none" /\ r # "none"
              /\ users' = [users EXCEPT ![n] = "none", ![m] = r]

EditUsers(t) ==
    /\ At(t, "editing")
    /\ \/ /\ edits < MaxEdits
          /\ EditAccounts
          /\ edits' = edits + 1
       \/ UNCHANGED <<users, edits>> \* refused
    /\ seen' = [s \in Requests |-> IF At(s, "idle") THEN {}
                ELSE seen[s] \cup {RoleOf(users', Session(s).name)}]
    /\ Answer(t, Session(t))
    /\ UNCHANGED <<failures, cookie>>

-----------------------------------------------------------------------------
\* recent, a tick later: the stamps are in order, the filter drops the first.
Recent(ages) ==
    LET n == Cardinality({i \in 1 .. Len(ages) : ages[i] < Window})
    IN  [i \in 1 .. n |-> ages[Len(ages) - n + i] + 1]

\* A tick of the clock: what is older than the window does not count any more.
Tick ==
    /\ failures' = [k \in Keys |-> Recent(failures[k])]
    /\ UNCHANGED <<users, cookie, request, seen, edits>>

\* The counters are in memory; init_default_admin runs.
Restart ==
    /\ failures' = [k \in Keys |-> <<>>]
    /\ request' = [t \in Requests |-> NoRequest]
    /\ seen' = [t \in Requests |-> {}]
    /\ users' = [users EXCEPT ![Admin] = IF @ = "none" THEN "admin" ELSE @]
    /\ UNCHANGED <<cookie, edits>>

RequestStep(t) ==
    \/ \E b \in Browsers, kind \in Kinds : Arrive(t, b, kind)
    \/ Enforce(t) \/ TestLock(t) \/ Verify(t) \/ RecordFailure(t)
    \/ ClearFailures(t) \/ EditUsers(t) \/ Respond(t)

Next == (\E t \in Requests : RequestStep(t)) \/ Tick \/ Restart

Spec == Init /\ [][Next]_vars

\* Nothing is asked of the users or of the scheduling: time goes on.
FairSpec == Spec /\ WF_vars(Tick)

-----------------------------------------------------------------------------
(* Properties.                                                             *)

\* Attempts side by side pass the lock together before any of them has failed;
\* what they overshoot the limit by is bounded by their number, whatever was
\* cleared, refused and forgotten in between.
FailuresAreBounded ==
    \A k \in Keys : Len(failures[k]) <= MaxFailures - 1 + Cardinality(Requests)

\* A handler that needs a role runs only for a user who had an account with
\* such a role at some time since the request came in: not by what the cookie
\* of an earlier login, or of a response that overtook another, still says.
RoleIsCurrent ==
    \A t \in Requests :
        /\ request[t].kind \in {"reveal", "users"}
        /\ request[t].pc \in Places \ {"idle", "arrived", "responding"}
        => \E role \in seen[t] \ {"none"} : CanAccess(role, request[t].kind)

\* A lock ends although its user keeps trying: only attempts that were not
\* refused count as failures.
LockEnds == \A k \in Keys : Locked(k) ~> ~Locked(k)
=============================================================================
