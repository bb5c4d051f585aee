---------------------------- MODULE AccountsProofs ----------------------------
(***************************************************************************)
(* Theorems about Accounts for any number of requests, browsers and names, *)
(* any limit of failures, any window and any number of edits.              *)
(*                                                                         *)
(* Bounded counts, with the failures of a user, the attempts that have     *)
(* passed the lock and may still fail: the lock is passed with fewer       *)
(* failures than the limit, by at most as many as there are threads, and   *)
(* an attempt stops being counted when its failure is.  RoleIsCurrent      *)
(* rests on what RequestOK says of an arrived request: until the hook has  *)
(* run, the role its user has now is one it has seen.                      *)
(***************************************************************************)
EXTENDS Accounts, FiniteSetTheorems, SequenceTheorems, TLAPS

RequestRecord == [pc : Places, kind : Kinds, browser : Browsers,
                  name : Names \cup {Nobody}, session : Sessions]

KeyOf(r) == <<r.kind, IF r.kind = "login" THEN r.name ELSE r.session.name>>

Counting == {"testing", "verifying", "failing", "clearing"}
UnderWay == {"verifying", "failing"}

\* The attempts that may still fail.
Pending(k) == {t \in Requests : request[t].pc \in UnderWay /\ Key(t) = k}

Bounded ==
    \A k \in Keys :
        Len(failures[k]) + Cardinality(Pending(k)) <= MaxFailures - 1 + Cardinality(Requests)

\* A request counts under a name, has seen the role its user has when it comes
\* in, and one its user may ask with when it is handled.
RequestOK(r, roles, past) ==
    /\ r.pc = "arrived" /\ r.kind = "login" => r.name \in Names
    /\ r.pc \in Counting => KeyOf(r) \in Keys
    /\ r.pc = "arrived" => RoleOf(roles, r.session.name) \in past
    /\ /\ r.kind \in {"reveal", "users"}
       /\ r.pc \in Places \ {"idle", "arrived", "responding"}
       => \E role \in past \ {"none"} : CanAccess(role, r.kind)

RequestsOK == \A t \in Requests : RequestOK(request[t], users, seen[t])

IInv == TypeOK /\ RequestsOK /\ Bounded

-----------------------------------------------------------------------------
(* Operators.                                                              *)

\* The filter keeps ages in their bounds and in their order, and keeps no more
\* than there were: the ages that stay are the last, being the least.
LEMMA RecentAges ==
  ASSUME NEW ages \in Seq(0 .. Window), OldestFirst(ages)
  PROVE  /\ Recent(ages) \in Seq(0 .. Window)
         /\ OldestFirst(Recent(ages))
         /\ Len(Recent(ages)) <= Len(ages)
<1> DEFINE kept == {i \in 1 .. Len(ages) : ages[i] < Window}
           n == Cardinality(kept)
           l == Len(ages)
<1>0. l \in Nat /\ ages \in [1 .. l -> 0 .. Window]
  BY LenProperties
<1>1. IsFiniteSet(1 .. l) /\ Cardinality(1 .. l) = l
  <2> HIDE DEF l
  <2> QED BY <1>0, FS_Interval
<1>2. IsFiniteSet(kept) /\ n \in Nat /\ n <= l
  BY <1>1, FS_Subset, FS_CardinalityType
<1>3. ASSUME NEW i \in 1 .. n PROVE l - n + i \in kept
  <2> SUFFICES ASSUME l - n + i \notin kept PROVE FALSE
    OBVIOUS
  <2>1. l - n + i \in 1 .. l
    BY <1>2
  <2>2. kept \subseteq (l - n + i + 1) .. l
    <3> SUFFICES ASSUME NEW j \in kept, j <= l - n + i PROVE FALSE
      <4> HIDE DEF n
      <4> QED BY <1>0, <1>2
    <3>1. j # l - n + i
      OBVIOUS
    <3>2. ages[j] >= ages[l - n + i]
      BY <2>1, <3>1 DEF OldestFirst
    <3> QED BY <1>0, <2>1, <3>2, AccountsAssumption
  <2>3. Cardinality((l - n + i + 1) .. l) = n - i
    <3> HIDE DEF n, l
    <3> QED BY <1>0, <1>2, <2>1, FS_Interval
  <2>4. n <= n - i
    <3>1. IsFiniteSet((l - n + i + 1) .. l)
      <4> HIDE DEF n, l
      <4> QED BY <1>0, <1>2, FS_Interval
    <3> QED BY <2>2, <2>3, <3>1, FS_Subset
  <2> QED BY <1>2, <2>4
<1>4. Recent(ages) = [i \in 1 .. n |-> ages[l - n + i] + 1]
  BY DEF Recent
<1>5. ASSUME NEW i \in 1 .. n PROVE ages[l - n + i] + 1 \in 0 .. Window
  <2> HIDE DEF n, l
  <2>0. l - n + i \in 1 .. l /\ ages[l - n + i] < Window
    BY <1>3 DEF l
  <2>1. ages[l - n + i] \in 0 .. Window /\ ages[l - n + i] < Window
    BY <1>0, <2>0
  <2> QED BY <2>1, AccountsAssumption
<1>6. Recent(ages) \in Seq(0 .. Window) /\ Len(Recent(ages)) = n
  <2> HIDE DEF n, l
  <2> QED BY <1>2, <1>4, <1>5
<1>7. OldestFirst(Recent(ages))
  <2> SUFFICES ASSUME NEW i \in 1 .. n, NEW j \in 1 .. n, i < j
               PROVE  Recent(ages)[i] >= Recent(ages)[j]
    BY <1>6 DEF OldestFirst
  <2>1. l - n + i \in 1 .. l /\ l - n + j \in 1 .. l /\ l - n + i < l - n + j
    BY <1>2
  <2>2. ages[l - n + i] >= ages[l - n + j]
    BY <2>1 DEF OldestFirst
  <2>3. ages[l - n + i] \in Nat /\ ages[l - n + j] \in Nat
    BY <2>1, AccountsAssumption
  <2> HIDE DEF n, l
  <2> QED BY <1>4, <2>2, <2>3
<1> QED BY <1>2, <1>6, <1>7

LEMMA PendingIsFinite ==
  ASSUME NEW k
  PROVE  /\ IsFiniteSet(Pending(k)) /\ Cardinality(Pending(k)) \in Nat
         /\ Cardinality(Pending(k)) <= Cardinality(Requests)
         /\ Cardinality(Requests) \in Nat
<1>1. Pending(k) \subseteq Requests
  BY DEF Pending
<1> QED BY <1>1, AccountsAssumption, FS_Subset, FS_CardinalityType

\* Fewer failures and fewer attempts under way.
LEMMA Fewer ==
  ASSUME Bounded, NEW k \in Keys, Pending(k)' \subseteq Pending(k),
         Len(failures[k]) \in Nat, Len(failures'[k]) \in Nat,
         Len(failures'[k]) <= Len(failures[k])
  PROVE  Len(failures'[k]) + Cardinality(Pending(k)') <= MaxFailures - 1 + Cardinality(Requests)
<1>1. Cardinality(Pending(k)') <= Cardinality(Pending(k)) /\ Cardinality(Pending(k)') \in Nat
  BY PendingIsFinite, FS_Subset, FS_CardinalityType
<1> QED BY <1>1, PendingIsFinite, AccountsAssumption DEF Bounded

\* One more, of age 0.
LEMMA OneMore ==
  ASSUME NEW ages \in Seq(0 .. Window), OldestFirst(ages)
  PROVE  /\ Append(ages, 0) \in Seq(0 .. Window)
         /\ OldestFirst(Append(ages, 0))
         /\ Len(Append(ages, 0)) = Len(ages) + 1
<1>1. 0 \in 0 .. Window
  BY AccountsAssumption
<1>2. Len(ages) \in Nat /\ ages \in [1 .. Len(ages) -> 0 .. Window]
  BY LenProperties
<1>3. /\ Append(ages, 0) \in Seq(0 .. Window)
      /\ Len(Append(ages, 0)) = Len(ages) + 1
      /\ Append(ages, 0)[Len(ages) + 1] = 0
      /\ \A i \in 1 .. Len(ages) : Append(ages, 0)[i] = ages[i]
  BY <1>1, AppendProperties
<1>4. OldestFirst(Append(ages, 0))
  <2> SUFFICES ASSUME NEW i \in 1 .. Len(ages) + 1, NEW j \in 1 .. Len(ages) + 1, i < j
               PROVE  Append(ages, 0)[i] >= Append(ages, 0)[j]
    BY <1>3 DEF OldestFirst
  <2>1. i \in 1 .. Len(ages)
    BY <1>2
  <2>2. CASE j = Len(ages) + 1
    BY <1>2, <1>3, <2>1, <2>2, AccountsAssumption
  <2>3. CASE j # Len(ages) + 1
    <3>1. j \in 1 .. Len(ages)
      BY <1>2, <2>3
    <3> QED BY <1>3, <2>1, <3>1 DEF OldestFirst
  <2> QED BY <2>2, <2>3
<1> QED BY <1>3, <1>4

\* The handler's answer, and a thread at rest.
LEMMA Answers ==
  ASSUME NEW b \in Browsers, NEW session \in Sessions
  PROVE  [NoRequest EXCEPT !.pc = "responding", !.browser = b, !.session = session]
           \in RequestRecord
BY DEF NoRequest, RequestRecord, Places, Kinds

LEMMA AtRest == NoRequest \in RequestRecord /\ Visitor \in Sessions
BY AccountsAssumption DEF NoRequest, RequestRecord, Places, Kinds, Visitor, Sessions

\* What is asked of a request that answers or has ended is nothing.
LEMMA RestIsOK ==
  ASSUME NEW r, NEW roles, NEW past, r.pc \in {"idle", "responding"}
  PROVE  RequestOK(r, roles, past)
BY DEF RequestOK, Counting

\* A request that has passed the hook goes on: it may have seen more by now.
LEMMA StaysOK ==
  ASSUME NEW r, NEW roles, NEW past, RequestOK(r, roles, past),
         NEW roles2, NEW past2, past \subseteq past2,
         RoleOf(roles2, r.session.name) \in past2
  PROVE  RequestOK(r, roles2, past2)
BY DEF RequestOK

-----------------------------------------------------------------------------
(* Steps.                                                                  *)

\* One thread moves: types, and what is asked of every request.
LEMMA OneMoves ==
  ASSUME IInv, NEW t \in Requests, NEW r \in RequestRecord,
         request' = [request EXCEPT ![t] = r],
         failures' \in [Keys -> Seq(0 .. Window)],
         \A k \in Keys : OldestFirst(failures'[k]),
         users' \in [Names -> Roles \cup {"none"}],
         cookie' \in [Browsers -> Sessions],
         seen' \in [Requests -> SUBSET (Roles \cup {"none"})],
         edits' \in 0 .. MaxEdits,
         RequestOK(r, users', seen'[t]),
         \A s \in Requests \ {t} : RequestOK(request[s], users', seen'[s])
  PROVE  TypeOK' /\ RequestsOK'
<1>1. TypeOK'
  BY DEF IInv, TypeOK, RequestRecord
<1>2. RequestsOK'
  BY DEF RequestsOK, IInv, TypeOK
<1> QED BY <1>1, <1>2

\* One thread moves, and is under way only if it was.
LEMMA RequestMoves ==
  ASSUME IInv, NEW t \in Requests, NEW r \in RequestRecord,
         request' = [request EXCEPT ![t] = r],
         UNCHANGED failures,
         users' \in [Names -> Roles \cup {"none"}],
         cookie' \in [Browsers -> Sessions],
         seen' \in [Requests -> SUBSET (Roles \cup {"none"})],
         edits' \in 0 .. MaxEdits,
         RequestOK(r, users', seen'[t]),
         \A s \in Requests \ {t} : RequestOK(request[s], users', seen'[s]),
         r.pc \in UnderWay => request[t].pc \in UnderWay /\ KeyOf(r) = Key(t)
  PROVE  IInv'
<1>1. TypeOK' /\ RequestsOK'
  BY OneMoves DEF IInv, TypeOK
<1>2. ASSUME NEW k \in Keys PROVE Pending(k)' \subseteq Pending(k)
  BY DEF Pending, Key, KeyOf, Session, IInv, TypeOK
<1>3. ASSUME NEW k \in Keys PROVE Len(failures[k]) \in Nat
  BY LenProperties DEF IInv, TypeOK
<1>4. Bounded'
  BY <1>2, <1>3, Fewer DEF Bounded, IInv
<1> QED BY <1>1, <1>4 DEF IInv

LEMMA ArriveKeeps ==
  ASSUME IInv, NEW t \in Requests, NEW b \in Browsers, NEW kind \in Kinds, Arrive(t, b, kind)
  PROVE  IInv'
<1>1. PICK n \in IF kind = "login" THEN Names ELSE {Nobody} :
         request' = [request EXCEPT ![t] =
              [pc |-> "arrived", kind |-> kind, browser |-> b, name |-> n,
               session |-> cookie[b]]]
  BY DEF Arrive
<1> DEFINE r == [pc |-> "arrived", kind |-> kind, browser |-> b, name |-> n,
                 session |-> cookie[b]]
<1>2. cookie[b] \in Sessions /\ RoleOf(users, cookie[b].name) \in Roles \cup {"none"}
  BY DEF IInv, TypeOK, Sessions, RoleOf
<1>3. r \in RequestRecord
  BY <1>2 DEF RequestRecord, Places
<1>4. seen' \in [Requests -> SUBSET (Roles \cup {"none"})]
  BY <1>2 DEF Arrive, IInv, TypeOK
<1>5. RequestOK(r, users', seen'[t])
  BY <1>2, <1>4 DEF RequestOK, Arrive, Counting, IInv, TypeOK
<1>6. \A s \in Requests \ {t} : RequestOK(request[s], users', seen'[s])
  BY DEF Arrive, IInv, TypeOK, RequestsOK
<1> HIDE DEF r
<1>7. request' = [request EXCEPT ![t] = r] /\ r.pc \notin UnderWay
  BY <1>1 DEF r, UnderWay
<1> QED BY <1>3, <1>4, <1>5, <1>6, <1>7, RequestMoves DEF Arrive, IInv, TypeOK

\* A thread that only answers.
LEMMA AnswerKeeps ==
  ASSUME IInv, NEW t \in Requests, NEW session \in Sessions, Answer(t, session),
         UNCHANGED <<users, failures, cookie, seen, edits>>
  PROVE  IInv'
<1> DEFINE r == [NoRequest EXCEPT !.pc = "responding", !.browser = request[t].browser,
                                  !.session = session]
<1>1. r \in RequestRecord /\ r.pc = "responding"
  BY Answers DEF IInv, TypeOK, NoRequest
<1> HIDE DEF r
<1>2. request' = [request EXCEPT ![t] = r]
  BY DEF Answer, r
<1>3. RequestOK(r, users', seen'[t])
  BY <1>1, RestIsOK
<1>4. \A s \in Requests \ {t} : RequestOK(request[s], users', seen'[s])
  BY DEF IInv, RequestsOK
<1> QED BY <1>1, <1>2, <1>3, <1>4, RequestMoves DEF IInv, TypeOK, UnderWay

\* A thread that goes to another place of its handler, with the session r has.
LEMMA GoesOn ==
  ASSUME IInv, NEW t \in Requests, NEW r \in RequestRecord,
         request' = [request EXCEPT ![t] = r],
         UNCHANGED <<users, failures, cookie, seen, edits>>,
         RequestOK(r, users, seen[t]),
         r.pc \in UnderWay => request[t].pc \in UnderWay /\ KeyOf(r) = Key(t)
  PROVE  IInv'
<1>1. \A s \in Requests \ {t} : RequestOK(request[s], users', seen'[s])
  BY DEF IInv, RequestsOK
<1> QED BY <1>1, RequestMoves DEF IInv, TypeOK

\* A thread that goes to another place with the session it has.
LEMMA GotoOK ==
  ASSUME IInv, NEW t \in Requests, NEW pc \in Places, Goto(t, pc),
         request[t].pc \in Places \ {"idle", "arrived", "responding"},
         pc \notin {"idle", "arrived"},
         pc \in Counting => request[t].pc \in Counting
  PROVE  \E r \in RequestRecord :
            /\ request' = [request EXCEPT ![t] = r] /\ r.pc = pc
            /\ KeyOf(r) = Key(t)
            /\ RequestOK(r, users, seen[t])
<1> DEFINE r == [request[t] EXCEPT !.pc = pc]
<1>1. r \in RequestRecord /\ KeyOf(r) = Key(t)
  BY DEF IInv, TypeOK, RequestRecord, KeyOf, Key, Session
<1>2. request' = [request EXCEPT ![t] = r] /\ r.pc = pc
  BY DEF Goto, IInv, TypeOK
<1>3. RequestOK(r, users, seen[t])
  BY DEF RequestOK, IInv, RequestsOK, TypeOK, KeyOf
<1> QED BY <1>1, <1>2, <1>3

LEMMA EnforceKeeps ==
  ASSUME IInv, NEW t \in Requests, Enforce(t)
  PROVE  IInv'
<1> DEFINE n == Session(t).name
           now == [name |-> n, role |-> RoleOf(users, n)]
           kind == request[t].kind
<1>1. /\ n \in Names \cup {Nobody} /\ now \in Sessions /\ kind \in Kinds
      /\ Session(t) \in Sessions
  BY DEF IInv, TypeOK, Session, Sessions, RoleOf
<1>2. now.role \in seen[t] /\ (kind = "login" => request[t].name \in Names)
  BY DEF IInv, RequestsOK, RequestOK, Enforce, At, Session
<1>3. CASE \E session \in Sessions : Answer(t, session)
  BY <1>3, AnswerKeeps DEF Enforce
<1>4. CASE n = Nobody /\ kind = "login" /\ Goto(t, "testing")
  <2> DEFINE r == [request[t] EXCEPT !.pc = "testing"]
  <2>1. r \in RequestRecord /\ request' = [request EXCEPT ![t] = r] /\ r.pc = "testing"
    BY <1>4 DEF Goto, IInv, TypeOK, RequestRecord, Places
  <2>2. RequestOK(r, users, seen[t])
    BY <1>2, <1>4, <2>1 DEF RequestOK, KeyOf, Keys, IInv, TypeOK
  <2> HIDE DEF r
  <2> QED BY <2>1, <2>2, GoesOn DEF Enforce, UnderWay
<1>5. CASE /\ now.role # "none" /\ CanAccess(now.role, kind) /\ kind # "logout"
           /\ Proceed(t, First(kind), now)
  <2> DEFINE r == [request[t] EXCEPT !.pc = First(kind), !.session = now]
  <2>1. First(kind) \in {"editing", "testing"} /\ First(kind) \in Places
        /\ (First(kind) = "testing" => kind \in {"login", "reveal"})
    BY <1>1, <1>5 DEF First, Kinds, Places
  <2>2. r \in RequestRecord /\ request' = [request EXCEPT ![t] = r] /\ r.pc = First(kind)
        /\ r.kind = kind /\ r.session = now /\ r.name = request[t].name
    BY <1>1, <1>5, <2>1 DEF Proceed, IInv, TypeOK, RequestRecord
  <2>3. n \in Names
    BY <1>1, <1>5 DEF RoleOf
  <2>4. RequestOK(r, users, seen[t])
    <3> HIDE DEF r, kind
    <3>1. now.role \in seen[t] \ {"none"} /\ now.name = n
      BY <1>2, <1>5
    <3> HIDE DEF now
    <3>2. r.pc \in Counting => KeyOf(r) \in Keys
      BY <1>2, <2>1, <2>2, <2>3, <3>1 DEF KeyOf, Keys, Counting
    <3>3. \E role \in seen[t] \ {"none"} : CanAccess(role, r.kind)
      BY <1>5, <2>2, <3>1
    <3> QED BY <2>1, <2>2, <3>2, <3>3 DEF RequestOK
  <2> HIDE DEF r
  <2> QED BY <2>1, <2>2, <2>4, GoesOn DEF Enforce, UnderWay
<1> QED BY <1>1, <1>3, <1>4, <1>5, AtRest DEF Enforce

LEMMA TestLockKeeps ==
  ASSUME IInv, NEW t \in Requests, TestLock(t)
  PROVE  IInv'
<1>1. Session(t) \in Sessions
  BY DEF IInv, TypeOK, Session
<1>2. CASE Answer(t, Session(t))
  BY <1>1, <1>2, AnswerKeeps DEF TestLock
<1>3. CASE ~Locked(Key(t)) /\ Goto(t, "verifying")
  <2>1. PICK r \in RequestRecord :
            /\ request' = [request EXCEPT ![t] = r] /\ r.pc = "verifying"
            /\ KeyOf(r) = Key(t)
            /\ RequestOK(r, users, seen[t])
    BY <1>3, GotoOK DEF TestLock, At, Places, Counting
  <2>2. \A s \in Requests \ {t} : RequestOK(request[s], users', seen'[s])
    BY DEF IInv, RequestsOK, TestLock
  <2>3. TypeOK' /\ RequestsOK'
    BY <2>1, <2>2, OneMoves DEF IInv, TypeOK, TestLock
  <2>4. ASSUME NEW k \in Keys
        PROVE  Len(failures'[k]) + Cardinality(Pending(k)') <= MaxFailures - 1 + Cardinality(Requests)
    <3>1. Len(failures[k]) \in Nat /\ failures' = failures
      BY LenProperties DEF IInv, TypeOK, TestLock
    <3>2. CASE k = Key(t)
      <4>1. Len(failures[k]) <= MaxFailures - 1
        BY <1>3, <3>1, <3>2, AccountsAssumption DEF Locked
      <4>2. IsFiniteSet(Pending(k)') /\ Cardinality(Pending(k)') \in Nat
            /\ Cardinality(Pending(k)') <= Cardinality(Requests)
        <5>1. Pending(k)' \subseteq Requests
          BY DEF Pending
        <5> QED BY <5>1, AccountsAssumption, FS_Subset, FS_CardinalityType
      <4>3. Cardinality(Requests) \in Nat
        BY AccountsAssumption, FS_CardinalityType
      <4> QED BY <3>1, <4>1, <4>2, <4>3, AccountsAssumption
    <3>3. CASE k # Key(t)
      <4>1. Pending(k)' \subseteq Pending(k)
        BY <2>1, <3>3 DEF Pending, Key, KeyOf, Session, IInv, TypeOK
      <4> QED BY <3>1, <4>1, Fewer DEF IInv
    <3> QED BY <3>2, <3>3
  <2> QED BY <2>3, <2>4 DEF IInv, Bounded
<1> QED BY <1>2, <1>3 DEF TestLock

LEMMA VerifyKeeps ==
  ASSUME IInv, NEW t \in Requests, Verify(t)
  PROVE  IInv'
<1>1. Session(t) \in Sessions
  BY DEF IInv, TypeOK, Session
<1>2. CASE Answer(t, Session(t))
  BY <1>1, <1>2, AnswerKeeps DEF Verify
<1>3. CASE Goto(t, "failing")
  <2>1. PICK r \in RequestRecord :
            /\ request' = [request EXCEPT ![t] = r] /\ r.pc = "failing"
            /\ KeyOf(r) = Key(t)
            /\ RequestOK(r, users, seen[t])
    BY <1>3, GotoOK DEF Verify, At, Places, Counting
  <2> QED BY <2>1, GoesOn DEF Verify, At, UnderWay
<1>4. CASE /\ users[Key(t)[2]] # "none"
           /\ Proceed(t, "clearing", IF request[t].kind = "reveal" THEN Session(t)
                                     ELSE [name |-> Key(t)[2], role |-> users[Key(t)[2]]])
  <2> DEFINE n == Key(t)[2]
             session == IF request[t].kind = "reveal" THEN Session(t)
                        ELSE [name |-> n, role |-> users[n]]
             r == [request[t] EXCEPT !.pc = "clearing", !.session = session]
  <2>1. Key(t) \in Keys
    BY DEF IInv, RequestsOK, RequestOK, Verify, At, Counting, Key, KeyOf, Session
  <2>2. request[t].kind \in {"login", "reveal"} /\ n \in Names
    BY <2>1 DEF Key, Keys
  <2>3. session \in Sessions
    BY <1>1, <2>2 DEF Sessions, IInv, TypeOK
  <2>4. r \in RequestRecord /\ request' = [request EXCEPT ![t] = r] /\ r.pc = "clearing"
        /\ r.kind = request[t].kind /\ r.name = request[t].name
        /\ (r.kind = "reveal" => r.session = Session(t))
    BY <1>4, <2>3 DEF Proceed, IInv, TypeOK, RequestRecord, Places
  <2>5. KeyOf(r) = Key(t)
    BY <2>2, <2>4 DEF KeyOf, Key
  <2> HIDE DEF r, session, n
  <2>6. RequestOK(r, users, seen[t])
    BY <2>1, <2>4, <2>5 DEF RequestOK, IInv, RequestsOK, Verify, At, Places
  <2> QED BY <2>4, <2>6, GoesOn DEF Verify, UnderWay
<1> QED BY <1>2, <1>3, <1>4 DEF Verify

\* An answer that leaves failures[k], of a thread whose key was k, as ages.
LEMMA CountedAnswer ==
  ASSUME IInv, NEW t \in Requests, Key(t) \in Keys, Answer(t, Session(t)),
         NEW ages \in Seq(0 .. Window), OldestFirst(ages),
         failures' = [failures EXCEPT ![Key(t)] = ages],
         \/ Len(ages) <= Len(failures[Key(t)])
         \/ Len(ages) = Len(failures[Key(t)]) + 1 /\ request[t].pc \in UnderWay,
         UNCHANGED <<users, cookie, seen, edits>>
  PROVE  IInv'
<1> DEFINE r == [NoRequest EXCEPT !.pc = "responding", !.browser = request[t].browser,
                                  !.session = Session(t)]
<1>1. r \in RequestRecord /\ r.pc = "responding"
  BY Answers DEF IInv, TypeOK, NoRequest, Session
<1> HIDE DEF r
<1>2. request' = [request EXCEPT ![t] = r]
  BY DEF Answer, r
<1>3. RequestOK(r, users', seen'[t])
  BY <1>1, RestIsOK
<1>4. \A s \in Requests \ {t} : RequestOK(request[s], users', seen'[s])
  BY DEF IInv, RequestsOK
<1>5. failures' \in [Keys -> Seq(0 .. Window)] /\ \A k \in Keys : OldestFirst(failures'[k])
  BY DEF IInv, TypeOK
<1>6. TypeOK' /\ RequestsOK'
  BY <1>1, <1>2, <1>3, <1>4, <1>5, OneMoves DEF IInv, TypeOK
<1>7. ASSUME NEW k \in Keys PROVE Pending(k)' \subseteq Pending(k) \ {t}
  BY <1>1, <1>2 DEF Pending, Key, Session, IInv, TypeOK, UnderWay
<1>8. ASSUME NEW k \in Keys
      PROVE  Len(failures[k]) \in Nat /\ Len(failures'[k]) \in Nat
  BY <1>5, LenProperties DEF IInv, TypeOK
<1>9. ASSUME NEW k \in Keys
      PROVE  Len(failures'[k]) + Cardinality(Pending(k)') <= MaxFailures - 1 + Cardinality(Requests)
  <2>1. CASE Len(failures'[k]) <= Len(failures[k])
    BY <1>7, <1>8, <2>1, Fewer DEF IInv
  <2>2. CASE ~(Len(failures'[k]) <= Len(failures[k]))
    <3>1. k = Key(t) /\ Len(failures'[k]) = Len(failures[k]) + 1 /\ t \in Pending(k)
      BY <1>8, <2>2 DEF IInv, TypeOK, Pending
    <3>2. Cardinality(Pending(k) \ {t}) = Cardinality(Pending(k)) - 1
          /\ IsFiniteSet(Pending(k) \ {t})
      BY <3>1, PendingIsFinite, FS_RemoveElement
    <3>3. Cardinality(Pending(k)') <= Cardinality(Pending(k)) - 1
          /\ Cardinality(Pending(k)') \in Nat
      BY <1>7, <3>2, FS_Subset, FS_CardinalityType
    <3>4. Cardinality(Requests) \in Nat /\ Cardinality(Pending(k)) \in Nat
      BY PendingIsFinite, AccountsAssumption, FS_CardinalityType
    <3> QED BY <1>8, <3>1, <3>3, <3>4, AccountsAssumption DEF IInv, Bounded
  <2> QED BY <2>1, <2>2
<1> QED BY <1>6, <1>9 DEF IInv, Bounded

LEMMA KeyIsOne ==
  ASSUME IInv, NEW t \in Requests, request[t].pc \in Counting
  PROVE  Key(t) \in Keys /\ failures[Key(t)] \in Seq(0 .. Window) /\ OldestFirst(failures[Key(t)])
BY DEF IInv, RequestsOK, RequestOK, TypeOK, Key, KeyOf, Session

LEMMA RecordFailureKeeps ==
  ASSUME IInv, NEW t \in Requests, RecordFailure(t)
  PROVE  IInv'
<1>1. Key(t) \in Keys /\ failures[Key(t)] \in Seq(0 .. Window) /\ OldestFirst(failures[Key(t)])
  BY KeyIsOne DEF RecordFailure, At, Counting
<1> DEFINE ages == Append(failures[Key(t)], 0)
<1>2. ages \in Seq(0 .. Window) /\ OldestFirst(ages) /\ Len(ages) = Len(failures[Key(t)]) + 1
  BY <1>1, OneMore
<1>3. failures' = [failures EXCEPT ![Key(t)] = ages] /\ request[t].pc \in UnderWay
  BY DEF RecordFailure, At, UnderWay
<1> HIDE DEF ages
<1> QED BY <1>1, <1>2, <1>3, CountedAnswer DEF RecordFailure

LEMMA ClearFailuresKeeps ==
  ASSUME IInv, NEW t \in Requests, ClearFailures(t)
  PROVE  IInv'
<1>1. Key(t) \in Keys /\ failures[Key(t)] \in Seq(0 .. Window)
  BY KeyIsOne DEF ClearFailures, At, Counting
<1>2. << >> \in Seq(0 .. Window) /\ OldestFirst(<< >>) /\ Len(<< >>) <= Len(failures[Key(t)])
  BY <1>1, LenProperties DEF OldestFirst
<1> QED BY <1>1, <1>2, CountedAnswer DEF ClearFailures

\* An edit of the accounts gives names roles.
LEMMA EditsAreTyped ==
  ASSUME users \in [Names -> Roles \cup {"none"}], EditAccounts
  PROVE  users' \in [Names -> Roles \cup {"none"}]
BY DEF EditAccounts

LEMMA EditUsersKeeps ==
  ASSUME IInv, NEW t \in Requests, EditUsers(t)
  PROVE  IInv'
<1> DEFINE r == [NoRequest EXCEPT !.pc = "responding", !.browser = request[t].browser,
                                  !.session = Session(t)]
<1>1. r \in RequestRecord /\ r.pc = "responding"
  BY Answers DEF IInv, TypeOK, NoRequest, Session
<1> HIDE DEF r
<1>2. request' = [request EXCEPT ![t] = r]
  BY DEF Answer, EditUsers, r
<1>3. RequestOK(r, users', seen'[t])
  BY <1>1, RestIsOK
<1>4. users' \in [Names -> Roles \cup {"none"}] /\ edits' \in 0 .. MaxEdits
  BY EditsAreTyped, AccountsAssumption DEF EditUsers, IInv, TypeOK
<1>5. ASSUME NEW s \in Requests
      PROVE  /\ Session(s).name \in Names \cup {Nobody}
             /\ RoleOf(users', Session(s).name) \in Roles \cup {"none"}
  BY <1>4 DEF IInv, TypeOK, Session, Sessions, RoleOf
<1>6. seen' \in [Requests -> SUBSET (Roles \cup {"none"})]
  BY <1>5 DEF EditUsers, IInv, TypeOK
<1>7. ASSUME NEW s \in Requests \ {t} PROVE RequestOK(request[s], users', seen'[s])
  <2>1. CASE At(s, "idle")
    BY <2>1, RestIsOK DEF At
  <2>2. CASE ~At(s, "idle")
    <3>1. seen'[s] = seen[s] \cup {RoleOf(users', Session(s).name)}
      BY <2>2 DEF EditUsers
    <3>2. RequestOK(request[s], users, seen[s])
      BY DEF IInv, RequestsOK
    <3> QED BY <3>1, <3>2, StaysOK DEF Session
  <2> QED BY <2>1, <2>2
<1> QED BY <1>1, <1>2, <1>3, <1>4, <1>6, <1>7, RequestMoves DEF EditUsers, IInv, TypeOK, UnderWay

LEMMA RespondKeeps ==
  ASSUME IInv, NEW t \in Requests, Respond(t)
  PROVE  IInv'
<1>1. NoRequest \in RequestRecord /\ NoRequest.pc = "idle"
  BY AtRest DEF NoRequest
<1>2. request' = [request EXCEPT ![t] = NoRequest]
  BY DEF Respond
<1>3. RequestOK(NoRequest, users', seen'[t])
  BY <1>1, RestIsOK
<1>4. \A s \in Requests \ {t} : RequestOK(request[s], users', seen'[s])
  BY DEF IInv, RequestsOK, TypeOK, Respond
<1>5. cookie' \in [Browsers -> Sessions] /\ seen' \in [Requests -> SUBSET (Roles \cup {"none"})]
  BY DEF Respond, IInv, TypeOK, Session
<1> QED BY <1>1, <1>2, <1>3, <1>4, <1>5, RequestMoves DEF Respond, IInv, TypeOK, UnderWay

LEMMA TickKeeps ==
  ASSUME IInv, Tick
  PROVE  IInv'
<1>1. ASSUME NEW k \in Keys
      PROVE  /\ failures'[k] \in Seq(0 .. Window) /\ OldestFirst(failures'[k])
             /\ Len(failures'[k]) <= Len(failures[k])
             /\ Len(failures'[k]) \in Nat /\ Len(failures[k]) \in Nat
  <2>1. failures'[k] = Recent(failures[k]) /\ failures[k] \in Seq(0 .. Window)
        /\ OldestFirst(failures[k])
    BY DEF Tick, IInv, TypeOK
  <2>2. failures'[k] \in Seq(0 .. Window) /\ OldestFirst(failures'[k])
        /\ Len(failures'[k]) <= Len(failures[k])
    BY <2>1, RecentAges
  <2> QED BY <2>1, <2>2, LenProperties
<1>2. TypeOK'
  <2>1. failures' \in [Keys -> Seq(0 .. Window)]
    BY <1>1 DEF Tick
  <2> QED BY <1>1, <2>1 DEF Tick, IInv, TypeOK
<1>3. RequestsOK'
  BY DEF Tick, IInv, RequestsOK
<1>4. ASSUME NEW k \in Keys PROVE Pending(k)' = Pending(k)
  BY DEF Pending, Key, Session, Tick
<1>5. Bounded'
  BY <1>1, <1>4, Fewer DEF Bounded, IInv
<1> QED BY <1>2, <1>3, <1>5 DEF IInv

\* No failures and nothing under way: after a start.
LEMMA Fresh ==
  ASSUME failures = [k \in Keys |-> << >>], request = [t \in Requests |-> NoRequest],
         users \in [Names -> Roles \cup {"none"}], cookie \in [Browsers -> Sessions],
         seen = [t \in Requests |-> {}], edits \in 0 .. MaxEdits
  PROVE  IInv
<1>1. TypeOK
  BY AtRest DEF TypeOK, RequestRecord, OldestFirst
<1>2. RequestsOK
  BY RestIsOK DEF RequestsOK, NoRequest
<1>3. ASSUME NEW k \in Keys
      PROVE  Len(failures[k]) + Cardinality(Pending(k)) <= MaxFailures - 1 + Cardinality(Requests)
  <2>1. Pending(k) = {}
    BY DEF Pending, NoRequest, UnderWay
  <2>2. Cardinality(Requests) \in Nat
    BY AccountsAssumption, FS_CardinalityType
  <2> QED BY <2>1, <2>2, FS_EmptySet, AccountsAssumption
<1> QED BY <1>1, <1>2, <1>3 DEF IInv, Bounded

LEMMA InitOK == Init => IInv
<1> SUFFICES ASSUME Init PROVE IInv
  OBVIOUS
<1>1. cookie \in [Browsers -> Sessions] /\ edits \in 0 .. MaxEdits
  BY AtRest, AccountsAssumption DEF Init
<1> QED BY <1>1, Fresh DEF Init

LEMMA RestartKeeps ==
  ASSUME IInv, Restart
  PROVE  IInv'
<1>1. users' \in [Names -> Roles \cup {"none"}]
  BY DEF Restart, IInv, TypeOK, Roles
<1>2. cookie' \in [Browsers -> Sessions] /\ edits' \in 0 .. MaxEdits
  BY DEF Restart, IInv, TypeOK
<1>3. TypeOK'
  BY <1>1, <1>2, AtRest DEF TypeOK, RequestRecord, OldestFirst, Restart
<1>4. RequestsOK'
  BY RestIsOK DEF RequestsOK, NoRequest, Restart
<1>5. ASSUME NEW k \in Keys
      PROVE  Len(failures'[k]) + Cardinality(Pending(k)') <= MaxFailures - 1 + Cardinality(Requests)
  <2>1. Pending(k)' = {}
    BY DEF Pending, NoRequest, UnderWay, Restart
  <2>2. Cardinality(Requests) \in Nat
    BY AccountsAssumption, FS_CardinalityType
  <2> QED BY <2>1, <2>2, FS_EmptySet, AccountsAssumption DEF Restart
<1> QED BY <1>3, <1>4, <1>5 DEF IInv, Bounded

LEMMA StepKeeps == IInv /\ [Next]_vars => IInv'
<1> SUFFICES ASSUME IInv, [Next]_vars PROVE IInv'
  OBVIOUS
<1>1. CASE UNCHANGED vars
  <2>1. \A k : Pending(k)' = Pending(k)
    BY <1>1 DEF Pending, Key, Session, vars
  <2> QED BY <1>1, <2>1 DEF vars, IInv, TypeOK, RequestsOK, Bounded
<1>2. ASSUME NEW t \in Requests, RequestStep(t) PROVE IInv'
  BY <1>2, ArriveKeeps, EnforceKeeps, TestLockKeeps, VerifyKeeps, RecordFailureKeeps,
     ClearFailuresKeeps, EditUsersKeeps, RespondKeeps DEF RequestStep
<1> QED BY <1>1, <1>2, TickKeeps, RestartKeeps DEF Next

-----------------------------------------------------------------------------
(* Theorems.                                                               *)

THEOREM Invariance == Spec => []IInv
<1> QED BY InitOK, StepKeeps, PTL DEF Spec

\* Failures are counted under a name, oldest first, each within the window; the
\* filter of _is_login_locked and _is_reveal_locked keeps both.
THEOREM TypeCorrect == Spec => []TypeOK
<1>1. IInv => TypeOK
  BY DEF IInv
<1> QED BY <1>1, Invariance, PTL

\* However many attempts pass _is_login_locked side by side before one of them
\* fails, they overshoot the limit by less than there are threads.
THEOREM FailuresStayBounded == Spec => []FailuresAreBounded
<1>1. ASSUME IInv PROVE FailuresAreBounded
  <2> SUFFICES ASSUME NEW k \in Keys
               PROVE  Len(failures[k]) <= MaxFailures - 1 + Cardinality(Requests)
    BY DEF FailuresAreBounded
  <2>1. Len(failures[k]) \in Nat
    BY <1>1, LenProperties DEF IInv, TypeOK
  <2>2. Cardinality(Requests) \in Nat
    BY AccountsAssumption, FS_CardinalityType
  <2> QED BY <1>1, <2>1, <2>2, PendingIsFinite, AccountsAssumption DEF IInv, Bounded
<1> QED BY <1>1, Invariance, PTL

\* enforce_request_security reads the account anew: no handler that needs a role
\* runs by what a cookie says.
THEOREM RoleStaysCurrent == Spec => []RoleIsCurrent
<1>1. IInv => RoleIsCurrent
  BY DEF IInv, RequestsOK, RequestOK, RoleIsCurrent
<1> QED BY <1>1, Invariance, PTL
=============================================================================
