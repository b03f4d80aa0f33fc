-------------------------------- MODULE Throttle --------------------------------
(***************************************************************************)
(* How often one may knock: httpx.Limiter as internal/auth uses it.        *)
(*                                                                         *)
(* One limiter, a map from keys to the times of recent attempts, counts    *)
(* three kinds of key: the client and the e-mail address of a sign-in,     *)
(* which share a budget and a window, and the client of a refresh, which   *)
(* has its own.  Each call of Allow and Forget holds the mutex throughout  *)
(* and is one step; a sign-in is several of them, with the password        *)
(* verified in between, and sign-ins interleave.                           *)
(*                                                                         *)
(* Attempts are kept by age: time makes each one tick older, up to       *)
(* Horizon, beyond which no age makes a difference.                        *)
(***************************************************************************)
EXTENDS Naturals, FiniteSets

CONSTANTS Clients,          \* fingerprints: address and user agent
          Emails,           \* addresses, in lower case
          LoginAttempts,    \* 10
          LoginWindow,      \* 15 minutes
          RefreshAttempts,  \* 30
          RefreshWindow,    \* 1 minute
          MaxKeys,          \* 4096
          Callers           \* bounds the sign-ins in flight

ASSUME ThrottleAssumption ==
    /\ {LoginAttempts, RefreshAttempts, LoginWindow, RefreshWindow}
          \subseteq Nat \ {0}
    /\ RefreshWindow <= LoginWindow
    /\ MaxKeys \in Nat

VARIABLES hits,     \* Limiter.hits; no attempts stand for no key
          signIn,   \* where each sign-in stands
          granted   \* history: per key, the attempts allowed since the last
                    \* successful sign-in with it

limiterVars == <<hits, signIn, granted>>

ClientKey(c)  == <<"client", c>>
EmailKey(m)   == <<"login", m>>
RefreshKey(c) == <<"refresh", c>>

LoginKeys   == {ClientKey(c) : c \in Clients} \cup {EmailKey(m) : m \in Emails}
RefreshKeys == {RefreshKey(c) : c \in Clients}
Keys        == LoginKeys \cup RefreshKeys

Budget(key) == IF key \in RefreshKeys THEN RefreshAttempts ELSE LoginAttempts
Window(key) == IF key \in RefreshKeys THEN RefreshWindow ELSE LoginWindow

Horizon == LoginWindow + 1
Ages    == 0..Horizon

\* Those of one moment are told apart by number; a log is oldest first, so a
\* set of them says all there is to it.
Attempts == [age: Ages, nth: Nat \ {0}]

NoSignIn == [op |-> "idle"]

SignIns == [op: {"client", "email", "verify", "proved"},
            client: Clients, email: Emails]

-----------------------------------------------------------------------------
(* Limiter.Allow *)

\* t.After(cutoff).
Within(log, window) == {a \in log : a.age < window}

Kept(key) == Within(hits[key], Window(key))

\* append(kept, time.Now()).
Recorded(log) == log \cup {[age |-> 0, nth |-> Cardinality({a \in log : a.age = 0}) + 1]}

\* Mutant of HasBudget: one attempt too many.
HasBudgetAndOne(key) == Cardinality(Kept(key)) <= Budget(key)

HasBudget(key) == Cardinality(Kept(key)) < Budget(key)

\* Mutant of Swept: keys whose earliest attempt lies outside the window go.
SweptByFirst(map, window) ==
    IF Cardinality({k \in Keys : map[k] # {}}) > MaxKeys
    THEN [k \in Keys |-> IF \E a \in map[k] : a.age > window THEN {} ELSE map[k]]
    ELSE map

\* The sweep: past MaxKeys, keys whose latest attempt lies outside the window
\* of the present call go.
Swept(map, window) ==
    IF Cardinality({k \in Keys : map[k] # {}}) > MaxKeys
    THEN [k \in Keys |-> IF \A a \in map[k] : a.age > window THEN {} ELSE map[k]]
    ELSE map

\* Within the budget: the attempt is recorded.
Allow(key) ==
    /\ HasBudget(key)
    /\ hits' = Swept([hits EXCEPT ![key] = Recorded(Kept(key))], Window(key))
    /\ granted' = [granted EXCEPT ![key] = Recorded(@)]

\* Mutant of Deny: an attempt that is turned away counts.
DenyRecording(key) ==
    /\ ~HasBudget(key)
    /\ hits' = [hits EXCEPT ![key] = Recorded(Kept(key))]
    /\ UNCHANGED granted

\* Over it: expired attempts go, and this one is not recorded.
Deny(key) ==
    /\ ~HasBudget(key)
    /\ hits' = [hits EXCEPT ![key] = Kept(key)]
    /\ UNCHANGED granted

Forget(key) ==
    /\ hits' = [hits EXCEPT ![key] = {}]
    /\ granted' = [granted EXCEPT ![key] = {}]

-----------------------------------------------------------------------------

LimiterInit ==
    /\ hits = [key \in Keys |-> {}]
    /\ signIn = [q \in Callers |-> NoSignIn]
    /\ granted = [key \in Keys |-> {}]

Goto(q, op) == signIn' = [signIn EXCEPT ![q].op = op]

End(q) == signIn' = [signIn EXCEPT ![q] = NoSignIn]

\* A sign-in arrives: decoded, with both fields present.
Arrive(q, c, m) ==
    /\ signIn[q] = NoSignIn
    /\ signIn' = [signIn EXCEPT ![q] =
                      [op |-> "client", client |-> c, email |-> m]]
    /\ UNCHANGED <<hits, granted>>

\* The client's key first; refused there, the address is not charged.
ChargeClient(q) ==
    /\ signIn[q].op = "client"
    /\ LET key == ClientKey(signIn[q].client)
       IN  \/ Allow(key) /\ Goto(q, "email")
           \/ Deny(key) /\ End(q)

ChargeEmail(q) ==
    /\ signIn[q].op = "email"
    /\ LET key == EmailKey(signIn[q].email)
       IN  \/ Allow(key) /\ Goto(q, "verify")
           \/ Deny(key) /\ End(q)

\* UserByEmail and VerifyPassword: a right password, or the end.
Verify(q) ==
    /\ signIn[q].op = "verify"
    /\ \/ /\ Forget(ClientKey(signIn[q].client))
          /\ Goto(q, "proved")
       \/ End(q) /\ UNCHANGED <<hits, granted>>

ForgetEmail(q) ==
    /\ signIn[q].op = "proved"
    /\ Forget(EmailKey(signIn[q].email))
    /\ End(q)

\* Of refresh, what the limiter sees.
Refresh(c) ==
    /\ Allow(RefreshKey(c)) \/ Deny(RefreshKey(c))
    /\ UNCHANGED signIn

Older(log) == {[a EXCEPT !.age = IF @ < Horizon THEN @ + 1 ELSE Horizon] : a \in log}

TimePasses ==
    /\ hits' = [key \in Keys |-> Older(hits[key])]
    /\ granted' = [key \in Keys |->
                      Within(Older(granted[key]), Window(key))]
    /\ UNCHANGED signIn

SignIn(q) ==
    \/ \E c \in Clients, m \in Emails : Arrive(q, c, m)
    \/ ChargeClient(q)
    \/ ChargeEmail(q)
    \/ Verify(q)
    \/ ForgetEmail(q)

LimiterNext ==
    \/ \E q \in Callers : SignIn(q)
    \/ \E c \in Clients : Refresh(c)
    \/ TimePasses

LimiterSpec == LimiterInit /\ [][LimiterNext]_limiterVars

FairSpec == LimiterSpec /\ WF_limiterVars(TimePasses)

-----------------------------------------------------------------------------
(* Properties *)

\* Every variable stays in its type, and the attempts of this moment are
\* numbered without gaps.
LimiterTypeOK ==
    /\ hits \in [Keys -> SUBSET Attempts]
    /\ signIn \in [Callers -> {NoSignIn} \cup SignIns]
    /\ granted \in [Keys -> SUBSET Attempts]
    /\ \A key \in Keys : \A a \in granted[key] :
          a.age = 0 => a.nth <= Cardinality({b \in granted[key] : b.age = 0})

\* Nobody is turned away for attempts that were not made: what counts against
\* a key is at most what it was granted, within its window and since its last
\* success, whatever other keys, sweeps and sign-ins in flight do.
NoPhantomAttempts ==
    \A key \in Keys : Cardinality(Kept(key)) <= Cardinality(granted[key])

\* No key is granted more than a budget's worth in a window.
BudgetKept(keys) ==
    \A key \in keys : Cardinality(granted[key]) <= Budget(key)

\* Refreshes are held to their budget even though sign-ins sweep their keys.
RefreshBudgetKept == BudgetKept(RefreshKeys)

\* "Both keys must have budget": between two successes, no client and no
\* address gets more than LoginAttempts verifications in a window.
LoginBudgetKept == BudgetKept(LoginKeys)

\* What a key was granted within the shorter of the two windows.
Fresh(key) == {a \in granted[key] : a.age <= RefreshWindow}

\* No sweep, by whatever call and with whichever window, lets a client or an
\* address burst: within the shorter window none gets more than LoginAttempts
\* verifications between two successes, though MaxKeys be exceeded all along.
LoginBurstKept == \A key \in LoginKeys : Cardinality(Fresh(key)) <= LoginAttempts

\* A lockout ends: however hard a key is hammered, it comes to have budget
\* again, over and over.
LockoutEnds == \A key \in Keys : []<>HasBudget(key)
=============================================================================
