--------------------------- MODULE BrowserSessionProofs ---------------------------
(***************************************************************************)
(* Proofs about the browser's session, for any tabs, widgets, accounts and *)
(* tokens, with answers that are lost or not.  The argument: while nothing *)
(* has befallen the session, at most one refresh is under way, it presents *)
(* the stored token, and nobody signs out; so the one token that is good   *)
(* is stored or on its way.  After a calm sign-out no refresh is on its    *)
(* way, and none begins without a stored token.                            *)
(***************************************************************************)
EXTENDS BrowserSession, TLAPS

\* The calls of AuthProvider are made in their own slot.
WidgetsOnlyGet ==
    \A tab \in Tabs, w \in Widgets : calls[tab][w] # Idle => calls[tab][w].kind = "get"

Alone(tab) == \A o \in Tabs \ {tab} : ~Busy(o)

\* A refresh that trades the good token of a session for another.
Trades(tab) ==
    LET r == refresh[tab]
    IN  /\ r.token = storage
        /\ Alone(tab)
        /\ \/ r.stage = "sent" /\ Live(storage)
           \/ r.stage = "consumed" /\ r.account # NoAccount
           \/ r.stage = "issued" /\ Live(r.new)

SigningOut(tab) == calls[tab]["main"] # Idle /\ calls[tab]["main"].kind = "logout"

\* Nothing has befallen the session, so nothing is about to.
Unspoilt ==
    blame = {} =>
       /\ \A tab \in Tabs : ~SigningOut(tab) /\ (Busy(tab) => Trades(tab))
       /\ Live(storage) \/ \E tab \in Tabs : Busy(tab)

Calm == out = "calm" => storage = NoToken /\ \A tab \in Tabs : ~Busy(tab)

BrowserInv == TypeOK /\ WidgetsOnlyGet /\ Unspoilt /\ Calm
-----------------------------------------------------------------------------
(* The parts of a step *)

LEMMA BrowserInit == ASSUME BrowserAssumption, Init PROVE BrowserInv
<1>1. TypeOK
  BY DEF Init, TypeOK, Quiet, Refreshes, Waiting, Awaits
<1>2. WidgetsOnlyGet /\ Unspoilt /\ Calm
  BY DEF Init, WidgetsOnlyGet, Unspoilt, Calm, Slots
<1> QED
  BY <1>1, <1>2 DEF BrowserInv

LEMMA CallType ==
    ASSUME TypeOK, NEW tab \in Tabs, NEW s \in Slots, calls[tab][s] # Idle
    PROVE  calls[tab][s] \in Calls
BY DEF TypeOK

\* One call of a tab moves, and does not begin to wait.
LEMMA OneCallMoves ==
    ASSUME TypeOK, WidgetsOnlyGet, NEW tab \in Tabs, NEW s \in Slots,
           NEW call \in Calls \cup {Idle}, SetCall(tab, s, call), UNCHANGED refresh,
           call # Idle => call.stage # "waiting" /\ (s \in Widgets => call.kind = "get")
    PROVE  /\ calls' \in [Tabs -> [Slots -> Calls \cup {Idle}]]
           /\ \A o \in Tabs : Waiting(o)' # {} => Busy(o)'
           /\ WidgetsOnlyGet'
           /\ \A o \in Tabs : SigningOut(o)' =>
                 SigningOut(o) \/ (o = tab /\ s = "main" /\ call # Idle /\ call.kind = "logout")
<1>1. calls \in [Tabs -> [Slots -> Calls \cup {Idle}]]
  BY DEF TypeOK
<1>2. calls' = [calls EXCEPT ![tab][s] = call]
  BY DEF SetCall
<1>3. /\ calls' \in [Tabs -> [Slots -> Calls \cup {Idle}]]
      /\ calls'[tab][s] = call
      /\ \A o \in Tabs, z \in Slots : o # tab \/ z # s => calls'[o][z] = calls[o][z]
  BY <1>1, <1>2
<1>4. ASSUME NEW o \in Tabs PROVE Waiting(o)' \subseteq Waiting(o)
  BY <1>3 DEF Waiting, Awaits
<1>5. \A o \in Tabs : Waiting(o)' # {} => Busy(o)'
  BY <1>4 DEF TypeOK, Busy
<1>6. WidgetsOnlyGet'
  <2>1. ASSUME NEW o \in Tabs, NEW w \in Widgets, calls'[o][w] # Idle
        PROVE  calls'[o][w].kind = "get"
    <3>1. w \in Slots
      BY DEF Slots
    <3>2. CASE o = tab /\ w = s
      BY <1>3, <2>1, <3>2
    <3>3. CASE ~(o = tab /\ w = s)
      BY <1>3, <2>1, <3>1, <3>3 DEF WidgetsOnlyGet
    <3> QED
      BY <3>2, <3>3
  <2> QED
    BY <2>1 DEF WidgetsOnlyGet
<1>7. "main" \in Slots
  BY DEF Slots
<1> QED
  BY <1>3, <1>5, <1>6, <1>7 DEF SigningOut

\* A row of calls that holds no other calls than tab's, and none that waits.
GoesOn(tab, row) ==
    \A s \in Slots : row[s] # Idle =>
       /\ row[s].stage # "waiting"
       /\ calls[tab][s] # Idle
       /\ row[s].kind = "get" <=> calls[tab][s].kind = "get"
       /\ row[s].kind = "logout" <=> calls[tab][s].kind = "logout"

\* The calls of a tab move together, as a refresh ends.
LEMMA CallsMove ==
    ASSUME TypeOK, WidgetsOnlyGet, NEW tab \in Tabs,
           NEW row \in [Slots -> Calls \cup {Idle}], calls' = [calls EXCEPT ![tab] = row],
           GoesOn(tab, row),
           \A o \in Tabs \ {tab} : refresh'[o] = refresh[o]
    PROVE  /\ calls' \in [Tabs -> [Slots -> Calls \cup {Idle}]]
           /\ \A o \in Tabs : Waiting(o)' # {} => Busy(o)'
           /\ WidgetsOnlyGet'
           /\ \A o \in Tabs : SigningOut(o)' => SigningOut(o)
<1>1. calls \in [Tabs -> [Slots -> Calls \cup {Idle}]]
  BY DEF TypeOK
<1>2. /\ calls' \in [Tabs -> [Slots -> Calls \cup {Idle}]]
      /\ calls'[tab] = row /\ \A o \in Tabs \ {tab} : calls'[o] = calls[o]
  BY <1>1
<1>3. Waiting(tab)' = {}
  BY <1>2 DEF Waiting, Awaits, GoesOn
<1>4. ASSUME NEW o \in Tabs \ {tab} PROVE Waiting(o)' # {} => Busy(o)'
  BY <1>2 DEF TypeOK, Waiting, Awaits, Busy
<1>5. WidgetsOnlyGet'
  BY <1>2 DEF WidgetsOnlyGet, Slots, GoesOn
<1>6. "main" \in Slots
  BY DEF Slots
<1> QED
  BY <1>2, <1>3, <1>4, <1>5, <1>6 DEF SigningOut, GoesOn

\* Calls that stay what they are.
LEMMA SameKinds ==
    ASSUME WidgetsOnlyGet,
           \A o \in Tabs, z \in Slots :
              calls'[o][z] # Idle => /\ calls[o][z] # Idle
                                     /\ calls'[o][z].kind = calls[o][z].kind
    PROVE  WidgetsOnlyGet' /\ \A o \in Tabs : SigningOut(o)' => SigningOut(o)
<1>1. "main" \in Slots /\ \A w \in Widgets : w \in Slots
  BY DEF Slots
<1>2. ASSUME NEW o \in Tabs, NEW w \in Widgets, calls'[o][w] # Idle
      PROVE  calls'[o][w].kind = "get"
  BY <1>1, <1>2 DEF WidgetsOnlyGet
<1>3. ASSUME NEW o \in Tabs, calls'[o]["main"] # Idle, calls'[o]["main"].kind = "logout"
      PROVE  SigningOut(o)
  BY <1>1, <1>3 DEF SigningOut
<1> QED
  BY <1>2, <1>3 DEF WidgetsOnlyGet, SigningOut

LEMMA OneRefreshMoves ==
    ASSUME TypeOK, NEW tab \in Tabs, NEW new \in Refreshes,
           refresh' = [refresh EXCEPT ![tab] = new]
    PROVE  /\ refresh' \in [Tabs -> Refreshes]
           /\ refresh'[tab] = new /\ \A o \in Tabs \ {tab} : refresh'[o] = refresh[o]
BY DEF TypeOK

LEMMA QuietType == ASSUME TypeOK PROVE Quiet \in Refreshes /\ Presented \in Refreshes
BY DEF TypeOK, Quiet, Presented, Refreshes

LEMMA SessionSet ==
    ASSUME TypeOK, NEW tab \in Tabs, NEW account \in Accounts \cup {NoAccount},
           NEW token \in TokenIds \cup {NoToken}, SetSession(tab, account, token)
    PROVE  /\ storage' \in TokenIds \cup {NoToken}
           /\ access' \in [Tabs -> Accounts \cup {NoAccount}]
           /\ valid' \in [Tabs -> BOOLEAN]
<1>1. access \in [Tabs -> Accounts \cup {NoAccount}] /\ valid \in [Tabs -> BOOLEAN]
  BY DEF TypeOK
<1>2. PICK b \in BOOLEAN : b = (account # NoAccount)
  OBVIOUS
<1>3. valid' = [valid EXCEPT ![tab] = b]
  BY <1>2 DEF SetSession
<1> QED
  BY <1>1, <1>3 DEF SetSession

\* A step that leaves the refreshes and what they need leaves the session.
LEMMA UnspoiltStays ==
    ASSUME Unspoilt, UNCHANGED <<storage, refresh, blame>>,
           blame = {} =>
              /\ \A o \in Tabs : SigningOut(o)' => SigningOut(o)
              /\ Live(storage) => Live(storage)'
              /\ \A o \in Tabs : Live(refresh[o].new) => Live(refresh[o].new)'
    PROVE  Unspoilt'
<1>1. ASSUME NEW o \in Tabs, blame = {}, Trades(o) PROVE Trades(o)'
  BY <1>1 DEF Trades, Alone, Busy, Live
<1> QED
  BY <1>1 DEF Unspoilt, Busy, Live

LEMMA CalmStays ==
    ASSUME Calm, UNCHANGED <<storage, refresh>>, out' = "calm" => out = "calm"
    PROVE  Calm'
BY DEF Calm, Busy

-----------------------------------------------------------------------------
(* The refresh *)

LEMMA ServeRefreshKeeps ==
    ASSUME BrowserAssumption, BrowserInv, NEW tab \in Tabs, ServeRefresh(tab)
    PROVE  BrowserInv'
<1>0. PICK r : r = refresh[tab]
  OBVIOUS
<1>1. /\ TypeOK /\ r \in Refreshes /\ r.stage = "sent" /\ Busy(tab)
      /\ tokens \in [TokenIds -> Accounts \cup {NoAccount}]
  BY <1>0 DEF BrowserInv, TypeOK, ServeRefresh, Busy
<1>2. UNCHANGED <<storage, access, valid, shown, calls, blame, out>>
  BY DEF ServeRefresh, KeepSession
<1>3. PICK new \in Refreshes :
         /\ refresh' = [refresh EXCEPT ![tab] = new]
         /\ new.stage # "none" /\ new.token = r.token
         /\ Live(r.token) => new.stage = "consumed" /\ new.account # NoAccount
  <2>1. CASE Live(r.token)
    <3> DEFINE new == [r EXCEPT !.stage = "consumed", !.account = tokens[r.token]]
    <3>1. tokens[r.token] \in Accounts /\ tokens[r.token] # NoAccount
      BY <1>1, <2>1 DEF Live, Refreshes
    <3>2. new \in Refreshes /\ new.stage = "consumed" /\ new.token = r.token
          /\ new.account # NoAccount
      BY <1>1, <3>1 DEF Refreshes
    <3>3. refresh' = [refresh EXCEPT ![tab] = new]
      BY <1>0, <2>1 DEF ServeRefresh
    <3> QED
      BY <3>2, <3>3
  <2>2. CASE ~Live(r.token)
    <3> DEFINE new == [r EXCEPT !.stage = "refused"]
    <3>1. new \in Refreshes /\ new.stage = "refused" /\ new.token = r.token
      BY <1>1 DEF Refreshes
    <3>2. refresh' = [refresh EXCEPT ![tab] = new]
      BY <1>0, <2>2 DEF ServeRefresh
    <3> QED
      BY <2>2, <3>1, <3>2
  <2> QED
    BY <2>1, <2>2
<1>4. /\ refresh' \in [Tabs -> Refreshes]
      /\ refresh'[tab] = new /\ \A o \in Tabs \ {tab} : refresh'[o] = refresh[o]
  BY <1>1, <1>3, OneRefreshMoves
<1>5. tokens' \in [TokenIds -> Accounts \cup {NoAccount}]
  BY <1>1 DEF ServeRefresh
<1>6. \A o \in Tabs : Busy(o)' <=> Busy(o)
  BY <1>0, <1>1, <1>3, <1>4 DEF Busy
<1>7. TypeOK'
  BY <1>1, <1>2, <1>4, <1>5, <1>6 DEF TypeOK, Waiting, Awaits
<1>8. WidgetsOnlyGet' /\ Calm'
  BY <1>1, <1>2 DEF BrowserInv, WidgetsOnlyGet, Calm
<1>9. Unspoilt'
  <2> SUFFICES ASSUME blame = {} PROVE Unspoilt'
    BY <1>2 DEF Unspoilt
  <2>1. Trades(tab)
    BY <1>1 DEF BrowserInv, Unspoilt
  <2>2. Live(r.token) /\ r.token = storage /\ \A o \in Tabs \ {tab} : ~Busy(o)
    BY <1>0, <1>1, <2>1 DEF Trades, Alone
  <2>3. Trades(tab)'
    BY <1>2, <1>3, <1>4, <1>6, <2>2 DEF Trades, Alone
  <2>4. \A o \in Tabs : ~SigningOut(o)'
    BY <1>2 DEF BrowserInv, Unspoilt, SigningOut
  <2> QED
    BY <1>1, <1>6, <2>2, <2>3, <2>4 DEF Unspoilt
<1> QED
  BY <1>7, <1>8, <1>9 DEF BrowserInv

LEMMA IssueRefreshKeeps ==
    ASSUME BrowserAssumption, BrowserInv, NEW tab \in Tabs, IssueRefresh(tab)
    PROVE  BrowserInv'
<1>0. PICK r : r = refresh[tab]
  OBVIOUS
<1>1. /\ TypeOK /\ r \in Refreshes /\ r.stage = "consumed" /\ Busy(tab)
      /\ tokens \in [TokenIds -> Accounts \cup {NoAccount}]
  BY <1>0 DEF BrowserInv, TypeOK, IssueRefresh, Busy
<1>2. UNCHANGED <<storage, access, valid, shown, calls, blame, out>>
  BY DEF IssueRefresh, KeepSession
<1>3. PICK t \in TokenIds :
         /\ tokens' = [tokens EXCEPT ![t] = r.account]
         /\ refresh' = [refresh EXCEPT ![tab].stage = "issued", ![tab].new = t]
  BY <1>0 DEF IssueRefresh
<1> DEFINE new == [r EXCEPT !.stage = "issued", !.new = t]
<1>4. /\ new \in Refreshes /\ new.stage = "issued" /\ new.token = r.token /\ new.new = t
      /\ refresh' = [refresh EXCEPT ![tab] = new]
  BY <1>0, <1>1, <1>3 DEF Refreshes
<1> HIDE DEF new
<1>5. /\ refresh' \in [Tabs -> Refreshes]
      /\ refresh'[tab] = new /\ \A o \in Tabs \ {tab} : refresh'[o] = refresh[o]
  BY <1>1, <1>4, OneRefreshMoves
<1>6. tokens' \in [TokenIds -> Accounts \cup {NoAccount}] /\ tokens'[t] = r.account
  BY <1>1, <1>3 DEF Refreshes
<1>7. \A o \in Tabs : Busy(o)' <=> Busy(o)
  BY <1>0, <1>1, <1>4, <1>5 DEF Busy
<1>8. TypeOK'
  BY <1>1, <1>2, <1>5, <1>6, <1>7 DEF TypeOK, Waiting, Awaits
<1>9. WidgetsOnlyGet' /\ Calm'
  BY <1>1, <1>2 DEF BrowserInv, WidgetsOnlyGet, Calm
<1>10. Unspoilt'
  <2> SUFFICES ASSUME blame = {} PROVE Unspoilt'
    BY <1>2 DEF Unspoilt
  <2>1. Trades(tab)
    BY <1>1 DEF BrowserInv, Unspoilt
  <2>2. r.account # NoAccount /\ r.token = storage /\ \A o \in Tabs \ {tab} : ~Busy(o)
    BY <1>0, <1>1, <2>1 DEF Trades, Alone
  <2>3. Live(new.new)'
    BY <1>4, <1>6, <2>2, BrowserAssumption DEF Live, BrowserAssumption
  <2>4. Trades(tab)'
    BY <1>2, <1>4, <1>5, <1>7, <2>2, <2>3 DEF Trades, Alone, Live
  <2>5. \A o \in Tabs : ~SigningOut(o)'
    BY <1>2 DEF BrowserInv, Unspoilt, SigningOut
  <2> QED
    BY <1>1, <1>7, <2>2, <2>4, <2>5 DEF Unspoilt
<1> QED
  BY <1>8, <1>9, <1>10 DEF BrowserInv

LEMMA FailRefreshKeeps ==
    ASSUME BrowserAssumption, BrowserInv, NEW tab \in Tabs, FailRefresh(tab)
    PROVE  BrowserInv'
<1>0. PICK r : r = refresh[tab]
  OBVIOUS
<1>1. /\ TypeOK /\ r \in Refreshes /\ Busy(tab)
      /\ UNCHANGED <<storage, access, valid, tokens, shown, calls, out>>
      /\ blame' = blame \cup {"lost"}
  BY <1>0 DEF BrowserInv, TypeOK, FailRefresh, Busy, KeepSession, Befall
<1> DEFINE new == [r EXCEPT !.stage = "refused"]
<1>2. new \in Refreshes /\ new.stage = "refused" /\ refresh' = [refresh EXCEPT ![tab] = new]
  BY <1>0, <1>1 DEF FailRefresh, Refreshes
<1> HIDE DEF new
<1>3. /\ refresh' \in [Tabs -> Refreshes]
      /\ refresh'[tab] = new /\ \A o \in Tabs \ {tab} : refresh'[o] = refresh[o]
  BY <1>1, <1>2, OneRefreshMoves
<1>4. \A o \in Tabs : Busy(o)' <=> Busy(o)
  BY <1>1, <1>2, <1>3 DEF Busy
<1>5. TypeOK'
  BY <1>1, <1>3, <1>4 DEF TypeOK, Waiting, Awaits
<1>6. WidgetsOnlyGet' /\ Calm' /\ Unspoilt'
  BY <1>1 DEF BrowserInv, WidgetsOnlyGet, Calm, Unspoilt
<1> QED
  BY <1>5, <1>6 DEF BrowserInv
\* The calls that waited, once the refresh has ended: sent again, or failed.
LEMMA ResentRow ==
    ASSUME TypeOK, NEW tab \in Tabs, NEW account \in Accounts \cup {NoAccount}, NEW row,
           row = [s \in Slots |-> IF s \in Waiting(tab) THEN Resent(tab, account, s)
                                                        ELSE calls[tab][s]]
    PROVE  /\ row \in [Slots -> Calls \cup {Idle}]
           /\ GoesOn(tab, row)
<1>1. ASSUME NEW s \in Slots
      PROVE  /\ row[s] \in Calls \cup {Idle}
             /\ row[s] # Idle =>
                   /\ row[s].stage # "waiting"
                   /\ calls[tab][s] # Idle
                   /\ row[s].kind = "get" <=> calls[tab][s].kind = "get"
                   /\ row[s].kind = "logout" <=> calls[tab][s].kind = "logout"
  <2>1. calls[tab][s] \in Calls \cup {Idle}
    BY DEF TypeOK
  <2>2. CASE s \in Waiting(tab)
    <3>1. calls[tab][s] # Idle /\ calls[tab][s] \in Calls
      BY <2>1, <2>2 DEF Waiting, Awaits
    <3>2. row[s] = Resent(tab, account, s)
      BY <2>2
    <3>3. PICK c, b, kind, owner :
             /\ c = calls[tab][s] /\ b = (c.kind = "boot") /\ b \in BOOLEAN
             /\ kind = IF c.kind = "boot" THEN "me" ELSE c.kind
             /\ owner = IF c.kind = "login" THEN c.account ELSE account
      OBVIOUS
    <3>4. row[s] = [kind |-> kind, stage |-> "sent", account |-> owner,
                    good |-> TRUE, again |-> b, new |-> c.new]
      BY <3>1, <3>2, <3>3 DEF Resent, Calls
    <3>5. /\ kind \in {"get", "boot", "me", "login", "logout"}
          /\ owner \in Accounts \cup {NoAccount} /\ c.new \in TokenIds \cup {NoToken}
      BY <3>1, <3>3 DEF Calls
    <3>6. row[s] \in Calls
      <4>1. b \in BOOLEAN
        BY <3>3
      <4>2. [kind |-> kind, stage |-> "sent", account |-> owner,
             good |-> TRUE, again |-> b, new |-> c.new] \in Calls
        BY <3>5, <4>1 DEF Calls
      <4> QED
        BY <3>4, <4>2
    <3>7. row[s].stage = "sent" /\ row[s].kind = kind
      BY <3>4
    <3> QED
      BY <3>1, <3>3, <3>6, <3>7
  <2>3. CASE s \notin Waiting(tab)
    BY <2>1, <2>3 DEF Waiting, Awaits
  <2> QED
    BY <2>2, <2>3
<1>2. DOMAIN row = Slots /\ row = [s \in Slots |-> row[s]]
  OBVIOUS
<1> QED
  BY <1>1, <1>2 DEF GoesOn

LEMMA FailedRow ==
    ASSUME TypeOK, NEW tab \in Tabs, NEW row,
           row = [s \in Slots |-> IF s \in Waiting(tab)
                                  THEN [calls[tab][s] EXCEPT !.stage = "failed"]
                                  ELSE calls[tab][s]]
    PROVE  /\ row \in [Slots -> Calls \cup {Idle}]
           /\ GoesOn(tab, row)
<1>1. ASSUME NEW s \in Slots
      PROVE  /\ row[s] \in Calls \cup {Idle}
             /\ row[s] # Idle =>
                   /\ row[s].stage # "waiting"
                   /\ calls[tab][s] # Idle
                   /\ row[s].kind = calls[tab][s].kind
  <2>1. calls[tab][s] \in Calls \cup {Idle}
    BY DEF TypeOK
  <2>2. CASE s \in Waiting(tab)
    <3>1. calls[tab][s] # Idle /\ calls[tab][s] \in Calls
      BY <2>1, <2>2 DEF Waiting, Awaits
    <3>2. row[s] = [calls[tab][s] EXCEPT !.stage = "failed"]
      BY <2>2
    <3> QED
      BY <3>1, <3>2 DEF Calls
  <2>3. CASE s \notin Waiting(tab)
    BY <2>1, <2>3 DEF Waiting, Awaits
  <2> QED
    BY <2>2, <2>3
<1>2. DOMAIN row = Slots /\ row = [s \in Slots |-> row[s]]
  OBVIOUS
<1> QED
  BY <1>1, <1>2 DEF GoesOn

LEMMA RefreshAnsweredKeeps ==
    ASSUME BrowserAssumption, BrowserInv, NEW tab \in Tabs, RefreshAnswered(tab)
    PROVE  BrowserInv'
<1>0. PICK r, row : /\ r = refresh[tab]
                    /\ row = [s \in Slots |-> IF s \in Waiting(tab)
                                              THEN Resent(tab, r.account, s)
                                              ELSE calls[tab][s]]
  OBVIOUS
<1>1. TypeOK /\ r \in Refreshes /\ r.stage = "issued" /\ Busy(tab)
  BY <1>0 DEF BrowserInv, TypeOK, RefreshAnswered, Busy
<1>2. /\ UNCHANGED <<tokens, shown, blame, out>>
      /\ SetSession(tab, r.account, r.new)
      /\ refresh' = [refresh EXCEPT ![tab] = Quiet]
      /\ calls' = [calls EXCEPT ![tab] = row]
  BY <1>0 DEF RefreshAnswered
<1>3. /\ refresh' \in [Tabs -> Refreshes]
      /\ refresh'[tab] = Quiet /\ \A o \in Tabs \ {tab} : refresh'[o] = refresh[o]
  BY <1>1, <1>2, QuietType, OneRefreshMoves
<1>4. /\ r.account \in Accounts \cup {NoAccount} /\ r.new \in TokenIds \cup {NoToken}
  BY <1>1 DEF Refreshes
<1>5. /\ row \in [Slots -> Calls \cup {Idle}]
      /\ GoesOn(tab, row)
  BY <1>0, <1>1, <1>4, ResentRow
<1>6. /\ calls' \in [Tabs -> [Slots -> Calls \cup {Idle}]]
      /\ \A o \in Tabs : Waiting(o)' # {} => Busy(o)'
      /\ WidgetsOnlyGet'
      /\ \A o \in Tabs : SigningOut(o)' => SigningOut(o)
  BY <1>1, <1>2, <1>3, <1>5, CallsMove DEF BrowserInv
<1>7. /\ storage' \in TokenIds \cup {NoToken}
      /\ access' \in [Tabs -> Accounts \cup {NoAccount}]
      /\ valid' \in [Tabs -> BOOLEAN]
  BY <1>1, <1>2, <1>4, SessionSet
<1>8. TypeOK'
  BY <1>1, <1>2, <1>3, <1>6, <1>7 DEF TypeOK
<1>9. Calm'
  BY <1>1, <1>2 DEF BrowserInv, Calm
<1>10. Unspoilt'
  <2> SUFFICES ASSUME blame = {} PROVE Unspoilt'
    BY <1>2 DEF Unspoilt
  <2>1. Trades(tab)
    BY <1>1 DEF BrowserInv, Unspoilt
  <2>2. Live(r.new) /\ \A o \in Tabs \ {tab} : ~Busy(o)
    BY <1>0, <1>1, <2>1 DEF Trades, Alone
  <2>3. Live(storage)'
    BY <1>2, <2>2 DEF SetSession, Live
  <2>4. \A o \in Tabs : ~Busy(o)'
    BY <1>3, <2>2 DEF Busy, Quiet
  <2>5. \A o \in Tabs : ~SigningOut(o)'
    BY <1>6 DEF BrowserInv, Unspoilt
  <2> QED
    BY <2>3, <2>4, <2>5 DEF Unspoilt
<1> QED
  BY <1>6, <1>8, <1>9, <1>10 DEF BrowserInv

\* A refusal gives the session up: something had befallen it, for no token
\* that is good is refused.
LEMMA RefreshRefusedKeeps ==
    ASSUME BrowserAssumption, BrowserInv, NEW tab \in Tabs, RefreshRefused(tab)
    PROVE  BrowserInv'
<1>0. PICK row : row = [s \in Slots |-> IF s \in Waiting(tab)
                                        THEN [calls[tab][s] EXCEPT !.stage = "failed"]
                                        ELSE calls[tab][s]]
  OBVIOUS
<1>1. TypeOK /\ refresh[tab].stage = "refused" /\ Busy(tab)
  BY DEF BrowserInv, RefreshRefused, Busy
<1>2. /\ UNCHANGED <<tokens, shown, blame, out>>
      /\ SetSession(tab, NoAccount, NoToken)
      /\ refresh' = [refresh EXCEPT ![tab] = Quiet]
      /\ calls' = [calls EXCEPT ![tab] = row]
  BY <1>0 DEF RefreshRefused
<1>3. /\ refresh' \in [Tabs -> Refreshes]
      /\ refresh'[tab] = Quiet /\ \A o \in Tabs \ {tab} : refresh'[o] = refresh[o]
  BY <1>1, <1>2, QuietType, OneRefreshMoves
<1>4. /\ row \in [Slots -> Calls \cup {Idle}]
      /\ GoesOn(tab, row)
  BY <1>0, <1>1, FailedRow
<1>5. /\ calls' \in [Tabs -> [Slots -> Calls \cup {Idle}]]
      /\ \A o \in Tabs : Waiting(o)' # {} => Busy(o)'
      /\ WidgetsOnlyGet'
  BY <1>1, <1>2, <1>3, <1>4, CallsMove DEF BrowserInv
<1>6. /\ storage' \in TokenIds \cup {NoToken}
      /\ access' \in [Tabs -> Accounts \cup {NoAccount}]
      /\ valid' \in [Tabs -> BOOLEAN]
  BY <1>1, <1>2, SessionSet
<1>7. TypeOK'
  BY <1>1, <1>2, <1>3, <1>5, <1>6 DEF TypeOK
<1>8. Calm'
  BY <1>1, <1>2 DEF BrowserInv, Calm
<1>9. Unspoilt'
  <2>1. blame # {}
    BY <1>1 DEF BrowserInv, Unspoilt, Trades
  <2> QED
    BY <1>2, <2>1 DEF Unspoilt
<1> QED
  BY <1>5, <1>7, <1>8, <1>9 DEF BrowserInv

LEMMA RefreshLostKeeps ==
    ASSUME BrowserAssumption, BrowserInv, NEW tab \in Tabs, RefreshLost(tab)
    PROVE  BrowserInv'
<1>0. PICK row : row = [s \in Slots |-> IF s \in Waiting(tab)
                                        THEN [calls[tab][s] EXCEPT !.stage = "failed"]
                                        ELSE calls[tab][s]]
  OBVIOUS
<1>1. TypeOK /\ Busy(tab)
  BY DEF BrowserInv, RefreshLost
<1>2. /\ UNCHANGED <<tokens, storage, access, valid, shown, out>>
      /\ blame' = blame \cup (IF Unheard(tab) THEN {"lost"} ELSE {})
      /\ refresh' = [refresh EXCEPT ![tab] = Quiet]
      /\ calls' = [calls EXCEPT ![tab] = row]
  BY <1>0 DEF RefreshLost, KeepSession, Befall
<1>3. /\ refresh' \in [Tabs -> Refreshes]
      /\ refresh'[tab] = Quiet /\ \A o \in Tabs \ {tab} : refresh'[o] = refresh[o]
  BY <1>1, <1>2, QuietType, OneRefreshMoves
<1>4. /\ row \in [Slots -> Calls \cup {Idle}]
      /\ GoesOn(tab, row)
  BY <1>0, <1>1, FailedRow
<1>5. /\ calls' \in [Tabs -> [Slots -> Calls \cup {Idle}]]
      /\ \A o \in Tabs : Waiting(o)' # {} => Busy(o)'
      /\ WidgetsOnlyGet'
      /\ \A o \in Tabs : SigningOut(o)' => SigningOut(o)
  BY <1>1, <1>2, <1>3, <1>4, CallsMove DEF BrowserInv
<1>6. TypeOK'
  BY <1>1, <1>2, <1>3, <1>5 DEF TypeOK
<1>7. Calm'
  BY <1>1, <1>2 DEF BrowserInv, Calm
<1>8. Unspoilt'
  <2> SUFFICES ASSUME blame' = {} PROVE Unspoilt'
    BY DEF Unspoilt
  <2>1. blame = {} /\ ~Unheard(tab)
    BY <1>2
  <2>2. Trades(tab)
    BY <1>1, <2>1 DEF BrowserInv, Unspoilt
  <2>3. Live(storage) /\ \A o \in Tabs \ {tab} : ~Busy(o)
    BY <2>1, <2>2 DEF Trades, Alone, Unheard
  <2>4. Live(storage)' /\ \A o \in Tabs : ~Busy(o)'
    BY <1>2, <1>3, <2>3 DEF Live, Busy, Quiet
  <2>5. \A o \in Tabs : ~SigningOut(o)'
    BY <1>5, <2>1 DEF BrowserInv, Unspoilt
  <2> QED
    BY <2>4, <2>5 DEF Unspoilt
<1> QED
  BY <1>5, <1>6, <1>7, <1>8 DEF BrowserInv
-----------------------------------------------------------------------------
(* The calls *)

\* A page load presents the stored token, if there is one; what was under way
\* in the tab is lost, which spoils the session if the server had acted on it.
LEMMA LoadKeeps ==
    ASSUME BrowserAssumption, BrowserInv, NEW tab \in Tabs, Load(tab) PROVE BrowserInv'
<1>0. PICK boot, row :
         /\ boot = [kind |-> "boot", stage |-> "waiting", account |-> NoAccount,
                    good |-> FALSE, again |-> FALSE, new |-> NoToken]
         /\ row = [s \in Slots |-> IF s = "main" /\ storage # NoToken THEN boot ELSE Idle]
  OBVIOUS
<1>1. /\ TypeOK /\ storage \in TokenIds \cup {NoToken}
      /\ calls \in [Tabs -> [Slots -> Calls \cup {Idle}]]
  BY DEF BrowserInv, TypeOK
<1>2. /\ UNCHANGED <<tokens, storage, out>>
      /\ access' = [access EXCEPT ![tab] = NoAccount]
      /\ valid' = [valid EXCEPT ![tab] = FALSE]
      /\ shown' = [shown EXCEPT ![tab] = NoAccount]
      /\ calls' = [calls EXCEPT ![tab] = row]
  BY <1>0 DEF Load
<1>3. PICK new \in Refreshes :
         /\ refresh' = [refresh EXCEPT ![tab] = new]
         /\ storage = NoToken => new.stage = "none"
         /\ storage # NoToken => new.stage = "sent" /\ new.token = storage
  <2>1. Quiet \in Refreshes /\ Presented \in Refreshes
    BY <1>1, QuietType
  <2>2. /\ Presented.stage = "sent" /\ Presented.token = storage
        /\ Quiet.stage = "none"
    BY DEF Presented, Quiet
  <2> QED
    BY <2>1, <2>2 DEF Load
<1>4. /\ refresh' \in [Tabs -> Refreshes]
      /\ refresh'[tab] = new /\ \A o \in Tabs \ {tab} : refresh'[o] = refresh[o]
  BY <1>1, <1>3, OneRefreshMoves
<1>5. boot \in Calls /\ boot # Idle /\ boot.kind = "boot"
  BY <1>0 DEF Calls, Idle
<1>6. /\ row \in [Slots -> Calls \cup {Idle}]
      /\ row["main"] # Idle => storage # NoToken /\ row["main"].kind = "boot"
      /\ \A s \in Slots : s # "main" \/ storage = NoToken => row[s] = Idle
  BY <1>0, <1>5 DEF Slots
<1>7. /\ calls' \in [Tabs -> [Slots -> Calls \cup {Idle}]]
      /\ calls'[tab] = row /\ \A o \in Tabs \ {tab} : calls'[o] = calls[o]
  BY <1>1, <1>2, <1>6
<1>8. ASSUME NEW o \in Tabs PROVE Waiting(o)' # {} => Busy(o)'
  <2>1. CASE o = tab
    <3>1. storage = NoToken => Waiting(tab)' = {}
      BY <1>6, <1>7 DEF Waiting, Awaits
    <3>2. storage # NoToken => Busy(tab)'
      BY <1>3, <1>4 DEF Busy
    <3> QED
      BY <2>1, <3>1, <3>2
  <2>2. CASE o # tab
    BY <1>1, <1>4, <1>7, <2>2 DEF TypeOK, Waiting, Awaits, Busy
  <2> QED
    BY <2>1, <2>2
<1>9. WidgetsOnlyGet'
  <2>1. \A w \in Widgets : w \in Slots /\ w # "main"
    BY BrowserAssumption DEF BrowserAssumption, Slots
  <2>2. ASSUME NEW o \in Tabs, NEW w \in Widgets
        PROVE  calls'[o][w] # Idle => calls'[o][w].kind = "get"
    BY <1>6, <1>7, <2>1 DEF BrowserInv, WidgetsOnlyGet
  <2> QED
    BY <2>2 DEF WidgetsOnlyGet
<1>10. blame' = blame \cup (IF Unheard(tab) THEN {"lost"} ELSE {})
                      \cup (IF storage # NoToken /\ Raced(tab) THEN {"raced"} ELSE {})
  BY DEF Load, Befall
<1>11. TypeOK'
  <2>1. blame' \subseteq {"left", "lost", "raced", "withdrawn"}
    BY <1>1, <1>10 DEF TypeOK
  <2> QED
    BY <1>1, <1>2, <1>4, <1>7, <1>8, <2>1 DEF TypeOK
<1>12. Calm'
  <2>1. storage = NoToken /\ (\A o \in Tabs : ~Busy(o)) => \A o \in Tabs : ~Busy(o)'
    BY <1>3, <1>4 DEF Busy
  <2> QED
    BY <1>2, <2>1 DEF BrowserInv, Calm
<1>13. Unspoilt'
  <2> SUFFICES ASSUME blame' = {} PROVE Unspoilt'
    BY DEF Unspoilt
  <2>1. blame = {} /\ ~Unheard(tab) /\ (storage # NoToken => ~Raced(tab))
    BY <1>10
  <2>2. \A o \in Tabs : ~SigningOut(o) /\ (Busy(o) => Trades(o))
    BY <2>1 DEF BrowserInv, Unspoilt
  <2>3. \A o \in Tabs : ~SigningOut(o)'
    BY <1>6, <1>7, <2>2 DEF SigningOut
  <2>4. CASE storage # NoToken
    <3>1. \A o \in Tabs \ {tab} : ~Busy(o)
      BY <2>1, <2>2, <2>4 DEF Raced, Trades
    <3>2. Live(storage)
      BY <2>1, <2>2, <3>1 DEF BrowserInv, Unspoilt, Trades, Unheard
    <3>3. \A o \in Tabs \ {tab} : ~Busy(o)'
      BY <1>4, <3>1 DEF Busy
    <3>4. Trades(tab)' /\ Busy(tab)'
      BY <1>2, <1>3, <1>4, <2>4, <3>2, <3>3 DEF Trades, Alone, Live, Busy
    <3> QED
      BY <2>3, <3>3, <3>4 DEF Unspoilt
  <2>5. CASE storage = NoToken
    <3>1. ~Live(storage)
      BY <2>5 DEF Live
    <3>2. PICK o \in Tabs \ {tab} : Busy(o) /\ Trades(o)
      BY <2>1, <2>2, <3>1 DEF BrowserInv, Unspoilt, Trades, Unheard
    <3>3. ~Busy(tab)'
      BY <1>3, <1>4, <2>5 DEF Busy
    <3>4. Busy(o)' /\ Trades(o)'
      BY <1>2, <1>4, <3>2, <3>3 DEF Trades, Alone, Live, Busy
    <3>5. \A z \in Tabs \ {o} : ~Busy(z)'
      BY <3>4 DEF Trades, Alone
    <3> QED
      BY <2>3, <3>2, <3>4, <3>5 DEF Unspoilt
  <2> QED
    BY <2>4, <2>5
<1> QED
  BY <1>9, <1>11, <1>12, <1>13 DEF BrowserInv

\* A call as a tab sends it.
LEMMA CallSent ==
    ASSUME TypeOK, NEW tab \in Tabs, NEW again \in BOOLEAN,
           NEW kind \in {"get", "boot", "me", "login", "logout"}
    PROVE  /\ Call(tab, kind, again) \in Calls
           /\ Call(tab, kind, again).kind = kind
           /\ Call(tab, kind, again).stage = "sent"
<1>1. access[tab] \in Accounts \cup {NoAccount} /\ valid[tab] \in BOOLEAN
  BY DEF TypeOK
<1> QED
  BY <1>1 DEF Call, Calls

LEMMA GetKeeps ==
    ASSUME BrowserAssumption, BrowserInv, NEW tab \in Tabs, NEW w \in Widgets, Get(tab, w)
    PROVE  BrowserInv'
<1>1. PICK call : call = Call(tab, "get", TRUE)
  OBVIOUS
<1>2. TypeOK /\ call \in Calls /\ call.kind = "get" /\ call.stage = "sent"
  BY <1>1, CallSent DEF BrowserInv
<1>3. /\ SetCall(tab, w, call)
      /\ UNCHANGED <<storage, access, valid, tokens, shown, refresh, blame, out>>
  BY <1>1 DEF Get, KeepSession
<1>4. w \in Slots
  BY DEF Slots
<1>5. /\ calls' \in [Tabs -> [Slots -> Calls \cup {Idle}]]
      /\ \A o \in Tabs : Waiting(o)' # {} => Busy(o)'
      /\ WidgetsOnlyGet'
      /\ \A o \in Tabs : SigningOut(o)' => SigningOut(o)
  BY <1>2, <1>3, <1>4, OneCallMoves DEF BrowserInv
<1>6. TypeOK'
  BY <1>2, <1>3, <1>5 DEF TypeOK
<1>7. Unspoilt' /\ Calm'
  BY <1>3, <1>5, UnspoiltStays, CalmStays DEF BrowserInv, Live
<1> QED
  BY <1>5, <1>6, <1>7 DEF BrowserInv

LEMMA SignInKeeps ==
    ASSUME BrowserAssumption, BrowserInv, NEW tab \in Tabs, NEW a \in Accounts, SignIn(tab, a)
    PROVE  BrowserInv'
<1>1. PICK sent, call : sent = Call(tab, "login", TRUE) /\ call = [sent EXCEPT !.account = a]
  OBVIOUS
<1>2. TypeOK /\ sent \in Calls /\ sent.kind = "login" /\ sent.stage = "sent"
  BY <1>1, CallSent DEF BrowserInv
<1>3. call \in Calls /\ call.kind = "login" /\ call.stage = "sent"
  BY <1>1, <1>2 DEF Calls
<1>4. /\ SetCall(tab, "main", call) /\ out' = "no"
      /\ UNCHANGED <<storage, access, valid, tokens, shown, refresh, blame>>
  BY <1>1 DEF SignIn, KeepSession
<1>5. "main" \in Slots /\ "main" \notin Widgets
  BY BrowserAssumption DEF Slots, BrowserAssumption
<1>6. /\ calls' \in [Tabs -> [Slots -> Calls \cup {Idle}]]
      /\ \A o \in Tabs : Waiting(o)' # {} => Busy(o)'
      /\ WidgetsOnlyGet'
      /\ \A o \in Tabs : SigningOut(o)' => SigningOut(o)
  BY <1>2, <1>3, <1>4, <1>5, OneCallMoves DEF BrowserInv
<1>7. TypeOK'
  BY <1>2, <1>4, <1>6 DEF TypeOK
<1>8. Unspoilt' /\ Calm'
  BY <1>4, <1>6, UnspoiltStays DEF BrowserInv, Live, Calm
<1> QED
  BY <1>6, <1>7, <1>8 DEF BrowserInv

LEMMA SignOutKeeps ==
    ASSUME BrowserAssumption, BrowserInv, NEW tab \in Tabs, SignOut(tab) PROVE BrowserInv'
<1>1. PICK call : call = Call(tab, "logout", TRUE)
  OBVIOUS
<1>2. TypeOK /\ call \in Calls /\ call.kind = "logout" /\ call.stage = "sent"
  BY <1>1, CallSent DEF BrowserInv
<1>3. /\ SetCall(tab, "main", call) /\ blame' = blame \cup {"left"}
      /\ UNCHANGED <<storage, access, valid, tokens, shown, refresh, out>>
  BY <1>1 DEF SignOut, KeepSession, Befall
<1>4. "main" \in Slots /\ "main" \notin Widgets
  BY BrowserAssumption DEF Slots, BrowserAssumption
<1>5. /\ calls' \in [Tabs -> [Slots -> Calls \cup {Idle}]]
      /\ \A o \in Tabs : Waiting(o)' # {} => Busy(o)'
      /\ WidgetsOnlyGet'
  BY <1>2, <1>3, <1>4, OneCallMoves DEF BrowserInv
<1>6. TypeOK'
  BY <1>2, <1>3, <1>5 DEF TypeOK
<1>7. Unspoilt' /\ Calm'
  BY <1>3, CalmStays DEF BrowserInv, Unspoilt
<1> QED
  BY <1>5, <1>6, <1>7 DEF BrowserInv
\* A call that was made goes on as the call it is.
LEMMA CallAdvances ==
    ASSUME BrowserInv, NEW tab \in Tabs, NEW s \in Slots, calls[tab][s] # Idle,
           NEW call \in Calls, call.kind = calls[tab][s].kind, call.stage # "waiting",
           SetCall(tab, s, call), UNCHANGED refresh
    PROVE  /\ calls' \in [Tabs -> [Slots -> Calls \cup {Idle}]]
           /\ \A o \in Tabs : Waiting(o)' # {} => Busy(o)'
           /\ WidgetsOnlyGet'
           /\ \A o \in Tabs : SigningOut(o)' => SigningOut(o)
<1>1. s \in Widgets => call.kind = "get"
  BY DEF BrowserInv, WidgetsOnlyGet
<1>2. /\ calls' \in [Tabs -> [Slots -> Calls \cup {Idle}]]
      /\ \A o \in Tabs : Waiting(o)' # {} => Busy(o)'
      /\ WidgetsOnlyGet'
      /\ \A o \in Tabs : SigningOut(o)' =>
            SigningOut(o) \/ (o = tab /\ s = "main" /\ call # Idle /\ call.kind = "logout")
  BY <1>1, OneCallMoves DEF BrowserInv
<1> QED
  BY <1>2 DEF SigningOut

\* A call that ends.
LEMMA CallEnds ==
    ASSUME BrowserInv, NEW tab \in Tabs, NEW s \in Slots, SetCall(tab, s, Idle),
           UNCHANGED refresh
    PROVE  /\ calls' \in [Tabs -> [Slots -> Calls \cup {Idle}]]
           /\ calls'[tab][s] = Idle
           /\ \A o \in Tabs \ {tab} : calls'[o] = calls[o]
           /\ \A o \in Tabs : Waiting(o)' # {} => Busy(o)'
           /\ WidgetsOnlyGet'
           /\ \A o \in Tabs : SigningOut(o)' => SigningOut(o)
<1>1. /\ calls' \in [Tabs -> [Slots -> Calls \cup {Idle}]]
      /\ \A o \in Tabs : Waiting(o)' # {} => Busy(o)'
      /\ WidgetsOnlyGet'
      /\ \A o \in Tabs : SigningOut(o)' => SigningOut(o)
  BY OneCallMoves DEF BrowserInv
<1>2. calls'[tab][s] = Idle /\ \A o \in Tabs \ {tab} : calls'[o] = calls[o]
  BY DEF BrowserInv, TypeOK, SetCall
<1> QED
  BY <1>1, <1>2

\* The server takes nobody's good token but that of who signs out, and issues
\* none that somebody holds.
LEMMA ServeKeeps ==
    ASSUME BrowserAssumption, BrowserInv, NEW tab \in Tabs, NEW s \in Slots, Serve(tab, s)
    PROVE  BrowserInv'
<1>0. PICK c : c = calls[tab][s]
  OBVIOUS
<1>1. /\ TypeOK /\ calls[tab][s] # Idle /\ c \in Calls
      /\ tokens \in [TokenIds -> Accounts \cup {NoAccount}]
  BY <1>0, CallType DEF BrowserInv, TypeOK, Serve, Awaits
<1>2. UNCHANGED <<storage, access, valid, shown, refresh, blame, out>>
  BY DEF Serve, KeepSession
<1>3. \E call \in Calls : /\ SetCall(tab, s, call)
                          /\ call.kind = c.kind /\ call.stage # "waiting"
  <2>1. \A t \in TokenIds :
           /\ [c EXCEPT !.stage = "ok", !.new = t] \in Calls
           /\ [c EXCEPT !.stage = "ok", !.new = t].kind = c.kind
           /\ [c EXCEPT !.stage = "ok", !.new = t].stage = "ok"
    BY <1>1 DEF Calls
  <2>2. /\ [c EXCEPT !.stage = "unauthorized"] \in Calls
        /\ [c EXCEPT !.stage = "unauthorized"].kind = c.kind
        /\ [c EXCEPT !.stage = "unauthorized"].stage = "unauthorized"
    BY <1>1 DEF Calls
  <2>3. /\ [c EXCEPT !.stage = "ok"] \in Calls
        /\ [c EXCEPT !.stage = "ok"].kind = c.kind
        /\ [c EXCEPT !.stage = "ok"].stage = "ok"
    BY <1>1 DEF Calls
  <2>4. \/ \E t \in TokenIds : SetCall(tab, s, [c EXCEPT !.stage = "ok", !.new = t])
        \/ SetCall(tab, s, [c EXCEPT !.stage = "unauthorized"])
        \/ SetCall(tab, s, [c EXCEPT !.stage = "ok"])
    BY <1>0 DEF Serve
  <2>5. ASSUME NEW t \in TokenIds, SetCall(tab, s, [c EXCEPT !.stage = "ok", !.new = t])
        PROVE  \E call \in Calls : /\ SetCall(tab, s, call)
                                   /\ call.kind = c.kind /\ call.stage # "waiting"
    BY <2>1, <2>5
  <2> QED
    BY <2>2, <2>3, <2>4, <2>5
<1>4. /\ calls' \in [Tabs -> [Slots -> Calls \cup {Idle}]]
      /\ \A o \in Tabs : Waiting(o)' # {} => Busy(o)'
      /\ WidgetsOnlyGet'
      /\ \A o \in Tabs : SigningOut(o)' => SigningOut(o)
  BY <1>0, <1>1, <1>2, <1>3, CallAdvances
<1>5. \/ \E t \in TokenIds : Fresh(t) /\ tokens' = [tokens EXCEPT ![t] = c.account]
      \/ UNCHANGED tokens
      \/ /\ c.kind = "logout"
         /\ tokens' = [t \in TokenIds |-> IF tokens[t] = c.account
                                          THEN NoAccount ELSE tokens[t]]
  BY <1>0 DEF Serve
<1>6. tokens' \in [TokenIds -> Accounts \cup {NoAccount}]
  <2>1. c.account \in Accounts \cup {NoAccount}
    BY <1>1 DEF Calls
  <2> QED
    BY <1>1, <1>5, <2>1
<1>7. TypeOK'
  BY <1>1, <1>2, <1>4, <1>6 DEF TypeOK
<1>8. ASSUME blame = {}
      PROVE  /\ Live(storage) => Live(storage)'
             /\ \A o \in Tabs : Live(refresh[o].new) => Live(refresh[o].new)'
  <2>1. c.kind # "logout"
    <3>1. s = "main" => c.kind # "logout"
      BY <1>0, <1>1, <1>8 DEF BrowserInv, Unspoilt, SigningOut
    <3>2. s \in Widgets => c.kind = "get"
      BY <1>0, <1>1 DEF BrowserInv, WidgetsOnlyGet
    <3> QED
      BY <3>1, <3>2 DEF Slots
  <2>2. CASE UNCHANGED tokens
    BY <1>2, <2>2 DEF Live
  <2>3. ASSUME NEW t \in TokenIds, Fresh(t), tokens' = [tokens EXCEPT ![t] = c.account]
        PROVE  \A u : u # t /\ Live(u) => Live(u)'
    BY <1>1, <2>3 DEF Live
  <2>4. ASSUME NEW t \in TokenIds, Fresh(t), tokens' = [tokens EXCEPT ![t] = c.account]
        PROVE  /\ Live(storage) => Live(storage)'
               /\ \A o \in Tabs : Live(refresh[o].new) => Live(refresh[o].new)'
    BY <1>2, <2>3, <2>4 DEF Fresh, Live
  <2> QED
    BY <1>5, <2>1, <2>2, <2>4
<1>9. Unspoilt' /\ Calm'
  BY <1>2, <1>4, <1>8, UnspoiltStays, CalmStays DEF BrowserInv
<1> QED
  BY <1>4, <1>7, <1>9 DEF BrowserInv

LEMMA CallLostKeeps ==
    ASSUME BrowserAssumption, BrowserInv, NEW tab \in Tabs, NEW s \in Slots, CallLost(tab, s)
    PROVE  BrowserInv'
<1>0. PICK c, call : c = calls[tab][s] /\ call = [c EXCEPT !.stage = "failed"]
  OBVIOUS
<1>1. TypeOK /\ calls[tab][s] # Idle /\ c \in Calls
  BY <1>0, CallType DEF BrowserInv, CallLost, Awaits
<1>2. call \in Calls /\ call.kind = c.kind /\ call.stage = "failed"
  BY <1>0, <1>1 DEF Calls
<1>3. /\ SetCall(tab, s, call)
      /\ UNCHANGED <<tokens, storage, access, valid, shown, refresh, blame, out>>
  BY <1>0 DEF CallLost, KeepSession
<1>4. /\ calls' \in [Tabs -> [Slots -> Calls \cup {Idle}]]
      /\ \A o \in Tabs : Waiting(o)' # {} => Busy(o)'
      /\ WidgetsOnlyGet'
      /\ \A o \in Tabs : SigningOut(o)' => SigningOut(o)
  BY <1>0, <1>1, <1>2, <1>3, CallAdvances
<1>5. TypeOK'
  BY <1>1, <1>3, <1>4 DEF TypeOK
<1>6. Unspoilt' /\ Calm'
  BY <1>3, <1>4, UnspoiltStays, CalmStays DEF BrowserInv, Live
<1> QED
  BY <1>4, <1>5, <1>6 DEF BrowserInv

LEMMA OverKeeps ==
    ASSUME BrowserAssumption, BrowserInv, NEW tab \in Tabs, NEW s \in Slots, Over(tab, s)
    PROVE  BrowserInv'
<1>1. /\ SetCall(tab, s, Idle)
      /\ UNCHANGED <<tokens, storage, access, valid, shown, refresh, blame, out>>
  BY DEF Over, Ended, KeepSession
<1>2. /\ calls' \in [Tabs -> [Slots -> Calls \cup {Idle}]]
      /\ \A o \in Tabs : Waiting(o)' # {} => Busy(o)'
      /\ WidgetsOnlyGet'
      /\ \A o \in Tabs : SigningOut(o)' => SigningOut(o)
  BY <1>1, CallEnds
<1>3. TypeOK'
  BY <1>1, <1>2 DEF BrowserInv, TypeOK
<1>4. Unspoilt' /\ Calm'
  BY <1>1, <1>2, UnspoiltStays, CalmStays DEF BrowserInv, Live
<1> QED
  BY <1>2, <1>3, <1>4 DEF BrowserInv
\* A refused call joins the refresh of its tab, or begins one.
LEMMA JoinKeeps ==
    ASSUME BrowserAssumption, BrowserInv, NEW tab \in Tabs, Join(tab), storage # NoToken,
           UNCHANGED <<storage, tokens, out>>, \A o \in Tabs : SigningOut(o)' => SigningOut(o)
    PROVE  /\ refresh' \in [Tabs -> Refreshes]
           /\ Busy(tab)' /\ \A o \in Tabs \ {tab} : refresh'[o] = refresh[o]
           /\ blame' \subseteq {"left", "lost", "raced", "withdrawn"}
           /\ Unspoilt' /\ Calm'
<1>2. Calm'
  BY DEF BrowserInv, Calm
<1>3. CASE Busy(tab)
  <2>1. UNCHANGED <<refresh, blame>>
    BY <1>3 DEF Join
  <2>2. Unspoilt'
    BY <2>1, UnspoiltStays DEF BrowserInv, Live
  <2> QED
    BY <1>2, <1>3, <2>1, <2>2 DEF BrowserInv, TypeOK, Busy
<1>4. CASE ~Busy(tab)
  <2>1. /\ refresh' = [refresh EXCEPT ![tab] = Presented]
        /\ blame' = blame \cup (IF Raced(tab) THEN {"raced"} ELSE {})
    BY <1>4 DEF Join, Befall
  <2>2. /\ refresh' \in [Tabs -> Refreshes] /\ refresh'[tab] = Presented
        /\ \A o \in Tabs \ {tab} : refresh'[o] = refresh[o]
    BY <2>1, QuietType, OneRefreshMoves DEF BrowserInv
  <2>3. Presented.stage = "sent" /\ Presented.token = storage
    BY DEF Presented, Quiet
  <2>4. Unspoilt'
    <3> SUFFICES ASSUME blame' = {} PROVE Unspoilt'
      BY DEF Unspoilt
    <3>1. blame = {} /\ ~Raced(tab)
      BY <2>1
    <3>2. \A o \in Tabs : ~SigningOut(o) /\ (Busy(o) => Trades(o))
      BY <3>1 DEF BrowserInv, Unspoilt
    <3>3. \A o \in Tabs \ {tab} : ~Busy(o)
      BY <3>1, <3>2 DEF Raced, Trades
    <3>4. Live(storage)
      BY <1>4, <3>1, <3>3 DEF BrowserInv, Unspoilt
    <3>5. \A o \in Tabs \ {tab} : ~Busy(o)'
      BY <2>2, <3>3 DEF Busy
    <3>6. Trades(tab)' /\ Busy(tab)'
      BY <2>2, <2>3, <3>4, <3>5 DEF Trades, Alone, Live, Busy
    <3> QED
      BY <3>2, <3>5, <3>6 DEF Unspoilt
  <2>5. Busy(tab)'
    BY <2>2, <2>3 DEF Busy
  <2> QED
    BY <1>2, <2>1, <2>2, <2>4, <2>5 DEF BrowserInv, TypeOK
<1> QED
  BY <1>3, <1>4

LEMMA UnauthorizedKeeps ==
    ASSUME BrowserAssumption, BrowserInv, NEW tab \in Tabs, NEW s \in Slots,
           Unauthorized(tab, s)
    PROVE  BrowserInv'
<1>0. PICK c, failed, waiting : /\ c = calls[tab][s]
                                /\ failed = [c EXCEPT !.stage = "failed"]
                                /\ waiting = [c EXCEPT !.stage = "waiting"]
  OBVIOUS
<1>1. TypeOK /\ calls[tab][s] # Idle /\ c \in Calls
  BY <1>0, CallType DEF BrowserInv, Unauthorized, Awaits
<1>2. /\ failed \in Calls /\ failed.kind = c.kind /\ failed.stage = "failed"
      /\ waiting \in Calls /\ waiting.kind = c.kind
  BY <1>0, <1>1 DEF Calls
<1>3. UNCHANGED <<tokens, storage, access, valid, shown, out>>
  BY DEF Unauthorized, KeepSession
<1>4. CASE c.again /\ storage # NoToken
  <2>1. Join(tab) /\ calls' = [calls EXCEPT ![tab][s] = waiting]
    BY <1>0, <1>4 DEF Unauthorized, SetCall
  <2>2. calls \in [Tabs -> [Slots -> Calls \cup {Idle}]]
    BY <1>1 DEF TypeOK
  <2>3. /\ calls' \in [Tabs -> [Slots -> Calls \cup {Idle}]]
        /\ calls'[tab][s] = waiting
        /\ \A o \in Tabs, z \in Slots : o # tab \/ z # s => calls'[o][z] = calls[o][z]
    BY <1>2, <2>1, <2>2
  <2>4. \A o \in Tabs, z \in Slots :
           calls'[o][z] # Idle => /\ calls[o][z] # Idle
                                  /\ calls'[o][z].kind = calls[o][z].kind
    BY <1>0, <1>1, <1>2, <2>3
  <2>5. /\ WidgetsOnlyGet'
        /\ \A o \in Tabs : SigningOut(o)' => SigningOut(o)
    BY <2>4, SameKinds DEF BrowserInv
  <2>6. /\ refresh' \in [Tabs -> Refreshes]
        /\ Busy(tab)' /\ \A o \in Tabs \ {tab} : refresh'[o] = refresh[o]
        /\ blame' \subseteq {"left", "lost", "raced", "withdrawn"}
        /\ Unspoilt' /\ Calm'
    BY <1>3, <1>4, <2>1, <2>5, JoinKeeps
  <2>7. ASSUME NEW o \in Tabs \ {tab} PROVE Waiting(o)' # {} => Busy(o)'
    <3>1. Waiting(o)' = Waiting(o)
      BY <2>3 DEF Waiting, Awaits
    <3> QED
      BY <1>1, <2>6, <3>1 DEF TypeOK, Busy
  <2>8. TypeOK'
    BY <1>1, <1>3, <2>3, <2>6, <2>7 DEF TypeOK
  <2> QED
    BY <2>5, <2>6, <2>8 DEF BrowserInv
<1>5. CASE ~(c.again /\ storage # NoToken)
  <2>1. SetCall(tab, s, failed) /\ UNCHANGED <<refresh, blame>>
    BY <1>0, <1>5 DEF Unauthorized
  <2>2. /\ calls' \in [Tabs -> [Slots -> Calls \cup {Idle}]]
        /\ \A o \in Tabs : Waiting(o)' # {} => Busy(o)'
        /\ WidgetsOnlyGet'
        /\ \A o \in Tabs : SigningOut(o)' => SigningOut(o)
    BY <1>0, <1>1, <1>2, <2>1, CallAdvances
  <2>3. TypeOK'
    BY <1>1, <1>3, <2>1, <2>2 DEF TypeOK
  <2>4. Unspoilt' /\ Calm'
    BY <1>3, <2>1, <2>2, UnspoiltStays, CalmStays DEF BrowserInv, Live
  <2> QED
    BY <2>2, <2>3, <2>4 DEF BrowserInv
<1> QED
  BY <1>4, <1>5

\* A sign-in that nothing disturbs begins a session that nothing has befallen.
LEMMA SignedInKeeps ==
    ASSUME BrowserAssumption, BrowserInv, NEW tab \in Tabs, SignedIn(tab)
    PROVE  BrowserInv'
<1>0. PICK c : c = calls[tab]["main"]
  OBVIOUS
<1>1. "main" \in Slots
  BY DEF Slots
<1>2. /\ TypeOK /\ c \in Calls
      /\ c.account \in Accounts \cup {NoAccount} /\ c.new \in TokenIds \cup {NoToken}
  BY <1>0, <1>1, CallType DEF BrowserInv, SignedIn, Calls
<1>3. /\ SetCall(tab, "main", Idle) /\ UNCHANGED <<tokens, refresh>> /\ out' = "no"
      /\ SetSession(tab, c.account, c.new)
      /\ shown' = [shown EXCEPT ![tab] = c.account]
      /\ blame' = IF Undisturbed(tab) /\ Live(c.new) THEN {} ELSE {"raced"}
  BY <1>0 DEF SignedIn, Ended
<1>4. /\ calls' \in [Tabs -> [Slots -> Calls \cup {Idle}]]
      /\ calls'[tab]["main"] = Idle
      /\ \A o \in Tabs \ {tab} : calls'[o] = calls[o]
      /\ \A o \in Tabs : Waiting(o)' # {} => Busy(o)'
      /\ WidgetsOnlyGet'
  BY <1>1, <1>3, CallEnds
<1>5. /\ storage' \in TokenIds \cup {NoToken}
      /\ access' \in [Tabs -> Accounts \cup {NoAccount}]
      /\ valid' \in [Tabs -> BOOLEAN]
  BY <1>2, <1>3, SessionSet
<1>6. TypeOK'
  <2>1. shown' \in [Tabs -> Accounts \cup {NoAccount}] /\ blame' \subseteq {"left", "lost", "raced", "withdrawn"}
    BY <1>2, <1>3 DEF TypeOK
  <2> QED
    BY <1>2, <1>3, <1>4, <1>5, <2>1 DEF TypeOK
<1>7. Calm'
  BY <1>3 DEF Calm
<1>8. Unspoilt'
  <2> SUFFICES ASSUME blame' = {} PROVE Unspoilt'
    BY DEF Unspoilt
  <2>1. Undisturbed(tab) /\ Live(c.new)
    BY <1>3
  <2>2. \A o \in Tabs : ~Busy(o)' /\ ~SigningOut(o)'
    BY <1>3, <1>4, <2>1 DEF Undisturbed, Busy, SigningOut
  <2>3. Live(storage)'
    BY <1>3, <2>1 DEF SetSession, Live
  <2> QED
    BY <2>2, <2>3 DEF Unspoilt
<1> QED
  BY <1>4, <1>6, <1>7, <1>8 DEF BrowserInv

LEMMA RecognisedKeeps ==
    ASSUME BrowserAssumption, BrowserInv, NEW tab \in Tabs, Recognised(tab)
    PROVE  BrowserInv'
<1>1. "main" \in Slots
  BY DEF Slots
<1>2. calls[tab]["main"].account \in Accounts \cup {NoAccount} /\ TypeOK
  BY <1>1, CallType DEF BrowserInv, Recognised, Calls
<1>3. /\ SetCall(tab, "main", Idle)
      /\ shown' = [shown EXCEPT ![tab] = calls[tab]["main"].account]
      /\ UNCHANGED <<tokens, storage, access, valid, refresh, blame, out>>
  BY DEF Recognised, Ended, KeepSession
<1>4. /\ calls' \in [Tabs -> [Slots -> Calls \cup {Idle}]]
      /\ \A o \in Tabs : Waiting(o)' # {} => Busy(o)'
      /\ WidgetsOnlyGet'
      /\ \A o \in Tabs : SigningOut(o)' => SigningOut(o)
  BY <1>1, <1>3, CallEnds
<1>5. TypeOK'
  <2>1. shown' \in [Tabs -> Accounts \cup {NoAccount}]
    BY <1>2, <1>3 DEF TypeOK
  <2> QED
    BY <1>2, <1>3, <1>4, <2>1 DEF TypeOK
<1>6. Unspoilt' /\ Calm'
  BY <1>3, <1>4, UnspoiltStays, CalmStays DEF BrowserInv, Live
<1> QED
  BY <1>4, <1>5, <1>6 DEF BrowserInv

LEMMA UnrecognisedKeeps ==
    ASSUME BrowserAssumption, BrowserInv, NEW tab \in Tabs, Unrecognised(tab)
    PROVE  BrowserInv'
<1>1. "main" \in Slots /\ TypeOK
  BY DEF Slots, BrowserInv
<1>2. /\ SetCall(tab, "main", Idle) /\ SetSession(tab, NoAccount, NoToken)
      /\ blame' = blame \cup {"lost"}
      /\ UNCHANGED <<tokens, refresh, shown, out>>
  BY DEF Unrecognised, Ended, Befall
<1>3. /\ calls' \in [Tabs -> [Slots -> Calls \cup {Idle}]]
      /\ \A o \in Tabs : Waiting(o)' # {} => Busy(o)'
      /\ WidgetsOnlyGet'
  BY <1>1, <1>2, CallEnds
<1>4. /\ storage' = NoToken /\ storage' \in TokenIds \cup {NoToken}
      /\ access' \in [Tabs -> Accounts \cup {NoAccount}]
      /\ valid' \in [Tabs -> BOOLEAN]
  BY <1>1, <1>2, SessionSet DEF SetSession
<1>5. TypeOK'
  <2>1. blame' \subseteq {"left", "lost", "raced", "withdrawn"}
    BY <1>1, <1>2 DEF TypeOK
  <2> QED
    BY <1>1, <1>2, <1>3, <1>4, <2>1 DEF TypeOK
<1>6. Unspoilt' /\ Calm'
  BY <1>2, <1>4 DEF BrowserInv, Unspoilt, Calm, Busy
<1> QED
  BY <1>3, <1>5, <1>6 DEF BrowserInv

\* Signing out empties the store; it is calm if no refresh is on its way.
LEMMA SignedOutKeeps ==
    ASSUME BrowserAssumption, BrowserInv, NEW tab \in Tabs, SignedOut(tab)
    PROVE  BrowserInv'
<1>1. "main" \in Slots /\ TypeOK /\ SigningOut(tab)
  BY DEF Slots, BrowserInv, SignedOut, SigningOut
<1>2. /\ SetCall(tab, "main", Idle) /\ SetSession(tab, NoAccount, NoToken)
      /\ shown' = [shown EXCEPT ![tab] = NoAccount]
      /\ out' = IF Undisturbed(tab) THEN "calm" ELSE "hasty"
      /\ UNCHANGED <<tokens, refresh, blame>>
  BY DEF SignedOut, Ended
<1>3. /\ calls' \in [Tabs -> [Slots -> Calls \cup {Idle}]]
      /\ \A o \in Tabs : Waiting(o)' # {} => Busy(o)'
      /\ WidgetsOnlyGet'
  BY <1>1, <1>2, CallEnds
<1>4. /\ storage' = NoToken /\ storage' \in TokenIds \cup {NoToken}
      /\ access' \in [Tabs -> Accounts \cup {NoAccount}]
      /\ valid' \in [Tabs -> BOOLEAN]
  BY <1>1, <1>2, SessionSet DEF SetSession
<1>5. TypeOK'
  <2>1. shown' \in [Tabs -> Accounts \cup {NoAccount}] /\ out' \in {"no", "calm", "hasty"}
    BY <1>1, <1>2 DEF TypeOK
  <2> QED
    BY <1>1, <1>2, <1>3, <1>4, <2>1 DEF TypeOK
<1>6. Calm'
  BY <1>2, <1>4 DEF Undisturbed, Calm, Busy
<1>7. Unspoilt'
  BY <1>1, <1>2 DEF BrowserInv, Unspoilt
<1> QED
  BY <1>3, <1>5, <1>6, <1>7 DEF BrowserInv

LEMMA ExpireKeeps ==
    ASSUME BrowserAssumption, BrowserInv, NEW tab \in Tabs, Expire(tab) PROVE BrowserInv'
<1>0. PICK row : row = [s \in Slots |-> IF Awaits(tab, s, "sent")
                                        THEN [calls[tab][s] EXCEPT !.good = FALSE]
                                        ELSE calls[tab][s]]
  OBVIOUS
<1>1. /\ TypeOK /\ calls' = [calls EXCEPT ![tab] = row] /\ valid' = [valid EXCEPT ![tab] = FALSE]
      /\ UNCHANGED <<tokens, storage, access, shown, refresh, blame, out>>
  BY <1>0 DEF BrowserInv, Expire
<1>2. ASSUME NEW s \in Slots
      PROVE  /\ row[s] \in Calls \cup {Idle}
             /\ row[s] = Idle <=> calls[tab][s] = Idle
             /\ row[s] # Idle => /\ row[s].kind = calls[tab][s].kind
                                 /\ row[s].stage = calls[tab][s].stage
  <2>1. calls[tab][s] \in Calls \cup {Idle}
    BY <1>1 DEF TypeOK
  <2>2. CASE Awaits(tab, s, "sent")
    <3>1. calls[tab][s] # Idle /\ calls[tab][s] \in Calls
      BY <2>1, <2>2 DEF Awaits
    <3>2. row[s] = [calls[tab][s] EXCEPT !.good = FALSE]
      BY <1>0, <2>2
    <3>3. row[s] \in Calls /\ row[s].kind = calls[tab][s].kind
          /\ row[s].stage = calls[tab][s].stage
      BY <3>1, <3>2 DEF Calls
    <3>4. row[s] # Idle
      BY <3>3 DEF Calls, Idle
    <3> QED
      BY <3>1, <3>3, <3>4
  <2>3. CASE ~Awaits(tab, s, "sent")
    BY <1>0, <2>1, <2>3
  <2> QED
    BY <2>2, <2>3
<1>3. row \in [Slots -> Calls \cup {Idle}]
  BY <1>0, <1>2
<1>4. /\ calls' \in [Tabs -> [Slots -> Calls \cup {Idle}]]
      /\ calls'[tab] = row /\ \A o \in Tabs \ {tab} : calls'[o] = calls[o]
  BY <1>1, <1>3 DEF TypeOK
<1>5. \A o \in Tabs : Waiting(o)' = Waiting(o)
  BY <1>2, <1>4 DEF Waiting, Awaits
<1>6. /\ WidgetsOnlyGet'
      /\ \A o \in Tabs : SigningOut(o)' => SigningOut(o)
  <2>1. ASSUME NEW o \in Tabs, NEW z \in Slots, calls'[o][z] # Idle
        PROVE  calls[o][z] # Idle /\ calls'[o][z].kind = calls[o][z].kind
    BY <1>2, <1>4, <2>1
  <2> QED
    BY <2>1, SameKinds DEF BrowserInv
<1>7. TypeOK'
  BY <1>1, <1>4, <1>5 DEF TypeOK, Busy
<1>8. Unspoilt' /\ Calm'
  BY <1>1, <1>6, UnspoiltStays, CalmStays DEF BrowserInv, Live
<1> QED
  BY <1>6, <1>7, <1>8 DEF BrowserInv

\* Tokens that end spoil the session if its own is one of them.
LEMMA WithdrawKeeps ==
    ASSUME BrowserInv, NEW ended, Withdraw(ended) PROVE BrowserInv'
<1>1. /\ TypeOK /\ UNCHANGED <<storage, access, valid, shown, refresh, calls, out>>
      /\ tokens' = [t \in TokenIds |-> IF t \in ended THEN NoAccount ELSE tokens[t]]
  BY DEF BrowserInv, Withdraw, KeepSession
<1>2. blame' = blame \cup (IF \/ storage \in ended
                              \/ \E tab \in Tabs : refresh[tab].new \in ended
                           THEN {"withdrawn"} ELSE {})
  BY DEF Withdraw, Befall
<1>3. TypeOK'
  <2>1. tokens' \in [TokenIds -> Accounts \cup {NoAccount}]
    BY <1>1 DEF TypeOK
  <2>2. blame' \subseteq {"left", "lost", "raced", "withdrawn"}
    BY <1>1, <1>2 DEF TypeOK
  <2> QED
    BY <1>1, <2>1, <2>2 DEF TypeOK, Waiting, Awaits, Busy
<1>4. WidgetsOnlyGet' /\ Calm'
  BY <1>1 DEF BrowserInv, WidgetsOnlyGet, Calm, Busy
<1>5. Unspoilt'
  <2> SUFFICES ASSUME blame' = {} PROVE Unspoilt'
    BY DEF Unspoilt
  <2>1. blame = {} /\ storage \notin ended /\ \A o \in Tabs : refresh[o].new \notin ended
    BY <1>2
  <2>2. \A t \in TokenIds \cup {NoToken} : t \notin ended /\ Live(t) => Live(t)'
    BY <1>1, BrowserAssumption DEF Live, BrowserAssumption
  <2>3. /\ storage \in TokenIds \cup {NoToken}
        /\ \A o \in Tabs : refresh[o].new \in TokenIds \cup {NoToken}
    BY <1>1 DEF TypeOK, Refreshes
  <2>4. /\ Live(storage) => Live(storage)'
        /\ \A o \in Tabs : Live(refresh[o].new) => Live(refresh[o].new)'
    BY <1>1, <2>1, <2>2, <2>3 DEF Live
  <2>5. \A o \in Tabs : SigningOut(o)' => SigningOut(o)
    BY <1>1 DEF SigningOut
  <2> QED
    BY <1>1, <1>2, <2>1, <2>4, <2>5, UnspoiltStays DEF BrowserInv
<1> QED
  BY <1>3, <1>4, <1>5 DEF BrowserInv

-----------------------------------------------------------------------------

LEMMA BrowserStep == ASSUME BrowserAssumption, BrowserInv, [Next]_vars PROVE BrowserInv'
<1>1. ASSUME NEW tab \in Tabs, RefreshStep(tab) PROVE BrowserInv'
  BY <1>1, ServeRefreshKeeps, IssueRefreshKeeps, FailRefreshKeeps, RefreshAnsweredKeeps,
     RefreshRefusedKeeps, RefreshLostKeeps DEF RefreshStep
<1>2. ASSUME NEW tab \in Tabs, NEW s \in Slots, CallStep(tab, s) PROVE BrowserInv'
  BY <1>2, ServeKeeps, CallLostKeeps, UnauthorizedKeeps, OverKeeps DEF CallStep
<1>3. ASSUME NEW tab \in Tabs, MainStep(tab) PROVE BrowserInv'
  <2>1. "main" \in Slots
    BY DEF Slots
  <2> QED
    BY <1>2, <1>3, <2>1, SignedInKeeps, RecognisedKeeps, UnrecognisedKeeps, SignedOutKeeps
    DEF MainStep
<1>4. ASSUME NEW tab \in Tabs, NEW w \in Widgets, CallStep(tab, w) PROVE BrowserInv'
  BY <1>2, <1>4 DEF Slots
<1>5. CASE UNCHANGED vars
  <2>1. TypeOK' /\ WidgetsOnlyGet'
    BY <1>5 DEF vars, BrowserInv, TypeOK, WidgetsOnlyGet, Waiting, Awaits, Busy
  <2>2. Unspoilt' /\ Calm'
    BY <1>5, UnspoiltStays, CalmStays DEF vars, BrowserInv, SigningOut, Live
  <2> QED
    BY <2>1, <2>2 DEF BrowserInv
<1>6. ASSUME NEW tab \in Tabs, TabStep(tab) PROVE BrowserInv'
  BY <1>1, <1>3, <1>4, <1>6, LoadKeeps, GetKeeps, SignInKeeps, SignOutKeeps, ExpireKeeps
  DEF TabStep
<1>7. CASE \/ \E t \in TokenIds : Lapse(t)
           \/ \E a \in Accounts : RevokeElsewhere(a)
  BY <1>7, WithdrawKeeps DEF Lapse, RevokeElsewhere
<1> QED
  BY <1>5, <1>6, <1>7 DEF Next

LEMMA BrowserAlways == Spec => []BrowserInv
<1>1. Init => BrowserInv
  BY BrowserInit, BrowserAssumption
<1>2. BrowserInv /\ [Next]_vars => BrowserInv'
  BY BrowserStep, BrowserAssumption
<1> QED
  BY <1>1, <1>2, PTL DEF Spec

\* Everything in the browser keeps its type, and no call waits for a refresh
\* that is not under way.
THEOREM BrowserTypes == Spec => []TypeOK
BY BrowserAlways, PTL DEF BrowserInv

\* A session that nobody signed out of, whose token neither ran out nor was
\* revoked, none of whose refreshes the server answered in vain and none of
\* whose tokens was presented by two tabs, is there: every call may be refused,
\* refreshes may fail before they reach the server, and the one good token is
\* stored or traded.
THEOREM NothingElseLosesIt == Spec => []SessionSurvives
<1>1. BrowserInv => SessionSurvives
  BY DEF BrowserInv, Unspoilt, Trades, SessionSurvives, HasSession
<1> QED
  BY <1>1, BrowserAlways, PTL

\* A sign-out that no refresh and no sign-in overlapped is final, whether the
\* server heard of it or not: what is still to be answered stores nothing.
THEOREM CalmIsFinal == Spec => []CalmSignOutIsFinal
<1>1. BrowserInv => CalmSignOutIsFinal
  BY DEF BrowserInv, Calm, CalmSignOutIsFinal, Live
<1> QED
  BY <1>1, BrowserAlways, PTL
=============================================================================
