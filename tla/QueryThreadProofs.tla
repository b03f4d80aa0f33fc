---------------------------- MODULE QueryThreadProofs ----------------------------
(***************************************************************************)
(* Proofs about the ticket system, for any society, callers, queries,      *)
(* messages and requests in flight.  The argument: what a request has read *)
(* of a query, who raised it, for which society and when, never changes,   *)
(* so what it was let through with is still so when it commits; and the    *)
(* clock has not gone back meanwhile.  Opening a query commits its words   *)
(* with it, stamped alike, before anybody can answer.                      *)
(***************************************************************************)
EXTENDS QueryThread, FiniteSetTheorems, TLAPS

Statements == {"say", "touch", "commit"}

\* by may speak on query k: who raised it, and its builder's staff.
Speaks(by, k) ==
    \/ by.user = queries[k].by.user
    \/ IsStaff(by.role) /\ Permits(by, BuilderOf[queries[k].society])

\* What a transaction is about to commit is new, entitled, and not older than
\* the query it is said on.
SoundWriting(at) ==
    /\ at.id \notin Said
    /\ at.words.query = at.query /\ at.words.created <= now
    /\ IF at.row = NoQuery
       THEN /\ at.op # "say"
            /\ at.query \in Raised
            /\ Speaks(at.words.by, at.query)
            /\ at.words.internal => IsStaff(at.words.by.role)
            /\ at.words.created >= queries[at.query].created
       ELSE /\ at.op # "touch"
            /\ at.query \notin Raised
            /\ at.words.by = at.row.by /\ ~at.words.internal
            /\ at.words.created = at.row.created
            /\ at.row.status = "open" /\ at.row.resolved = Never

Sound(at) ==
    /\ at.op \in Statements => SoundWriting(at)
    /\ at.op = "decide" => at.query \in Raised

CallsSound == \A c \in Calls : Sound(call[c])

\* Two transactions write different messages, and open different queries.
Distinct(at, other) ==
    at.op \in Statements /\ other.op \in Statements =>
        /\ at.id # other.id
        /\ at.row # NoQuery /\ other.row # NoQuery => at.query # other.query

CallsApart == \A c, d \in Calls : c # d => Distinct(call[c], call[d])

\* A query has its opening words, of the moment it was created.
Opened ==
    \A k \in Raised :
        /\ queries[k].created <= now
        /\ \E i \in Thread(k) :
              /\ messages[i].by = queries[k].by /\ ~messages[i].internal
              /\ messages[i].created = queries[k].created

\* A message is on a query that is there, by somebody who may speak on it.
MessagesBelong ==
    \A i \in Said :
        LET m == messages[i]
        IN  /\ m.query \in Raised
            /\ Speaks(m.by, m.query)
            /\ m.internal => IsStaff(m.by.role)
            /\ m.created >= queries[m.query].created

ThreadInv ==
    /\ TypeOK /\ IsFiniteSet(Raised)
    /\ CallsSound /\ CallsApart /\ Opened /\ MessagesBelong

-----------------------------------------------------------------------------

LEMMA ThreadInit == ASSUME QueryThreadAssumption, Init PROVE ThreadInv
<1>1. Raised = {} /\ Said = {} /\ \A c \in Calls : call[c].op = "idle"
  BY DEF Init, Raised, Said, Idle
<1>2. TypeOK
  BY <1>1 DEF Init, TypeOK, Times, QueryThreadAssumption
<1>3. CallsSound /\ CallsApart /\ Opened /\ MessagesBelong
  BY <1>1 DEF CallsSound, Sound, Statements, CallsApart, Distinct, Opened, MessagesBelong
<1> QED
  BY <1>1, <1>2, <1>3, FS_EmptySet DEF ThreadInv

\* A call whose record has the type of a stage is at that stage.
LEMMA Stages ==
    ASSUME NEW at \in {Idle} \cup Writing \cup Deciding
    PROVE  /\ at.op \in Statements => at \in Writing
           /\ at.op = "decide" => at \in Deciding
           /\ at.op = "idle" => at = Idle
BY DEF Statements, Writing, Deciding, Idle

\* One call goes on by itself, soundly and apart from the others.
LEMMA OneCallGoesOn ==
    ASSUME ThreadInv, NEW c \in Calls, NEW new \in {Idle} \cup Writing \cup Deciding,
           call' = [call EXCEPT ![c] = new], UNCHANGED <<queries, messages, now>>,
           Sound(new), \A d \in Calls \ {c} : Distinct(new, call[d])
    PROVE  ThreadInv'
<1>1. call'[c] = new /\ \A d \in Calls \ {c} : call'[d] = call[d]
  BY DEF ThreadInv, TypeOK
<1>2. Raised' = Raised /\ Said' = Said /\ \A k : Thread(k)' = Thread(k)
  BY DEF Raised, Said, Thread
<1>3. TypeOK'
  BY <1>2 DEF ThreadInv, TypeOK
<1>4. CallsSound'
  <2>1. ASSUME NEW d \in Calls PROVE Sound(call[d])'
    <3>1. Sound(call'[d])
      BY <1>1 DEF ThreadInv, CallsSound
    <3> QED
      BY <1>2, <3>1 DEF Sound, SoundWriting, Speaks
  <2> QED
    BY <2>1 DEF CallsSound
<1>5. CallsApart'
  BY <1>1 DEF ThreadInv, CallsApart, Distinct
<1>6. Opened' /\ MessagesBelong'
  BY <1>2 DEF ThreadInv, Opened, MessagesBelong, Speaks
<1> QED
  BY <1>2, <1>3, <1>4, <1>5, <1>6 DEF ThreadInv

\* A call that ends takes nothing with it.
LEMMA EndKeeps ==
    ASSUME ThreadInv, NEW c \in Calls, End(c), UNCHANGED <<queries, messages, now>>
    PROVE  ThreadInv'
<1>1. Sound(Idle) /\ \A d \in Calls : Distinct(Idle, call[d])
  BY DEF Sound, Distinct, Idle, Statements
<1> QED
  BY <1>1, OneCallGoesOn DEF End

\* The next statement of a transaction.
LEMMA GotoKeeps ==
    ASSUME ThreadInv, NEW c \in Calls, call[c].op \in {"say", "touch"}, Goto(c, "commit"),
           UNCHANGED <<queries, messages, now>>
    PROVE  ThreadInv'
<1> DEFINE new == [call[c] EXCEPT !.op = "commit"]
<1>1. call[c] \in Writing
  BY Stages DEF ThreadInv, TypeOK, Statements
<1>2. /\ new \in Writing /\ new.op = "commit" /\ new.query = call[c].query
      /\ new.id = call[c].id /\ new.row = call[c].row /\ new.words = call[c].words
  BY <1>1 DEF Writing
<1>3. call' = [call EXCEPT ![c] = new]
  BY DEF Goto
<1>4. Sound(call[c]) /\ \A d \in Calls \ {c} : Distinct(call[c], call[d])
  BY DEF ThreadInv, CallsSound, CallsApart
<1> HIDE DEF new
<1>5. Sound(new)
  BY <1>2, <1>4 DEF Sound, SoundWriting, Statements
<1>6. \A d \in Calls \ {c} : Distinct(new, call[d])
  BY <1>2, <1>4 DEF Distinct, Statements
<1> QED
  BY <1>2, <1>3, <1>5, <1>6, OneCallGoesOn

\* An id that is drawn is neither in the table nor drawn by another call.
LEMMA DrawnIsNew ==
    ASSUME NEW k, NEW i
    PROVE  /\ DrawsQuery(k) => k \notin Raised /\ \A d \in Calls :
                 call[d].op \in Statements => call[d].query # k
           /\ DrawsMessage(i) => i \notin Said /\ \A d \in Calls :
                 call[d].op \in Statements => call[d].id # i
BY DEF DrawsQuery, DrawsMessage, Draws, Drawn, Statements

LEMMA CreateKeeps ==
    ASSUME QueryThreadAssumption, NoRowAssumption, ThreadInv,
           NEW c \in Calls, NEW caller \in Callers, NEW s \in Societies, NEW sla \in SLA,
           NEW k \in QueryIds, NEW i \in MessageIds,
           Create(c, caller, s, sla, k, i)
    PROVE  ThreadInv'
<1> DEFINE row == NewRow(caller, s, sla)
           words == NewWords(caller, k, FALSE)
           new == [op |-> "say", query |-> k, id |-> i, row |-> row, words |-> words]
<1>1. now \in Times /\ now \in Int /\ sla \in Int
  <2>1. now \in Times
    BY DEF ThreadInv, TypeOK
  <2>2. MaxTime \in Nat /\ SLA \subseteq Nat
    BY DEF QueryThreadAssumption
  <2> QED
    BY <2>1, <2>2 DEF Times
<1>2. row \in QueryRows /\ row # NoQuery
  <2>1. row \in QueryRows
    BY <1>1 DEF NewRow, QueryRows, QueryThreadAssumption
  <2> QED
    BY <2>1 DEF NoRowAssumption
<1>3. words \in MessageRows
  BY <1>1 DEF NewWords, MessageRows
<1>4. new \in Writing
  BY <1>2, <1>3 DEF Writing
<1>5. /\ call' = [call EXCEPT ![c] = new] /\ UNCHANGED <<queries, messages, now>>
      /\ DrawsQuery(k) /\ DrawsMessage(i)
  BY DEF Create
<1>6. /\ words.query = k /\ words.by = caller /\ ~words.internal /\ words.created = now
      /\ row.by = caller /\ row.created = now /\ row.status = "open" /\ row.resolved = Never
  BY DEF NewRow, NewWords
<1>7. /\ new.op = "say" /\ new.query = k /\ new.id = i /\ new.row = row
      /\ new.words = words
  OBVIOUS
<1> HIDE DEF row, words, new
<1>8. Sound(new)
  BY <1>1, <1>2, <1>5, <1>6, <1>7, DrawnIsNew DEF Sound, SoundWriting, Statements
<1>9. \A d \in Calls \ {c} : Distinct(new, call[d])
  BY <1>5, <1>7, DrawnIsNew DEF Distinct
<1> QED
  BY <1>4, <1>5, <1>8, <1>9, OneCallGoesOn

\* Whom Get and the guard let through may speak.
LEMMA OpenersSpeak ==
    ASSUME NEW caller, NEW k, MayOpen(caller, k) PROVE k \in Raised /\ Speaks(caller, k)
BY DEF MayOpen, Speaks

LEMMA AddMessageKeeps ==
    ASSUME QueryThreadAssumption, ThreadInv,
           NEW c \in Calls, NEW caller \in Callers, NEW k \in QueryIds,
           NEW i \in MessageIds, NEW isInternal \in BOOLEAN,
           AddMessage(c, caller, k, i, isInternal)
    PROVE  ThreadInv'
<1> DEFINE noted == isInternal /\ IsStaff(caller.role)
           words == NewWords(caller, k, noted)
           new == [op |-> "touch", query |-> k, id |-> i, row |-> NoQuery, words |-> words]
<1>1. now \in Times /\ now \in Int
  BY DEF ThreadInv, TypeOK, Times, QueryThreadAssumption
<1>2. noted \in BOOLEAN /\ (noted => IsStaff(caller.role))
  OBVIOUS
<1>3. words \in MessageRows
  <2> HIDE DEF noted
  <2> QED
    BY <1>1, <1>2 DEF NewWords, MessageRows
<1>4. new \in Writing
  <2> HIDE DEF words
  <2> QED
    BY <1>3 DEF Writing
<1>5. /\ call' = [call EXCEPT ![c] = new] /\ UNCHANGED <<queries, messages, now>>
      /\ DrawsMessage(i)
  BY DEF AddMessage
<1>6. /\ words.query = k /\ words.by = caller /\ words.internal = noted
      /\ words.created = now
  <2> HIDE DEF noted
  <2> QED
    BY DEF NewWords
<1>7. /\ new.op = "touch" /\ new.query = k /\ new.id = i /\ new.row = NoQuery
      /\ new.words = words
  <2> HIDE DEF words
  <2> QED
    OBVIOUS
<1>8. k \in Raised /\ Speaks(caller, k)
  BY OpenersSpeak DEF AddMessage
<1>9. now >= queries[k].created
  <2>1. queries[k] \in QueryRows
    BY <1>8 DEF ThreadInv, TypeOK, Raised
  <2>2. queries[k].created \in Int /\ queries[k].created <= now
    BY <1>8, <2>1 DEF ThreadInv, Opened, QueryRows, Times, QueryThreadAssumption
  <2> QED
    BY <1>1, <2>2
<1> HIDE DEF noted, words, new
<1>10. Sound(new)
  BY <1>1, <1>2, <1>5, <1>6, <1>7, <1>8, <1>9, DrawnIsNew DEF Sound, SoundWriting, Statements
<1>11. \A d \in Calls \ {c} : Distinct(new, call[d])
  BY <1>5, <1>7, DrawnIsNew DEF Distinct
<1> QED
  BY <1>4, <1>5, <1>10, <1>11, OneCallGoesOn

LEMMA SetStatusKeeps ==
    ASSUME ThreadInv, NEW c \in Calls, NEW caller \in Callers, NEW k \in QueryIds,
           NEW status \in Statuses, SetStatus(c, caller, k, status)
    PROVE  ThreadInv'
<1> DEFINE new == [op |-> "decide", query |-> k, status |-> status, start |-> now]
<1>1. new \in Deciding /\ new.op = "decide" /\ new.query = k
  BY DEF Deciding, ThreadInv, TypeOK
<1>2. /\ call' = [call EXCEPT ![c] = new] /\ UNCHANGED <<queries, messages, now>>
      /\ k \in Raised
  BY DEF SetStatus
<1> HIDE DEF new
<1>3. Sound(new) /\ \A d \in Calls \ {c} : Distinct(new, call[d])
  BY <1>1, <1>2 DEF Sound, Distinct, Statements
<1> QED
  BY <1>1, <1>2, <1>3, OneCallGoesOn

-----------------------------------------------------------------------------
(* What commits *)

\* What a query is about, and since when, stands once it is raised.
RowsStand ==
    \A k \in Raised :
        /\ k \in Raised'
        /\ queries'[k].society = queries[k].society
        /\ queries'[k].by = queries[k].by
        /\ queries'[k].created = queries[k].created

\* What a transaction's commit writes.
LEMMA CommitWrites ==
    ASSUME QueryThreadAssumption, NoRowAssumption, ThreadInv, NEW c \in Calls, Commit(c),
           NEW k, k = call[c].query, NEW i, i = call[c].id,
           NEW row, row = call[c].row, NEW words, words = call[c].words
    PROVE  /\ call[c] \in Writing /\ SoundWriting(call[c])
           /\ k \in QueryIds /\ i \in MessageIds
           /\ row \in QueryRows \cup {NoQuery} /\ words \in MessageRows
           /\ messages' = [messages EXCEPT ![i] = words] /\ messages'[i] = words
           /\ Said' = Said \cup {i}
           /\ \A j \in Said : messages'[j] = messages[j]
           /\ row # NoQuery =>
                 /\ queries' = [queries EXCEPT ![k] = row] /\ queries'[k] = row
           /\ row = NoQuery =>
                 /\ queries' = [queries EXCEPT ![k] =
                                   [queries[k] EXCEPT !.updated = words.created]]
                 /\ queries'[k] \in QueryRows
                 /\ queries'[k].status = queries[k].status
                 /\ queries'[k].resolved = queries[k].resolved
                 /\ queries'[k].by = queries[k].by
                 /\ queries'[k].society = queries[k].society
                 /\ queries'[k].created = queries[k].created
           /\ \A l \in Raised \ {k} : queries'[l] = queries[l]
           /\ Raised' = Raised \cup {k}
<1>1. call[c].op = "commit"
  BY DEF Commit
<1>2. call[c] \in Writing
  BY <1>1, Stages DEF ThreadInv, TypeOK, Statements
<1>3. SoundWriting(call[c])
  BY <1>1 DEF ThreadInv, CallsSound, Sound, Statements
<1>4. /\ k \in QueryIds /\ i \in MessageIds
      /\ row \in QueryRows \cup {NoQuery} /\ words \in MessageRows
  BY <1>2 DEF Writing
<1>5. /\ messages' = [messages EXCEPT ![i] = words]
      /\ messages \in [MessageIds -> MessageRows \cup {NoMessage}]
      /\ queries \in [QueryIds -> QueryRows \cup {NoQuery}]
  BY DEF Commit, ThreadInv, TypeOK
<1>6. messages'[i] = words /\ \A j \in MessageIds \ {i} : messages'[j] = messages[j]
  BY <1>4, <1>5
<1>7. i \notin Said /\ words # NoMessage
  BY <1>3, <1>4, NoRowAssumption DEF SoundWriting, NoRowAssumption
<1>8. Said' = Said \cup {i} /\ \A j \in Said : messages'[j] = messages[j]
  BY <1>4, <1>6, <1>7 DEF Said
<1>9. CASE row # NoQuery
  <2>1. queries' = [queries EXCEPT ![k] = row]
    BY <1>5, <1>9 DEF Commit
  <2>2. queries'[k] = row /\ \A l \in QueryIds \ {k} : queries'[l] = queries[l]
    BY <1>4, <1>5, <2>1
  <2>3. Raised' = Raised \cup {k} /\ \A l \in Raised \ {k} : queries'[l] = queries[l]
    BY <1>4, <1>9, <2>2 DEF Raised
  <2> QED
    BY <1>2, <1>3, <1>4, <1>5, <1>6, <1>8, <1>9, <2>1, <2>2, <2>3
<1>10. CASE row = NoQuery
  <2> DEFINE old == queries[k]
             touched == [old EXCEPT !.updated = words.created]
  <2>1. k \in Raised
    BY <1>3, <1>10 DEF SoundWriting
  <2>2. old \in QueryRows
    BY <1>5, <2>1 DEF Raised
  <2>3. words.created \in Times
    BY <1>4 DEF MessageRows
  <2>4. /\ touched \in QueryRows /\ touched.status = old.status
        /\ touched.resolved = old.resolved /\ touched.by = old.by
        /\ touched.society = old.society /\ touched.created = old.created
    BY <2>2, <2>3 DEF QueryRows
  <2>5. queries' = [queries EXCEPT ![k] = touched]
    BY <1>4, <1>5, <1>10 DEF Commit
  <2> HIDE DEF touched
  <2>6. queries'[k] = touched /\ \A l \in QueryIds \ {k} : queries'[l] = queries[l]
    BY <1>4, <1>5, <2>5
  <2>7. Raised' = Raised \cup {k} /\ \A l \in Raised \ {k} : queries'[l] = queries[l]
    BY <1>4, <2>1, <2>4, <2>6, NoRowAssumption DEF Raised, NoRowAssumption
  <2> QED
    BY <1>2, <1>3, <1>4, <1>5, <1>6, <1>8, <1>10, <2>4, <2>5, <2>6, <2>7 DEF touched
<1> QED
  BY <1>9, <1>10

LEMMA CommitKeeps ==
    ASSUME QueryThreadAssumption, NoRowAssumption, ThreadInv, NEW c \in Calls, Commit(c)
    PROVE  ThreadInv'
<1>0. PICK k, i, row, words :
         /\ k = call[c].query /\ i = call[c].id
         /\ row = call[c].row /\ words = call[c].words
  OBVIOUS
<1>1. /\ call[c] \in Writing /\ SoundWriting(call[c])
      /\ k \in QueryIds /\ i \in MessageIds
      /\ row \in QueryRows \cup {NoQuery} /\ words \in MessageRows
      /\ messages' = [messages EXCEPT ![i] = words] /\ messages'[i] = words
      /\ Said' = Said \cup {i}
      /\ \A j \in Said : messages'[j] = messages[j]
      /\ row # NoQuery =>
            queries' = [queries EXCEPT ![k] = row] /\ queries'[k] = row
      /\ row = NoQuery =>
            /\ queries' = [queries EXCEPT ![k] =
                              [queries[k] EXCEPT !.updated = words.created]]
            /\ queries'[k] \in QueryRows
            /\ queries'[k].status = queries[k].status
            /\ queries'[k].resolved = queries[k].resolved
            /\ queries'[k].by = queries[k].by
            /\ queries'[k].society = queries[k].society
            /\ queries'[k].created = queries[k].created
      /\ \A l \in Raised \ {k} : queries'[l] = queries[l]
      /\ Raised' = Raised \cup {k}
  BY <1>0, CommitWrites
<1>2. call[c].op = "commit" /\ call' = [call EXCEPT ![c] = Idle] /\ UNCHANGED now
  BY DEF Commit, End
<1>3. call'[c] = Idle /\ \A d \in Calls \ {c} : call'[d] = call[d]
  BY <1>2 DEF ThreadInv, TypeOK
<1>4. /\ words.query = k /\ words.created <= now /\ i \notin Said
      /\ row = NoQuery =>
            /\ k \in Raised /\ Speaks(words.by, k)
            /\ words.internal => IsStaff(words.by.role)
            /\ words.created >= queries[k].created
      /\ row # NoQuery =>
            /\ k \notin Raised /\ words.by = row.by /\ ~words.internal
            /\ words.created = row.created /\ row.status = "open" /\ row.resolved = Never
  BY <1>0, <1>1 DEF SoundWriting
<1>5. \A d \in Calls \ {c} : Distinct(call[c], call[d])
  BY DEF ThreadInv, CallsApart
<1>6. RowsStand
  BY <1>1, <1>4 DEF RowsStand
<1>7. \A by, l : l \in Raised /\ Speaks(by, l) => Speaks(by, l)'
  BY <1>6 DEF RowsStand, Speaks
<1>8. TypeOK'
  <2>1. queries' \in [QueryIds -> QueryRows \cup {NoQuery}]
    <3>1. \E new \in QueryRows : queries' = [queries EXCEPT ![k] = new]
      BY <1>1 DEF ThreadInv, TypeOK
    <3> QED
      BY <3>1 DEF ThreadInv, TypeOK
  <2>2. messages' \in [MessageIds -> MessageRows \cup {NoMessage}]
    BY <1>1 DEF ThreadInv, TypeOK
  <2>3. call' \in [Calls -> {Idle} \cup Writing \cup Deciding]
    BY <1>2 DEF ThreadInv, TypeOK
  <2>4. \A l \in Raised' : queries'[l].status \in Final <=> queries'[l].resolved # Never
    BY <1>1, <1>4 DEF ThreadInv, TypeOK, Final
  <2> QED
    BY <1>2, <2>1, <2>2, <2>3, <2>4 DEF ThreadInv, TypeOK
<1>9. IsFiniteSet(Raised')
  BY <1>1, FS_AddElement DEF ThreadInv
<1>10. CallsApart'
  <2>1. ASSUME NEW d \in Calls PROVE Distinct(Idle, call[d]) /\ Distinct(call[d], Idle)
    BY DEF Distinct, Idle, Statements
  <2> QED
    BY <1>3, <2>1 DEF ThreadInv, CallsApart, Distinct
<1>11. CallsSound'
  <2>1. Sound(Idle)'
    BY DEF Sound, Idle, Statements
  <2>2. ASSUME NEW d \in Calls \ {c} PROVE Sound(call[d])'
    <3>1. Sound(call[d]) /\ Distinct(call[c], call[d]) /\ call'[d] = call[d]
      BY <1>3, <1>5 DEF ThreadInv, CallsSound
    <3>2. CASE call[d].op \in Statements
      <4>1. call[d].id # i /\ (row # NoQuery /\ call[d].row # NoQuery => call[d].query # k)
        BY <1>0, <1>2, <3>1, <3>2 DEF Distinct, Statements
      <4>2. SoundWriting(call[d])
        BY <3>1, <3>2 DEF Sound
      <4>3. CASE call[d].row = NoQuery
        <5>1. call[d].query \in Raised /\ queries'[call[d].query].created
                                            = queries[call[d].query].created
          BY <1>6, <4>2, <4>3 DEF SoundWriting, RowsStand
        <5>2. SoundWriting(call[d])'
          BY <1>1, <1>2, <1>7, <3>1, <4>1, <4>2, <4>3, <5>1 DEF SoundWriting
        <5> QED
          BY <3>1, <3>2, <5>2 DEF Sound, Statements
      <4>4. CASE call[d].row # NoQuery
        <5>1. call[d].query \notin Raised'
          <6>1. call[d].query \notin Raised
            BY <4>2, <4>4 DEF SoundWriting
          <6> QED
            BY <1>1, <1>4, <4>1, <4>4, <6>1
        <5>2. SoundWriting(call[d])'
          BY <1>1, <1>2, <3>1, <4>1, <4>2, <4>4, <5>1 DEF SoundWriting
        <5> QED
          BY <3>1, <3>2, <5>2 DEF Sound, Statements
      <4> QED
        BY <4>3, <4>4
    <3>3. CASE call[d].op \notin Statements
      BY <1>1, <3>1, <3>3 DEF Sound
    <3> QED
      BY <3>2, <3>3
  <2> QED
    BY <1>3, <2>1, <2>2 DEF CallsSound
<1>12. \A l : Thread(l) \subseteq Thread(l)'
  BY <1>1 DEF Thread
<1>13. Opened'
  <2>1. ASSUME NEW l \in Raised
        PROVE  /\ queries'[l].created <= now'
               /\ \E j \in Thread(l)' :
                     /\ messages'[j].by = queries'[l].by /\ ~messages'[j].internal
                     /\ messages'[j].created = queries'[l].created
    <3>1. /\ queries[l].created <= now
          /\ \E j \in Thread(l) :
                /\ messages[j].by = queries[l].by /\ ~messages[j].internal
                /\ messages[j].created = queries[l].created
      BY DEF ThreadInv, Opened
    <3> QED
      BY <1>1, <1>2, <1>6, <1>12, <3>1 DEF RowsStand, Thread
  <2>2. ASSUME row # NoQuery
        PROVE  /\ queries'[k].created <= now'
               /\ \E j \in Thread(k)' :
                     /\ messages'[j].by = queries'[k].by /\ ~messages'[j].internal
                     /\ messages'[j].created = queries'[k].created
    <3>1. i \in Thread(k)'
      BY <1>1, <1>4 DEF Thread
    <3> QED
      BY <1>1, <1>2, <1>4, <2>2, <3>1
  <2> QED
    BY <1>1, <1>4, <2>1, <2>2 DEF Opened
<1>14. MessagesBelong'
  <2>1. ASSUME NEW j \in Said, NEW m, m = messages[j]
        PROVE  /\ messages'[j] = m
               /\ m.query \in Raised' /\ Speaks(m.by, m.query)'
               /\ m.internal => IsStaff(m.by.role)
               /\ m.created >= queries'[m.query].created
    <3>1. /\ m.query \in Raised /\ Speaks(m.by, m.query)
          /\ m.internal => IsStaff(m.by.role)
          /\ m.created >= queries[m.query].created
      BY <2>1 DEF ThreadInv, MessagesBelong
    <3> QED
      BY <1>1, <1>6, <1>7, <2>1, <3>1 DEF RowsStand
  <2>2. Speaks(words.by, k)'
    <3>1. CASE row = NoQuery
      BY <1>4, <1>7, <3>1
    <3>2. CASE row # NoQuery
      BY <1>1, <1>4, <3>2 DEF Speaks
    <3> QED
      BY <3>1, <3>2
  <2>3. /\ k \in Raised' /\ (words.internal => IsStaff(words.by.role))
        /\ words.created >= queries'[k].created
    <3>1. words.created \in Int
      BY <1>1 DEF MessageRows, Times, QueryThreadAssumption
    <3> QED
      BY <1>1, <1>4, <3>1
  <2>4. ASSUME NEW j \in Said', NEW m, m = messages'[j]
        PROVE  /\ m.query \in Raised' /\ Speaks(m.by, m.query)'
               /\ m.internal => IsStaff(m.by.role)
               /\ m.created >= queries'[m.query].created
    BY <1>1, <1>4, <2>1, <2>2, <2>3, <2>4
  <2> QED
    BY <2>4 DEF MessagesBelong, Speaks
<1> QED
  BY <1>8, <1>9, <1>10, <1>11, <1>13, <1>14 DEF ThreadInv

-----------------------------------------------------------------------------
(* What the office decides *)

LEMMA DecideWrites ==
    ASSUME QueryThreadAssumption, NoRowAssumption, ThreadInv, NEW c \in Calls, Decide(c),
           NEW k, k = call[c].query, NEW at, at = call[c]
    PROVE  /\ k \in Raised /\ at \in Deciding
           /\ Raised' = Raised
           /\ \A l \in Raised \ {k} : queries'[l] = queries[l]
           /\ queries'[k] \in QueryRows
           /\ queries'[k].by = queries[k].by
           /\ queries'[k].society = queries[k].society
           /\ queries'[k].created = queries[k].created
           /\ queries'[k].status = at.status
           /\ queries'[k].resolved = IF at.status \notin Final THEN Never
                                     ELSE IF queries[k].resolved = Never THEN at.start
                                     ELSE queries[k].resolved
           /\ queries' = [queries EXCEPT ![k] = queries'[k]]
<1> DEFINE old == queries[k]
           settled == IF at.status \notin Final THEN Never
                      ELSE IF old.resolved = Never THEN at.start ELSE old.resolved
           row == [old EXCEPT !.status = at.status, !.resolved = settled, !.updated = at.start]
<1>1. at.op = "decide"
  BY DEF Decide
<1>2. at \in Deciding /\ k \in Raised
  <2>1. at \in {Idle} \cup Writing \cup Deciding /\ Sound(at)
    BY DEF ThreadInv, TypeOK, CallsSound
  <2> QED
    BY <1>1, <2>1, Stages DEF Sound
<1>3. old \in QueryRows /\ k \in QueryIds
  BY <1>2 DEF ThreadInv, TypeOK, Raised
<1>4. at.status \in Statuses /\ at.start \in Times
  BY <1>2 DEF Deciding
<1>5. settled \in Times \cup {Never}
  BY <1>3, <1>4 DEF QueryRows
<1>6. queries' = [queries EXCEPT ![k] = row]
  BY Zenon DEF Decide
<1> HIDE DEF settled
<1>7. /\ row \in QueryRows /\ row.by = old.by /\ row.society = old.society
      /\ row.created = old.created /\ row.status = at.status /\ row.resolved = settled
  BY <1>3, <1>4, <1>5 DEF QueryRows
<1> HIDE DEF row
<1>8. queries'[k] = row /\ \A l \in QueryIds \ {k} : queries'[l] = queries[l]
  BY <1>3, <1>6 DEF ThreadInv, TypeOK
<1>9. Raised' = Raised
  BY <1>2, <1>7, <1>8, NoRowAssumption DEF Raised, NoRowAssumption
<1> QED
  BY <1>2, <1>6, <1>7, <1>8, <1>9 DEF Raised, settled

LEMMA DecideKeeps ==
    ASSUME QueryThreadAssumption, NoRowAssumption, ThreadInv, NEW c \in Calls, Decide(c)
    PROVE  ThreadInv'
<1>0. PICK k, at : k = call[c].query /\ at = call[c]
  OBVIOUS
<1>1. /\ k \in Raised /\ at \in Deciding
      /\ Raised' = Raised
      /\ \A l \in Raised \ {k} : queries'[l] = queries[l]
      /\ queries'[k] \in QueryRows
      /\ queries'[k].by = queries[k].by
      /\ queries'[k].society = queries[k].society
      /\ queries'[k].created = queries[k].created
      /\ queries'[k].status = at.status
      /\ queries'[k].resolved = IF at.status \notin Final THEN Never
                                ELSE IF queries[k].resolved = Never THEN at.start
                                ELSE queries[k].resolved
      /\ queries' = [queries EXCEPT ![k] = queries'[k]]
  BY <1>0, DecideWrites
<1>2. call' = [call EXCEPT ![c] = Idle] /\ UNCHANGED <<messages, now>>
  BY DEF Decide, End
<1>3. call'[c] = Idle /\ \A d \in Calls \ {c} : call'[d] = call[d]
  BY <1>2 DEF ThreadInv, TypeOK
<1>4. RowsStand /\ Said' = Said /\ \A l : Thread(l)' = Thread(l)
  BY <1>1, <1>2 DEF RowsStand, Said, Thread
<1>5. \A by, l : l \in Raised => (Speaks(by, l)' <=> Speaks(by, l))
  BY <1>4 DEF RowsStand, Speaks
<1>6. TypeOK'
  <2>1. queries' \in [QueryIds -> QueryRows \cup {NoQuery}]
    <3>1. \E new \in QueryRows : queries' = [queries EXCEPT ![k] = new]
      BY <1>1
    <3> QED
      BY <3>1 DEF ThreadInv, TypeOK
  <2>2. call' \in [Calls -> {Idle} \cup Writing \cup Deciding]
    BY <1>2 DEF ThreadInv, TypeOK
  <2>3. queries'[k].status \in Final <=> queries'[k].resolved # Never
    <3>1. at.start # Never
      BY <1>1 DEF Deciding, Times, QueryThreadAssumption
    <3> QED
      BY <1>1, <3>1
  <2>4. \A l \in Raised' : queries'[l].status \in Final <=> queries'[l].resolved # Never
    BY <1>1, <2>3 DEF ThreadInv, TypeOK
  <2> QED
    BY <1>2, <2>1, <2>2, <2>4 DEF ThreadInv, TypeOK
<1>7. CallsApart'
  <2>1. ASSUME NEW d \in Calls PROVE Distinct(Idle, call[d]) /\ Distinct(call[d], Idle)
    BY DEF Distinct, Idle, Statements
  <2> QED
    BY <1>3, <2>1 DEF ThreadInv, CallsApart, Distinct
<1>8. CallsSound'
  <2>1. Sound(Idle)'
    BY DEF Sound, Idle, Statements
  <2>2. ASSUME NEW d \in Calls \ {c} PROVE Sound(call[d])'
    <3>1. Sound(call[d]) /\ call'[d] = call[d]
      BY <1>3 DEF ThreadInv, CallsSound
    <3>2. SoundWriting(call[d]) => SoundWriting(call[d])'
      BY <1>1, <1>2, <1>4, <1>5, <3>1 DEF SoundWriting, RowsStand
    <3> QED
      BY <1>1, <3>1, <3>2 DEF Sound
  <2> QED
    BY <1>3, <2>1, <2>2 DEF CallsSound
<1>9. Opened'
  BY <1>1, <1>2, <1>4 DEF ThreadInv, Opened, RowsStand
<1>10. MessagesBelong'
  <2>1. ASSUME NEW j \in Said, NEW m, m = messages[j]
        PROVE  /\ m.query \in Raised' /\ Speaks(m.by, m.query)'
               /\ m.internal => IsStaff(m.by.role)
               /\ m.created >= queries'[m.query].created
    <3>1. /\ m.query \in Raised /\ Speaks(m.by, m.query)
          /\ m.internal => IsStaff(m.by.role)
          /\ m.created >= queries[m.query].created
      BY <2>1 DEF ThreadInv, MessagesBelong
    <3> QED
      BY <1>1, <1>4, <1>5, <3>1 DEF RowsStand
  <2> QED
    BY <1>2, <1>4, <2>1 DEF MessagesBelong, Speaks
<1> QED
  BY <1>1, <1>6, <1>7, <1>8, <1>9, <1>10 DEF ThreadInv

\* Time passes: what was not in the future still is not.
LEMMA TickKeeps ==
    ASSUME QueryThreadAssumption, ThreadInv, Tick PROVE ThreadInv'
<1>1. /\ now \in Int /\ now' = now + 1 /\ now' \in Times
      /\ UNCHANGED <<queries, messages, call>>
  BY DEF Tick, ThreadInv, TypeOK, Times, QueryThreadAssumption
<1>2. Raised' = Raised /\ Said' = Said /\ \A l : Thread(l)' = Thread(l)
  BY <1>1 DEF Raised, Said, Thread
<1>3. \A t : t \in Int /\ t <= now => t <= now'
  BY <1>1
<1>4. TypeOK'
  BY <1>1, <1>2 DEF ThreadInv, TypeOK
<1>5. CallsSound'
  <2>1. ASSUME NEW c \in Calls PROVE Sound(call[c])'
    <3>1. Sound(call[c]) /\ call'[c] = call[c]
      BY <1>1 DEF ThreadInv, CallsSound
    <3>2. ASSUME call[c].op \in Statements PROVE SoundWriting(call[c])'
      <4>1. call[c] \in Writing
        BY <3>2, Stages DEF ThreadInv, TypeOK
      <4>2. call[c].words.created \in Int
        BY <4>1 DEF Writing, MessageRows, Times, QueryThreadAssumption
      <4>3. SoundWriting(call[c])
        BY <3>1, <3>2 DEF Sound
      <4> QED
        BY <1>1, <1>2, <1>3, <4>2, <4>3 DEF SoundWriting, Speaks
    <3> QED
      BY <1>2, <3>1, <3>2 DEF Sound
  <2> QED
    BY <2>1 DEF CallsSound
<1>6. Opened'
  <2>1. \A k \in Raised : queries[k].created \in Int
    BY DEF ThreadInv, TypeOK, Raised, QueryRows, Times, QueryThreadAssumption
  <2> QED
    BY <1>1, <1>2, <1>3, <2>1 DEF ThreadInv, Opened
<1>7. CallsApart' /\ MessagesBelong'
  BY <1>1, <1>2 DEF ThreadInv, CallsApart, Distinct, MessagesBelong, Speaks
<1> QED
  BY <1>2, <1>4, <1>5, <1>6, <1>7 DEF ThreadInv

LEMMA ThreadStep ==
    ASSUME QueryThreadAssumption, NoRowAssumption, ThreadInv, [Next]_vars PROVE ThreadInv'
<1>1. ASSUME NEW c \in Calls, Ask(c) PROVE ThreadInv'
  BY <1>1, CreateKeeps, AddMessageKeeps, SetStatusKeeps DEF Ask
<1>2. ASSUME NEW c \in Calls, Proceed(c) PROVE ThreadInv'
  <2>1. CASE InsertOpening(c) \/ Touch(c)
    BY <2>1, GotoKeeps DEF InsertOpening, Touch
  <2> QED
    BY <1>2, <2>1, CommitKeeps, DecideKeeps DEF Proceed
<1>3. ASSUME NEW c \in Calls, Leave(c) PROVE ThreadInv'
  BY <1>3, EndKeeps DEF Leave
<1>4. CASE UNCHANGED vars
  <2>1. Raised' = Raised /\ Said' = Said /\ \A l : Thread(l)' = Thread(l)
    BY <1>4 DEF vars, Raised, Said, Thread
  <2>2. CallsSound' /\ CallsApart'
    BY <1>4, <2>1 DEF vars, ThreadInv, CallsSound, Sound, SoundWriting, Speaks, CallsApart,
                      Distinct
  <2> QED
    BY <1>4, <2>1, <2>2 DEF vars, ThreadInv, TypeOK, Opened, MessagesBelong, Speaks
<1> QED
  BY <1>1, <1>2, <1>3, <1>4, TickKeeps DEF Next

LEMMA ThreadAlways == Spec => []ThreadInv
<1>1. Init => ThreadInv
  BY ThreadInit, QueryThreadAssumption
<1>2. ThreadInv /\ [Next]_vars => ThreadInv'
  BY ThreadStep, QueryThreadAssumption, NoRowAssumption
<1> QED
  BY <1>1, <1>2, PTL DEF Spec

-----------------------------------------------------------------------------
(* What the invariant says of the program *)

\* Rows and requests keep their types, and a query has a resolved_at exactly
\* while its status is a final one, whatever UPDATEs waited for each other.
THEOREM ThreadTypes == Spec => []TypeOK
BY ThreadAlways, PTL DEF ThreadInv

\* Every thread begins with the words that raised its query: the two INSERTs
\* are one transaction, and an answer needs the query to be there.
THEOREM EveryThreadOpens == Spec => []ThreadsOpen
<1>1. ThreadInv => ThreadsOpen
  <2> SUFFICES ASSUME ThreadInv, NEW k \in Raised
               PROVE  \E i \in Thread(k) :
                         /\ messages[i].by = queries[k].by /\ ~messages[i].internal
                         /\ \A j \in Thread(k) : messages[j].created >= messages[i].created
    BY DEF ThreadsOpen
  <2>1. PICK i \in Thread(k) : /\ messages[i].by = queries[k].by /\ ~messages[i].internal
                               /\ messages[i].created = queries[k].created
    BY DEF ThreadInv, Opened
  <2>2. \A j \in Thread(k) : messages[j].created >= queries[k].created
    BY DEF Thread, ThreadInv, MessagesBelong
  <2> QED
    BY <2>1, <2>2
<1> QED
  BY <1>1, ThreadAlways, PTL

\* Internal notes are staff's, written and read, and nobody's own words are
\* hidden from them: a user has one role, so whoever left an internal note
\* reads as staff.
THEOREM NotesAreStaffs == Spec => []NotesStayInside
<1>1. ThreadInv => NotesStayInside
  <2> SUFFICES ASSUME ThreadInv, NEW caller \in Callers, NEW k \in QueryIds,
                      NEW i \in Thread(k)
               PROVE  /\ messages[i].by.user = caller.user => i \in Shown(caller, k)
                      /\ i \in Shown(caller, k) /\ messages[i].internal =>
                            IsStaff(caller.role) /\ IsStaff(messages[i].by.role)
    BY DEF NotesStayInside, Shown
  <2>1. messages[i].by \in Callers
    BY DEF Thread, Said, ThreadInv, TypeOK, MessageRows
  <2>2. messages[i].internal => IsStaff(messages[i].by.role)
    BY DEF Thread, ThreadInv, MessagesBelong
  <2>3. messages[i].by.user = caller.user => messages[i].by = caller
    BY <2>1, QueryThreadAssumption DEF QueryThreadAssumption
  <2> QED
    BY <2>2, <2>3 DEF Shown
<1> QED
  BY <1>1, ThreadAlways, PTL

\* A page of fewer than PageLimit rows is everything there is to list.
LEMMA ShortPageIsAll ==
    ASSUME NEW S, IsFiniteSet(S), NEW F, NEW page \in FirstRows(S, F)
    PROVE  page \subseteq S /\ (Cardinality(page) < PageLimit => page = S)
<1>1. /\ page \subseteq S
      /\ Cardinality(page) = IF Cardinality(S) < PageLimit THEN Cardinality(S) ELSE PageLimit
  BY DEF FirstRows
<1>2. Cardinality(S) \in Int /\ PageLimit \in Int
  BY FS_CardinalityType, QueryThreadAssumption DEF QueryThreadAssumption
<1>3. ASSUME Cardinality(page) < PageLimit PROVE Cardinality(S) = Cardinality(page)
  BY <1>1, <1>2, <1>3
<1> QED
  BY <1>1, <1>3, FS_Subset

\* Nobody speaks on a query but who raised it and its builder's staff, though
\* the guard is passed in one moment and the words are committed in another;
\* and the list of one's own is neither too long nor, below its limit, short.
THEOREM OnlyPartiesSpeak == Spec => []SpeakersBelong
<1>1. ThreadInv => SpeakersBelong
  <2> SUFFICES ASSUME ThreadInv PROVE SpeakersBelong
    OBVIOUS
  <2>1. ASSUME NEW i \in Said
        PROVE  LET q == queries[messages[i].query]
               IN  \/ messages[i].by.user = q.by.user
                   \/ IsStaff(messages[i].by.role) /\ Permits(messages[i].by, BuilderOf[q.society])
    BY DEF ThreadInv, MessagesBelong, Speaks
  <2>2. ASSUME NEW caller \in Callers, NEW page \in Mine(caller)
        PROVE  /\ ~IsStaff(caller.role) => \A k \in page : MayOpen(caller, k)
               /\ Cardinality(page) < PageLimit =>
                     \A k \in Raised : queries[k].by.user = caller.user => k \in page
    <3> DEFINE S == {k \in Raised : queries[k].by.user = caller.user}
    <3>1. IsFiniteSet(S)
      BY FS_Subset DEF ThreadInv
    <3>2. page \in FirstRows(S, {})
      BY <2>2 DEF Mine
    <3> HIDE DEF S
    <3>3. page \subseteq S /\ (Cardinality(page) < PageLimit => page = S)
      BY <3>1, <3>2, ShortPageIsAll
    <3> QED
      BY <3>3 DEF MayOpen, S
  <2> QED
    BY <2>1, <2>2 DEF SpeakersBelong
<1> QED
  BY <1>1, ThreadAlways, PTL

\* The inbox's first page holds every query that is late, or nothing but late
\* ones: what the database sorts first, by resolved_at alone, is what the
\* program marks as breached, because no query is both settled and unresolved.
THEOREM LateComesFirst == Spec => []InboxSurfacesLate
<1>1. ThreadInv => InboxSurfacesLate
  <2> SUFFICES ASSUME ThreadInv, NEW s \in Societies, NEW page \in Inbox(s, Statuses),
                      NEW k \in Raised, IsBreached(k, now), queries[k].society = s,
                      k \notin page, NEW l \in page
               PROVE  IsBreached(l, now)
    BY DEF InboxSurfacesLate
  <2> DEFINE S == {j \in Raised : queries[j].society = s /\ queries[j].status \in Statuses}
             F == {j \in S : SortedFirst(j)}
  <2>1. page \in FirstRows(S, F)
    BY DEF Inbox
  <2>2. queries[k] \in QueryRows
    BY DEF ThreadInv, TypeOK, Raised
  <2>3. now \in Int /\ queries[k].due \in Int
    BY <2>2 DEF QueryRows, ThreadInv, TypeOK, Times, QueryThreadAssumption
  <2>4. k \in S /\ k \in F
    BY <2>2, <2>3 DEF QueryRows, IsBreached, SortedFirst
  <2>5. l \in S
    BY <2>1 DEF FirstRows
  <2> HIDE DEF S, F
  <2>6. l \in F
    BY <2>1, <2>4, <2>5 DEF FirstRows
  <2>7. queries[l].resolved = Never /\ queries[l].due < now /\ l \in Raised
    BY <2>6 DEF F, S, SortedFirst
  <2>8. queries[l].status \notin Final
    BY <2>7 DEF ThreadInv, TypeOK
  <2>9. queries[l].due \in Int
    BY <2>7 DEF ThreadInv, TypeOK, Raised, QueryRows
  <2> QED
    BY <2>3, <2>7, <2>8, <2>9 DEF IsBreached
<1> QED
  BY <1>1, ThreadAlways, PTL
-----------------------------------------------------------------------------
(* The refinement of TicketPromise *)

\* A ticket that was raised is none of the missing.
LEMMA RaisedTicket ==
    ASSUME NoRowAssumption, ThreadInv, NEW k \in Raised PROVE TicketOf(k) # NoQuery
<1>1. queries[k] \in QueryRows
  BY DEF ThreadInv, TypeOK, Raised
<1>2. TicketOf(k) \in [by: Callers, settled: Times \cup {Never}]
  BY <1>1 DEF TicketOf, QueryRows
<1> QED
  BY <1>2 DEF NoRowAssumption

\* What a commit says is new in the protocol, and the rest of it stands.
LEMMA CommitSays ==
    ASSUME QueryThreadAssumption, NoRowAssumption, ThreadInv, NEW c \in Calls, Commit(c),
           NEW k, k = call[c].query, NEW i, i = call[c].id, NEW words, words = call[c].words
    PROVE  Promise!Say(k, i) /\ Protocol'[i].by = words.by
<1>1. PICK row : row = call[c].row
  OBVIOUS
<1>2. /\ SoundWriting(call[c])
      /\ i \in MessageIds /\ words \in MessageRows /\ messages'[i] = words
      /\ Said' = Said \cup {i} /\ \A j \in Said : messages'[j] = messages[j]
  BY <1>1, CommitWrites
<1>3. i \notin Said /\ words.query = k
  BY <1>2 DEF SoundWriting
<1>4. Protocol[i] = NoMessage
  BY <1>2, <1>3 DEF Protocol, Utterance
<1>5. Utterance(i)' = [on |-> k, by |-> words.by]
  BY <1>2, <1>3 DEF Utterance
<1>6. \A j \in MessageIds \ {i} : Utterance(j)' = Utterance(j)
  BY <1>2 DEF Utterance
<1>7. Protocol' = [Protocol EXCEPT ![i] = [on |-> k, by |-> words.by]]
  BY <1>2, <1>5, <1>6 DEF Protocol
<1>8. Protocol'[i] = [on |-> k, by |-> words.by]
  BY <1>2, <1>5 DEF Protocol
<1>9. words.by \in Callers
  BY <1>2 DEF MessageRows
<1>10. Protocol'[i] \in [on: {k}, by: Callers] /\ Protocol'[i].by = words.by
  BY <1>8, <1>9
<1>11. Protocol' = [Protocol EXCEPT ![i] = Protocol'[i]]
  BY <1>7, <1>8
<1> QED
  BY <1>4, <1>10, <1>11 DEF Promise!Say

\* A commit raises a ticket, or adds to one.
LEMMA CommitPromised ==
    ASSUME QueryThreadAssumption, NoRowAssumption, ThreadInv, NEW c \in Calls, Commit(c)
    PROVE  Promise!Next
<1>0. PICK k, i, row, words : /\ k = call[c].query /\ i = call[c].id
                              /\ row = call[c].row /\ words = call[c].words
  OBVIOUS
<1>1. /\ SoundWriting(call[c]) /\ k \in QueryIds /\ i \in MessageIds
      /\ row \in QueryRows \cup {NoQuery}
      /\ row # NoQuery => queries'[k] = row
      /\ row = NoQuery => /\ queries'[k].resolved = queries[k].resolved
                          /\ queries'[k].by = queries[k].by
      /\ \A l \in Raised \ {k} : queries'[l] = queries[l]
      /\ Raised' = Raised \cup {k}
  BY <1>0, CommitWrites
<1>2. Promise!Say(k, i) /\ Protocol'[i].by = words.by
  BY <1>0, CommitSays
<1>3. \A l \in QueryIds \ {k} : TicketOf(l)' = TicketOf(l)
  BY <1>1 DEF TicketOf
<1>4. CASE row # NoQuery
  <2>1. k \notin Raised /\ words.by = row.by /\ row.resolved = Never
    BY <1>0, <1>1, <1>4 DEF SoundWriting
  <2>2. TicketBook[k] = NoQuery
    BY <1>1, <2>1 DEF TicketBook, TicketOf
  <2>3. TicketOf(k)' = [by |-> words.by, settled |-> Never]
    BY <1>1, <1>4, <2>1 DEF TicketOf
  <2>4. TicketBook' = [TicketBook EXCEPT ![k] = [by |-> words.by, settled |-> Never]]
    BY <1>1, <1>3, <2>3 DEF TicketBook
  <2>5. Promise!Raise(k, i)
    BY <1>2, <2>2, <2>4 DEF Promise!Raise
  <2> QED
    BY <1>1, <2>5 DEF Promise!Next
<1>5. CASE row = NoQuery
  <2>1. k \in Raised
    BY <1>0, <1>1, <1>5 DEF SoundWriting
  <2>2. TicketOf(k) # NoQuery
    BY <2>1, RaisedTicket
  <2>3. TicketBook[k] # NoQuery
    BY <1>1, <2>2 DEF TicketBook
  <2>4. TicketOf(k)' = TicketOf(k)
    BY <1>1, <1>5, <2>1 DEF TicketOf
  <2>5. TicketBook' = TicketBook
    BY <1>1, <1>3, <2>4 DEF TicketBook
  <2>6. Promise!Add(k, i)
    BY <1>2, <2>3, <2>5 DEF Promise!Add
  <2> QED
    BY <1>1, <2>6 DEF Promise!Next
<1> QED
  BY <1>4, <1>5

\* A decision settles a ticket, reopens it, or changes nothing the promise
\* speaks of.
LEMMA DecidePromised ==
    ASSUME QueryThreadAssumption, NoRowAssumption, ThreadInv, NEW c \in Calls, Decide(c)
    PROVE  Promise!Next \/ UNCHANGED <<TicketBook, Protocol>>
<1>0. PICK k, at : k = call[c].query /\ at = call[c]
  OBVIOUS
<1>1. /\ k \in Raised /\ at \in Deciding /\ Raised' = Raised
      /\ \A l \in Raised \ {k} : queries'[l] = queries[l]
      /\ queries'[k].by = queries[k].by
      /\ queries'[k].resolved = IF at.status \notin Final THEN Never
                                ELSE IF queries[k].resolved = Never THEN at.start
                                ELSE queries[k].resolved
  BY <1>0, DecideWrites
<1>2. UNCHANGED Protocol
  BY DEF Decide, Protocol, Utterance, Said
<1>3. PICK was, is : was = queries[k].resolved /\ is = queries'[k].resolved
  OBVIOUS
<1>4. k \in QueryIds /\ TicketBook[k] # NoQuery /\ TicketBook[k].settled = was
  <2>1. k \in QueryIds /\ TicketOf(k) # NoQuery
    BY <1>1, RaisedTicket DEF Raised
  <2>2. TicketOf(k).settled = was
    BY <1>1, <1>3 DEF TicketOf
  <2> QED
    BY <2>1, <2>2 DEF TicketBook
<1>5. TicketBook' = [TicketBook EXCEPT ![k].settled = is] /\ TicketBook'[k].settled = is
  <2>1. \A l \in QueryIds \ {k} : TicketOf(l)' = TicketOf(l)
    BY <1>1 DEF TicketOf
  <2>2. TicketOf(k)' = [TicketOf(k) EXCEPT !.settled = is] /\ TicketOf(k)'.settled = is
    BY <1>1, <1>3 DEF TicketOf
  <2> QED
    BY <1>4, <2>1, <2>2 DEF TicketBook
<1>6. CASE at.status \notin Final
  <2>1. Promise!Reopen(k)
    BY <1>1, <1>2, <1>3, <1>4, <1>5, <1>6 DEF Promise!Reopen
  <2> QED
    BY <1>4, <2>1 DEF Promise!Next
<1>7. CASE at.status \in Final /\ was = Never
  <2>1. is \in Times
    BY <1>1, <1>3, <1>7 DEF Deciding
  <2>2. Promise!Settle(k)
    BY <1>2, <1>4, <1>5, <1>7, <2>1 DEF Promise!Settle
  <2> QED
    BY <1>4, <2>2 DEF Promise!Next
<1>8. CASE at.status \in Final /\ was # Never
  <2>1. is = was
    BY <1>1, <1>3, <1>8
  <2>2. \A l \in QueryIds : TicketOf(l)' = TicketOf(l)
    BY <1>1, <1>3, <2>1 DEF TicketOf
  <2> QED
    BY <1>2, <2>2 DEF TicketBook
<1> QED
  BY <1>6, <1>7, <1>8

\* Requests that overlap, wait and are cut short keep the promise of a ticket.
THEOREM ThreadKeepsPromise == Spec => KeepsPromise
<1>1. Init => Promise!Init
  BY DEF Init, Promise!Init, TicketBook, TicketOf, Raised, Protocol, Utterance, Said
<1>2. ThreadInv /\ [Next]_vars => [Promise!Next]_<<TicketBook, Protocol>>
  <2> SUFFICES ASSUME ThreadInv, [Next]_vars
               PROVE  Promise!Next \/ UNCHANGED <<TicketBook, Protocol>>
    OBVIOUS
  <2>1. CASE UNCHANGED <<queries, messages>>
    BY <2>1 DEF TicketBook, TicketOf, Raised, Protocol, Utterance, Said
  <2>2. ASSUME NEW c \in Calls, Commit(c) \/ Decide(c)
        PROVE  Promise!Next \/ UNCHANGED <<TicketBook, Protocol>>
    BY <2>2, CommitPromised, DecidePromised, QueryThreadAssumption, NoRowAssumption
  <2> QED
    BY <2>1, <2>2 DEF Next, Ask, Proceed, Create, AddMessage, SetStatus, InsertOpening, Touch,
                      Leave, Tick, vars
<1> QED
  BY <1>1, <1>2, ThreadAlways, PTL DEF Spec, KeepsPromise, Promise!Spec
=============================================================================
