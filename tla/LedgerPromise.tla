----------------------------- MODULE LedgerPromise -----------------------------
(***************************************************************************)
(* What the society fund promises its owners, without requests, statements *)
(* or tenants: a book in which a line, once posted, stays as it is, and    *)
(* can be undone by a line that mirrors it.  An undoing line is final.     *)
(* Undoing takes two steps: a clerk claims a line that nobody has undone,  *)
(* and then undoes it.  Claims do not exclude each other, so this much and *)
(* no more is promised: once a line is undone, nobody claims it again.     *)
(***************************************************************************)
EXTENDS Naturals

CONSTANTS Lines,     \* line numbers
          NoLine,    \* not a line
          Clerks,
          Accounts   \* what a line is booked under: society and head

VARIABLES book,      \* what is posted
          undoes,    \* the pairs <<undoing line, undone line>>
          claims     \* per clerk: the line about to be undone

Postings == [account: Accounts, credit: Nat, debit: Nat]

Posted == {l \in Lines : book[l] # NoLine}

Init ==
    /\ book = [l \in Lines |-> NoLine]
    /\ undoes = {}
    /\ claims = [c \in Clerks |-> NoLine]

Post(l) ==
    /\ l \notin Posted
    /\ book'[l] \in Postings
    /\ (book'[l].credit > 0) # (book'[l].debit > 0)
    /\ book' = [book EXCEPT ![l] = book'[l]]
    /\ UNCHANGED <<undoes, claims>>

\* u has not been undone and is not itself an undoing.
Claim(c, u) ==
    /\ u \in Posted
    /\ \A pair \in undoes : u # pair[1] /\ u # pair[2]
    /\ claims' = [claims EXCEPT ![c] = u]
    /\ UNCHANGED <<book, undoes>>

Drop(c) ==
    /\ claims' = [claims EXCEPT ![c] = NoLine]
    /\ UNCHANGED <<book, undoes>>

\* l undoes what c has claimed.
Undo(l, c) ==
    LET u == claims[c]
    IN  /\ l \notin Posted
        /\ u \in Posted
        /\ book' = [book EXCEPT ![l] = [account |-> book[u].account,
                                        credit  |-> book[u].debit,
                                        debit   |-> book[u].credit]]
        /\ undoes' = undoes \cup {<<l, u>>}
        /\ claims' = [claims EXCEPT ![c] = NoLine]

Next ==
    \/ \E l \in Lines : Post(l) \/ \E c \in Clerks : Undo(l, c)
    \/ \E c \in Clerks : Drop(c) \/ \E u \in Lines : Claim(c, u)

Spec == Init /\ [][Next]_<<book, undoes, claims>>
=============================================================================
