---------------------------- MODULE CapturePromise ----------------------------
(***************************************************************************)
(* What the offline capture queue promises to those who hand it captures:  *)
(* a capture it has taken is owed to its account until the backend has it, *)
(* or until it is given up, either to make room for a later capture of the *)
(* same account or because it was too old or unreadable.  There is nothing *)
(* here about processes, files, timers or requests: a crash, a lost answer *)
(* and a write that fails are no steps of the promise, so that an          *)
(* implementation in which one of them changes what is owed breaks it.     *)
(***************************************************************************)
CONSTANTS Accounts, Captures

VARIABLES
    owed,      \* [account]: captures taken that the backend is still to get
    recorded,  \* captures taken that the backend has
    forgone    \* captures taken that were given up before the backend had them

promiseVars == <<owed, recorded, forgone>>

Taken == (UNION {owed[a] : a \in Accounts}) \cup recorded \cup forgone

Init ==
    /\ owed = [a \in Accounts |-> {}]
    /\ recorded = {}
    /\ forgone = {}

\* A capture is taken; it, or older ones of its account, may not fit.
Take(a, c) ==
    /\ c \notin Taken
    /\ \E gone \in SUBSET (owed[a] \cup {c}) :
         /\ owed' = [owed EXCEPT ![a] = (@ \cup {c}) \ gone]
         /\ forgone' = forgone \cup gone
    /\ UNCHANGED recorded

\* A load or a refused capture may cost an account some of what it is owed.
Forgo(a) ==
    /\ owed[a] # {}
    /\ \E gone \in (SUBSET owed[a]) \ {{}} :
         /\ owed' = [owed EXCEPT ![a] = @ \ gone]
         /\ forgone' = forgone \cup gone
    /\ UNCHANGED recorded

\* The backend gets captures of one account.  What was given up may reach it
\* all the same: a request that carries it may be on its way.
HandOver(a) ==
    /\ \E sent \in (SUBSET (owed[a] \cup forgone)) \ {{}} :
         /\ owed' = [owed EXCEPT ![a] = @ \ sent]
         /\ recorded' = recorded \cup sent
         /\ forgone' = forgone \ sent

Next ==
    \E a \in Accounts :
        \/ \E c \in Captures : Take(a, c)
        \/ Forgo(a)
        \/ HandOver(a)

Spec == Init /\ [][Next]_promiseVars
=============================================================================
