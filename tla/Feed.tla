-------------------------------- MODULE Feed --------------------------------
(***************************************************************************)
(* What the firehose promises a consumer, whatever the server does to      *)
(* provide it: a log of numbered events that only grows at its end, from   *)
(* which all but the newest may be withdrawn, and subscriptions that move  *)
(* through it without passing over an event that is still there.           *)
(***************************************************************************)
EXTENDS Naturals

CONSTANTS Consumers,
          Seqs          \* the sequence numbers there are

VARIABLES log,          \* events that can be read
          withdrawn,    \* events that no longer can
          following,    \* consumers with a subscription
          at,           \* the position of each subscription, 0 without one
          got           \* what has arrived on it, {} without one

vars == <<log, withdrawn, following, at, got>>

Published == log \union withdrawn

Newest == IF log = {} THEN 0 ELSE CHOOSE m \in log : \A s \in log : s <= m

Init ==
    /\ log = {} /\ withdrawn = {}
    /\ following = {}
    /\ at = [c \in Consumers |-> 0]
    /\ got = [c \in Consumers |-> {}]

\* A number is used once, and numbers ascend.
Publish(s) ==
    /\ \A p \in Published : p < s
    /\ log' = log \union {s}
    /\ UNCHANGED <<withdrawn, following, at, got>>

\* The newest event is never taken back.
Withdraw ==
    /\ log' \in SUBSET log /\ log' # log
    /\ Newest \in log'
    /\ withdrawn' = withdrawn \union (log \ log')
    /\ UNCHANGED <<following, at, got>>

\* From any position that has been reached, never from one still to come.
Subscribe(c) ==
    /\ c \notin following
    /\ following' = following \union {c}
    /\ \E p \in 0..Newest : at' = [at EXCEPT ![c] = p]
    /\ UNCHANGED <<log, withdrawn, got>>

\* The next event; one withdrawn a moment ago may still arrive.
Deliver(c) ==
    /\ c \in following
    /\ \E s \in Published :
          /\ at[c] < s
          /\ \A q \in log : at[c] < q => s <= q
          /\ at' = [at EXCEPT ![c] = s]
          /\ got' = [got EXCEPT ![c] = @ \union {s}]
    /\ UNCHANGED <<log, withdrawn, following>>

\* Subscriptions end, alone or with the server.
End ==
    /\ following' \in SUBSET following /\ following' # following
    /\ at' = [c \in Consumers |-> IF c \in following' THEN at[c] ELSE 0]
    /\ got' = [c \in Consumers |-> IF c \in following' THEN got[c] ELSE {}]
    /\ UNCHANGED <<log, withdrawn>>

\* The server starts again from nothing, while nobody is subscribed.
StartAgain ==
    /\ following = {}
    /\ log' = {} /\ withdrawn' = {}
    /\ UNCHANGED <<following, at, got>>

Next ==
    \/ \E s \in Seqs : Publish(s)
    \/ \E c \in Consumers : Subscribe(c) \/ Deliver(c)
    \/ Withdraw \/ End \/ StartAgain

Spec == Init /\ [][Next]_vars
=============================================================================
