----------------------------- MODULE Lifecycle ------------------------------
(***************************************************************************)
(* One user's way through an on-chain operation, the same for every        *)
(* product: runLifecycleAction in the web application asks the backend to  *)
(* build a transaction, has the wallet sign it, has the backend broadcast  *)
(* it, and then posts a confirmation until the backend answers.  The       *)
(* modules of the products say what is built, what the chain accepts and   *)
(* what a confirmation writes; this one says what the user's side does,    *)
(* and what becomes of a request when the server restarts or an answer is  *)
(* lost: a confirmation is then posted again, whether or not it was done.  *)
(***************************************************************************)
EXTENDS Naturals, Sequences

CONSTANTS Clients,  \* the users, each in one operation at a time
          NoTx,     \* model value: the user has no transaction
          MaxTries  \* posts of one confirmation (6 in the code)

VARIABLE client  \* per user: the transaction, where it is, and what the
                 \* confirmation handler has still to write

Idle == [at |-> "idle", tx |-> NoTx, todo |-> <<>>, tries |-> 0]

LifecycleInit == client = [c \in Clients |-> Idle]

At(c, place) == client[c].at = place

\* The backend has built tx, the wallet is asked to sign it.
Sign(c, tx) == /\ At(c, "idle")
               /\ client' = [client EXCEPT ![c].at = "signing", ![c].tx = tx]

\* The user declines, or closes the page.
Refuse(c) == At(c, "signing") /\ client' = [client EXCEPT ![c] = Idle]

\* The signed transaction reaches the network.  A rejected one ends the operation
\* with an error, and so does a lost answer: the page then never confirms.
Rejected(c) == At(c, "signing") /\ client' = [client EXCEPT ![c] = Idle]
Broadcast(c) == /\ At(c, "signing")
                /\ client' \in {[client EXCEPT ![c].at = "waiting"], [client EXCEPT ![c] = Idle]}

\* The confirmation arrives, passes its checks, and starts to write.
Confirm(c, statements) == /\ At(c, "waiting")
                          /\ client' = [client EXCEPT ![c].at = "running", ![c].todo = statements]

\* A check of the confirmation, or its next statement, fails for good.
Refused(c) == client' = [client EXCEPT ![c] = Idle]

\* The handler's next database statement is s.
Due(c, s) == At(c, "running") /\ client[c].todo # <<>> /\ Head(client[c].todo) = s
Written(c) == client' = [client EXCEPT ![c].todo = Tail(@)]

Answer(c) == /\ At(c, "running")
             /\ client[c].todo = <<>>
             /\ client' = [client EXCEPT ![c] = Idle]

\* The server restarts under the handler, or its answer is lost on the way: the
\* page posts the confirmation again, and gives up after MaxTries.
Lose(c) == /\ At(c, "running")
           /\ client' = [client EXCEPT ![c] =
                IF client[c].tries + 1 < MaxTries
                THEN [at |-> "waiting", tx |-> @.tx, todo |-> <<>>, tries |-> @.tries + 1]
                ELSE Idle]
=============================================================================
