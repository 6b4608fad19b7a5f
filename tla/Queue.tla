------------------------------- MODULE Queue -------------------------------
(***************************************************************************)
(* The blocking queue of indexer/queue.c, as operators on its contents and *)
(* on the program counters of the threads that use it.                     *)
(*                                                                         *)
(* Every queue function runs with the queue's mutex held, so a push, an    *)
(* attempt to pop, a count and a close are each one step.  The condition   *)
(* variable is kept in the program counters: a thread inside               *)
(* pthread_cond_wait is "waiting", and one that was woken but has not yet  *)
(* got the mutex back is "woken".  queue_pop tries twice, before and after *)
(* the wait: a woken thread that finds nothing returns NULL.               *)
(***************************************************************************)
EXTENDS Naturals, Sequences

\* The threads of the set T that are inside pthread_cond_wait.
Waiters(pcs, T) == {t \in T : pcs[t] = "waiting"}

\* Faulty form: queue_push forgets to signal.
SignalNobody(pcs, T) == {pcs}

\* pthread_cond_signal: one waiter, if there is any, is on its way to the mutex.
\* The possible program counters after the call.
Signal(pcs, T) ==
    IF Waiters(pcs, T) = {} THEN {pcs}
    ELSE {[pcs EXCEPT ![t] = "woken"] : t \in Waiters(pcs, T)}

\* Faulty form: queue_close forgets to wake the waiters.
BroadcastNobody(pcs, T) == pcs

\* pthread_cond_broadcast: every waiter is.
Broadcast(pcs, T) ==
    [t \in DOMAIN pcs |-> IF t \in Waiters(pcs, T) THEN "woken" ELSE pcs[t]]

\* queue_push on the queue q, called name among the queues, of which closedQs
\* are closed: a closed queue refuses the item (and every caller ignores that),
\* an open one gets it at its tail.
Push(q, item, name, closedQs) == IF name \in closedQs THEN q ELSE Append(q, item)

\* The waiters' side of queue_push: only a push that is accepted signals.
PushSignal(pcs, T, name, closedQs) == IF name \in closedQs THEN {pcs} ELSE Signal(pcs, T)

\* One attempt of queue_pop (without Q_FORCE) finds an item to take.
CanPop(q, name, closedQs) == name \notin closedQs /\ q # <<>>
=============================================================================
