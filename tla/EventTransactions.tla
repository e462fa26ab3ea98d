------------------------- MODULE EventTransactions -------------------------
(***************************************************************************)
(* EventTransactionManager of src/event_transaction.rs, publishing on the  *)
(* bus of module EventBus.                                                 *)
(*                                                                         *)
(* Every operation holds the write lock of active_transactions from its    *)
(* first statement to its last, through the publications of a commit or a  *)
(* rollback, so the lock is the variable holder, and an operation that     *)
(* publishes nothing is one action.  The exception is                      *)
(* process_event_transactionally when a handler rejects the event: it      *)
(* marks the transaction Failed, releases the lock, and only then calls    *)
(* rollback_transaction, which has to get the lock again; another client   *)
(* may come first.                                                         *)
(*                                                                         *)
(* A call refused because the transaction is unknown or not active changes *)
(* nothing and is not an action.  The handlers are the one of the module   *)
(* (TestExecutionTransactionHandler) and others, which may reject any      *)
(* event before or after it and may fail to roll back.                     *)
(***************************************************************************)
EXTENDS EventBus

CONSTANTS Transactions,  \* identifiers begin_transaction may return
          MaxEvents,     \* bound on the events of a transaction
          Kinds,         \* kinds of events a client processes
          NoClient       \* the lock is free

\* The i-th event of a transaction, and the i-th of its rollback events.
Event(t, i) == <<t, i, "event">>
RollbackEvent(t, i) == <<t, i, "rollback">>

\* Only events that start a suite or a test case get a rollback event.
Started == "started"

ASSUME TransactionAssumption ==
    /\ MaxEvents \in Nat
    /\ Events = Transactions \X (1..MaxEvents) \X {"event", "rollback"}
    /\ Started \in Kinds
    /\ NoClient \notin Publishers

VARIABLES state,      \* state of each transaction; the last two left the map
          events,     \* number of events of each transaction
          rollbacks,  \* number of rollback events of each transaction
          holder,     \* the client that holds the write lock
          client,     \* the operation each client is inside, and how far it is
          undone,     \* how often the handlers' rollback ran for a transaction
          errors      \* the transactions whose rollback had an error

txVars == <<state, events, rollbacks, holder, client, undone, errors>>
allVars == <<busVars, txVars>>

Idle == [op |-> "idle"]
Free == holder = NoClient

-----------------------------------------------------------------------------
begin_transaction(c, t) ==
    /\ client[c] = Idle /\ Free
    /\ state[t] = "none"
    /\ state' = [state EXCEPT ![t] = "active"]
    /\ UNCHANGED <<busVars, events, rollbacks, holder, client, undone, errors>>

\* Broken variant: the client returns the error and forgets the transaction.
process_event_no_rollback(c, t, kind) ==
    /\ client[c] = Idle /\ Free
    /\ state[t] = "active"
    /\ events[t] < MaxEvents
    /\ events' = [events EXCEPT ![t] = @ + 1]
    /\ state' \in {state, [state EXCEPT ![t] = "failed"]}
    /\ UNCHANGED <<busVars, rollbacks, holder, client, undone, errors>>

\* The handlers run in turn: the rollback event is added when the module's handler
\* is reached, and any handler may reject the event.
process_event_transactionally(c, t, kind) ==
    /\ client[c] = Idle /\ Free
    /\ state[t] = "active"
    /\ events[t] < MaxEvents
    /\ events' = [events EXCEPT ![t] = @ + 1]
    /\ LET added == IF kind = Started THEN 1 ELSE 0
       IN  \/ /\ rollbacks' = [rollbacks EXCEPT ![t] = @ + added]
              /\ UNCHANGED <<state, client>>
           \/ /\ \E n \in {0, added} : rollbacks' = [rollbacks EXCEPT ![t] = @ + n]
              /\ state' = [state EXCEPT ![t] = "failed"]
              /\ client' = [client EXCEPT ![c] = [op |-> "rejected", tx |-> t]]
    /\ UNCHANGED <<busVars, holder, undone, errors>>

(***************************************************************************)
(* commit_transaction                                                      *)
(***************************************************************************)
\* Broken variants: a failed transaction may be committed; the loop starts one
\* event too early.
commit_transaction_unchecked(c, t) ==
    /\ client[c] = Idle /\ Free
    /\ state[t] \in {"active", "failed"}
    /\ holder' = c
    /\ client' = [client EXCEPT ![c] = [op |-> "commit", tx |-> t, at |-> 1]]
    /\ UNCHANGED <<busVars, state, events, rollbacks, undone, errors>>

commit_transaction(c, t) ==
    /\ client[c] = Idle /\ Free
    /\ state[t] = "active"
    /\ holder' = c
    /\ client' = [client EXCEPT ![c] = [op |-> "commit", tx |-> t, at |-> 1]]
    /\ UNCHANGED <<busVars, state, events, rollbacks, undone, errors>>

Committing(c) == client[c].op = "commit"

commit_store(c) ==
    /\ Committing(c)
    /\ client[c].at <= events[client[c].tx]
    /\ store_event(c, Event(client[c].tx, client[c].at))
    /\ UNCHANGED txVars

\* Broken variant: the commit goes on with the next event.
commit_skips(c) ==
    /\ Committing(c)
    /\ client[c].at <= events[client[c].tx]
    /\ store_fails(c, Event(client[c].tx, client[c].at))
    /\ client' = [client EXCEPT ![c].at = @ + 1]
    /\ UNCHANGED <<state, events, rollbacks, holder, undone, errors>>

\* The store fails: `?` returns the error, and the transaction stays active.
commit_aborts(c) ==
    /\ Committing(c)
    /\ client[c].at <= events[client[c].tx]
    /\ store_fails(c, Event(client[c].tx, client[c].at))
    /\ holder' = NoClient
    /\ client' = [client EXCEPT ![c] = Idle]
    /\ UNCHANGED <<state, events, rollbacks, undone, errors>>

commit_send(c) ==
    /\ Committing(c)
    /\ send(c)
    /\ client' = [client EXCEPT ![c].at = @ + 1]
    /\ UNCHANGED <<state, events, rollbacks, holder, undone, errors>>

\* Broken variant: the last event is not published.
commit_done_early(c) ==
    /\ Committing(c)
    /\ publishing[c] = NoEvent
    /\ client[c].at >= events[client[c].tx]
    /\ state' = [state EXCEPT ![client[c].tx] = "committed"]
    /\ holder' = NoClient
    /\ client' = [client EXCEPT ![c] = Idle]
    /\ UNCHANGED <<busVars, events, rollbacks, undone, errors>>

commit_done(c) ==
    /\ Committing(c)
    /\ publishing[c] = NoEvent
    /\ client[c].at > events[client[c].tx]
    /\ state' = [state EXCEPT ![client[c].tx] = "committed"]
    /\ holder' = NoClient
    /\ client' = [client EXCEPT ![c] = Idle]
    /\ UNCHANGED <<busVars, events, rollbacks, undone, errors>>

(***************************************************************************)
(* rollback_transaction, called by a client or after a rejected event.     *)
(* It does not ask whether the transaction is active.  The handlers are    *)
(* rolled back first; their errors are collected.                          *)
(***************************************************************************)
rollback_transaction(c, t) ==
    /\ \/ client[c] = Idle
       \/ client[c] = [op |-> "rejected", tx |-> t]
    /\ Free
    /\ state[t] \in {"active", "failed"}
    /\ holder' = c
    /\ client' = [client EXCEPT ![c] = [op |-> "rollback", tx |-> t, at |-> 1]]
    /\ undone' = [undone EXCEPT ![t] = @ + 1]
    /\ errors' \in {errors, errors \cup {t}}
    /\ UNCHANGED <<busVars, state, events, rollbacks>>

\* Broken variant: the handlers are rolled back before the transaction is looked up.
rollback_not_found_late(c) ==
    /\ client[c].op = "rejected"
    /\ Free
    /\ state[client[c].tx] \notin {"active", "failed"}
    /\ client' = [client EXCEPT ![c] = Idle]
    /\ undone' = [undone EXCEPT ![client[c].tx] = @ + 1]
    /\ UNCHANGED <<busVars, state, events, rollbacks, holder, errors>>

\* The failed transaction was rolled back by another client in the meantime.
rollback_not_found(c) ==
    /\ client[c].op = "rejected"
    /\ Free
    /\ state[client[c].tx] \notin {"active", "failed"}
    /\ client' = [client EXCEPT ![c] = Idle]
    /\ UNCHANGED <<busVars, state, events, rollbacks, holder, undone, errors>>

RollingBack(c) == client[c].op = "rollback"

rollback_store(c) ==
    /\ RollingBack(c)
    /\ client[c].at <= rollbacks[client[c].tx]
    /\ store_event(c, RollbackEvent(client[c].tx, client[c].at))
    /\ UNCHANGED txVars

\* Broken variant: the error is not noted.
rollback_store_fails_silently(c) ==
    /\ RollingBack(c)
    /\ client[c].at <= rollbacks[client[c].tx]
    /\ store_fails(c, RollbackEvent(client[c].tx, client[c].at))
    /\ client' = [client EXCEPT ![c].at = @ + 1]
    /\ UNCHANGED <<state, events, rollbacks, holder, undone, errors>>

\* An error is noted and the loop goes on with the next rollback event.
rollback_store_fails(c) ==
    /\ RollingBack(c)
    /\ client[c].at <= rollbacks[client[c].tx]
    /\ store_fails(c, RollbackEvent(client[c].tx, client[c].at))
    /\ client' = [client EXCEPT ![c].at = @ + 1]
    /\ errors' = errors \cup {client[c].tx}
    /\ UNCHANGED <<state, events, rollbacks, holder, undone>>

rollback_send(c) ==
    /\ RollingBack(c)
    /\ send(c)
    /\ client' = [client EXCEPT ![c].at = @ + 1]
    /\ UNCHANGED <<state, events, rollbacks, holder, undone, errors>>

rollback_done(c) ==
    /\ RollingBack(c)
    /\ publishing[c] = NoEvent
    /\ client[c].at > rollbacks[client[c].tx]
    /\ state' = [state EXCEPT ![client[c].tx] = "rolled_back"]
    /\ holder' = NoClient
    /\ client' = [client EXCEPT ![c] = Idle]
    /\ UNCHANGED <<busVars, events, rollbacks, undone, errors>>

\* cleanup_stale_transactions: the transactions of S are active and too old.  Their
\* handlers are rolled back; their rollback events are not published.
cleanup_stale_transactions(c, S) ==
    /\ client[c] = Idle /\ Free
    /\ S # {}
    /\ \A t \in S : state[t] = "active"
    /\ state' = [t \in Transactions |-> IF t \in S THEN "cleaned" ELSE state[t]]
    /\ undone' = [t \in Transactions |-> IF t \in S THEN undone[t] + 1 ELSE undone[t]]
    /\ UNCHANGED <<busVars, events, rollbacks, holder, client, errors>>
-----------------------------------------------------------------------------
TxInit ==
    /\ BusInit
    /\ state = [t \in Transactions |-> "none"]
    /\ events = [t \in Transactions |-> 0]
    /\ rollbacks = [t \in Transactions |-> 0]
    /\ holder = NoClient
    /\ client = [c \in Publishers |-> Idle]
    /\ undone = [t \in Transactions |-> 0]
    /\ errors = {}

\* What a call under way does next while it holds the lock.
Continue(c) ==
    \/ commit_store(c) \/ commit_aborts(c) \/ commit_send(c) \/ commit_done(c)
    \/ rollback_store(c) \/ rollback_store_fails(c) \/ rollback_send(c)
    \/ rollback_done(c)

\* The rest of a process_event_transactionally that released the lock.
Abandon(c) ==
    /\ client[c].op = "rejected"
    /\ rollback_transaction(c, client[c].tx) \/ rollback_not_found(c)

TxNext ==
    \E c \in Publishers :
        \/ \E t \in Transactions :
              \/ begin_transaction(c, t)
              \/ \E kind \in Kinds : process_event_transactionally(c, t, kind)
              \/ commit_transaction(c, t)
              \/ rollback_transaction(c, t)
        \/ \E S \in SUBSET Transactions : cleanup_stale_transactions(c, S)
        \/ Continue(c)
        \/ rollback_not_found(c)

TxSpec == TxInit /\ [][TxNext]_allVars

\* A call that was started is polled to its end, and tokio's RwLock serves writers
\* in order, so a client that asks for the lock gets it.
TxFairness ==
    \A c \in Publishers : WF_allVars(Continue(c)) /\ SF_allVars(Abandon(c))

TxFairSpec == TxSpec /\ TxFairness

-----------------------------------------------------------------------------
(***************************************************************************)
(* Properties                                                              *)
(***************************************************************************)
States == {"none", "active", "failed", "committed", "rolled_back", "cleaned"}

Calls == [op : {"idle"}]
         \cup [op : {"rejected"}, tx : Transactions]
         \cup [op : {"commit", "rollback"}, tx : Transactions, at : 1..MaxEvents + 1]

\* Type invariant of the transaction manager; the position of a publication loop
\* stays within the events of its transaction.
TxTypeOK ==
    /\ state \in [Transactions -> States]
    /\ events \in [Transactions -> 0..MaxEvents]
    /\ rollbacks \in [Transactions -> 0..MaxEvents]
    /\ \A t \in Transactions : rollbacks[t] <= events[t]
    /\ holder \in Publishers \cup {NoClient}
    /\ client \in [Publishers -> Calls]
    /\ undone \in [Transactions -> Nat]
    /\ errors \subseteq Transactions

\* A committed transaction is complete: all its events were broadcast, and neither
\* its handlers were rolled back nor a rollback event of it was broadcast.
CommittedIsComplete ==
    \A t \in Transactions : state[t] = "committed" =>
        /\ \A i \in 1..events[t] : In(Event(t, i), sent)
        /\ undone[t] = 0
        /\ \A i \in 1..MaxEvents : ~In(RollbackEvent(t, i), sent)

\* An event of a transaction is broadcast only after the one before it, through any
\* number of commits that fail halfway and are retried.
PublishedInOrder ==
    \A k \in DOMAIN sent, t \in Transactions, i \in 1..MaxEvents :
        sent[k] = Event(t, i + 1) => \E l \in 1..k - 1 : sent[l] = Event(t, i)

\* The handlers of a transaction are rolled back exactly once if it does not commit,
\* although a rejected event, another client and the cleanup may all try.
UndoneOnce ==
    \A t \in Transactions :
        undone[t] = IF \/ state[t] \in {"rolled_back", "cleaned"}
                       \/ \E c \in Publishers : RollingBack(c) /\ client[c].tx = t
                    THEN 1 ELSE 0

\* After a rejected event a transaction can only be rolled back, whoever gets the
\* lock between the rejection and the rollback: it is not committed, not cleaned
\* up, and none of its events is broadcast any more.
FailedStaysUnpublished ==
    [][\A t \in Transactions : state[t] = "failed" =>
          /\ state'[t] \in {"failed", "rolled_back"}
          /\ \A i \in 1..MaxEvents :
                 In(Event(t, i), sent') => In(Event(t, i), sent)]_allVars

\* A rollback that reported no error has broadcast every rollback event of the
\* transaction, and none is ever broadcast twice.
Compensated ==
    /\ \A t \in Transactions : state[t] = "rolled_back" /\ t \notin errors =>
           \A i \in 1..rollbacks[t] : In(RollbackEvent(t, i), sent)
    /\ \A t \in Transactions, i \in 1..MaxEvents, k, l \in DOMAIN sent :
           sent[k] = RollbackEvent(t, i) /\ sent[l] = RollbackEvent(t, i) => k = l

\* A transaction with a rejected event does not stay in the map for ever.
FailedEnds ==
    \A t \in Transactions : state[t] = "failed" ~> state[t] = "rolled_back"

\* "Event transactions provide atomicity": a transaction that was rolled back or
\* cleaned up has published none of its events.
AtomicPublication ==
    \A t \in Transactions : state[t] \in {"rolled_back", "cleaned"} =>
        \A i \in 1..MaxEvents : ~In(Event(t, i), sent)
=============================================================================
