---------------------------- MODULE BoundedQueue ----------------------------
(***************************************************************************)
(* The queue between the multicast receive tasks and the connection worker *)
(* (tokio-quiche/src/multicast/bounded_queue.rs, used as ingress queue by  *)
(* client.rs).  Every item holds a permit on a number of items and bytes   *)
(* from admission until the worker has processed it; a task that finds no  *)
(* room waits.  Tasks and worker run on several threads: a step is what    *)
(* happens under one lock, or one call of tokio's Notify or mpsc channel.  *)
(*                                                                         *)
(* The statistics, which nothing reads back, are left out, and so are the  *)
(* items' contents: an item is its size.                                   *)
(***************************************************************************)
EXTENDS Integers, Sequences, FiniteSets, SequencesExt, FiniteSetsExt

CONSTANTS Senders,             \* tasks with a clone of the BoundedSender
          Patient,             \* those that call send(); the others call try_send()
          max_items, max_retained_bytes,
          Sizes,               \* sizes of the items sent
          MaxCalls             \* bound on the calls of send() and try_send()

ASSUME QueueAssumption ==      \* RetainedQueueLimits::validate
  /\ max_items \in Nat \ {0} /\ max_retained_bytes \in Nat \ {0}
  /\ Patient \subseteq Senders /\ Sizes \subseteq Nat /\ MaxCalls \in Nat

VARIABLES
  task,            \* where each task is, and the size of its item
  calls,           \* the number of calls so far
  retained_items, retained_bytes,   \* QueueState
  channel,         \* the items in the mpsc channel
  staged,          \* the worker's pending_ingress
  closed,          \* the channel's receiver was closed
  closing,         \* close() has still to notify the waiters
  releases,        \* permits dropped whose notify_one() is still to come
  permit,          \* Notify: a stored notification
  waiters,         \* Notify: registered tasks, in order
  swept            \* tasks whose Notified a notify_waiters() completed

stateVars == <<retained_items, retained_bytes>>
notifyVars == <<permit, waiters, swept>>
workVars == <<channel, staged, closed, closing>>
vars == <<task, calls, stateVars, workVars, releases, notifyVars>>

Idle == [at |-> "idle", size |-> 0]

Init ==
  /\ task = [s \in Senders |-> Idle]
  /\ calls = 0
  /\ retained_items = 0 /\ retained_bytes = 0
  /\ channel = <<>> /\ staged = <<>>
  /\ closed = FALSE /\ closing = FALSE
  /\ releases = 0
  /\ permit = FALSE /\ waiters = <<>> /\ swept = {}

At(s, places) == task[s].at \in places

Goto(s, place) == task' = [task EXCEPT ![s].at = place]
Return(s) == task' = [task EXCEPT ![s] = Idle]

-----------------------------------------------------------------------------
(* tokio::sync::Notify, as the code uses it.                               *)

\* The first waiter is woken; without one the notification is stored.
Wake(tasks) ==
  IF waiters = <<>> THEN permit' = TRUE /\ task' = tasks /\ UNCHANGED waiters
  ELSE /\ task' = [tasks EXCEPT ![Head(waiters)].at = "notified"]
       /\ waiters' = Tail(waiters)
       /\ UNCHANGED permit

Forget(s) == waiters' = Remove(waiters, s)

-----------------------------------------------------------------------------
(* Permits.                                                                *)

\* Slip: only the items are counted.
Room_ItemsOnly(n) == retained_items < max_items

Room(n) ==
  retained_items < max_items /\ retained_bytes + n <= max_retained_bytes

\* Slip: the permit is dropped without telling those who wait.
Release_Silent(n) ==
  /\ retained_items' = Max({retained_items - 1, 0})
  /\ retained_bytes' = Max({retained_bytes - n, 0})
  /\ UNCHANGED releases

\* Drop of QueuePermit: the lock is left before notify_one() is called.
Release(n) ==
  /\ retained_items' = Max({retained_items - 1, 0})
  /\ retained_bytes' = Max({retained_bytes - n, 0})
  /\ releases' = releases + 1

NotifyReleased ==
  /\ releases > 0
  /\ releases' = releases - 1
  /\ Wake(task)
  /\ UNCHANGED <<calls, stateVars, workVars, swept>>

-----------------------------------------------------------------------------
(* send() and try_send().                                                  *)

\* send() creates its Notified before it looks for room.
Start(s, n) ==
  /\ At(s, {"idle"})
  /\ calls < MaxCalls
  /\ calls' = calls + 1
  /\ task' = [task EXCEPT ![s] = [at |-> "checking", size |-> n]]
  /\ swept' = swept \ {s}
  /\ UNCHANGED <<stateVars, workVars, releases, permit, waiters>>

\* wrap() and reserve(): an item that could never fit, and for try_send() one
\* that does not fit now, is handed back.
Wrap(s) ==
  /\ At(s, {"checking"})
  /\ \/ /\ task[s].size <= max_retained_bytes /\ Room(task[s].size)
        /\ retained_items' = retained_items + 1
        /\ retained_bytes' = retained_bytes + task[s].size
        /\ Goto(s, "admitted")
     \/ /\ task[s].size <= max_retained_bytes /\ ~Room(task[s].size)
        /\ IF s \in Patient THEN Goto(s, "full") ELSE Return(s)
        /\ UNCHANGED stateVars
     \/ /\ task[s].size > max_retained_bytes
        /\ Return(s)
        /\ UNCHANGED stateVars
  /\ UNCHANGED <<calls, workVars, releases, notifyVars>>

\* The first poll of the select!: a stored notification, or one for all, sends
\* the task back to look for room, with a new Notified.
PollReady(s) ==
  /\ At(s, {"full"})
  /\ permit \/ s \in swept
  /\ permit' = FALSE
  /\ swept' = swept \ {s}
  /\ Goto(s, "checking")
  /\ UNCHANGED <<calls, stateVars, workVars, releases, waiters>>

PollWait(s) ==
  /\ At(s, {"full"})
  /\ ~permit /\ s \notin swept
  /\ waiters' = Append(waiters, s)
  /\ Goto(s, "waiting")
  /\ UNCHANGED <<calls, stateVars, workVars, releases, permit, swept>>

Resume(s) ==
  /\ At(s, {"notified", "swept"})
  /\ swept' = swept \ {s}
  /\ Goto(s, "checking")
  /\ UNCHANGED <<calls, stateVars, workVars, releases, permit, waiters>>

\* The select! ends: the other branch, closed(), is ready or the task is
\* aborted.  A Notified dropped between being woken and being polled passes
\* the notification on.
Leave(s) ==
  /\ \/ At(s, {"full"}) /\ closed
     \/ At(s, {"waiting", "notified", "swept"})
  /\ IF At(s, {"notified"}) THEN Wake([task EXCEPT ![s] = Idle])
     ELSE Return(s) /\ Forget(s) /\ UNCHANGED permit
  /\ UNCHANGED <<calls, stateVars, workVars, releases, swept>>

\* The channel takes the item; it has room for all that are admitted.
Push(s) ==
  /\ At(s, {"admitted"})
  /\ ~closed
  /\ Len(channel) < max_items
  /\ channel' = Append(channel, task[s].size)
  /\ Return(s)
  /\ UNCHANGED <<calls, stateVars, staged, closed, closing, releases, notifyVars>>

\* The channel is closed, or the task is aborted before the channel took the
\* item: the item is dropped with its permit.
Abandon(s) ==
  /\ At(s, {"admitted"})
  /\ Release(task[s].size)
  /\ Return(s)
  /\ UNCHANGED <<calls, workVars, notifyVars>>

-----------------------------------------------------------------------------
(* The worker.                                                             *)

\* transfer_one_ingress() and wait_for_ingress_or_key_expiry(): the permit goes
\* with the item.
Transfer ==
  /\ channel # <<>>
  /\ staged' = Append(staged, Head(channel))
  /\ channel' = Tail(channel)
  /\ UNCHANGED <<task, calls, stateVars, closed, closing, releases, notifyVars>>

\* process_one_ingress(): into_inner() drops the permit.
Process ==
  /\ staged # <<>>
  /\ staged' = Tail(staged)
  /\ Release(Head(staged))
  /\ UNCHANGED <<task, calls, channel, closed, closing, notifyVars>>

\* close(), and afterwards its notify_waiters().
Close ==
  /\ ~closed
  /\ closed' = TRUE /\ closing' = TRUE
  /\ UNCHANGED <<task, calls, stateVars, channel, staged, releases, notifyVars>>

Sweep ==
  /\ closing
  /\ closing' = FALSE
  /\ task' = [s \in Senders |->
                IF At(s, {"waiting"}) THEN [task[s] EXCEPT !.at = "swept"] ELSE task[s]]
  /\ waiters' = <<>>
  /\ swept' = {s \in Senders : At(s, {"checking", "full"})}
  /\ UNCHANGED <<calls, stateVars, channel, staged, closed, releases, permit>>

Next ==
  \/ \E s \in Senders :
       \/ \E n \in Sizes : Start(s, n)
       \/ Wrap(s) \/ PollReady(s) \/ PollWait(s) \/ Resume(s) \/ Leave(s)
       \/ Push(s) \/ Abandon(s)
  \/ NotifyReleased \/ Transfer \/ Process \/ Close \/ Sweep

\* The runtime polls a task that was woken, the worker's loop serves the queue
\* while it is not empty, and a call that has begun returns.  Nobody is bound
\* to close the queue, and no task is bound to be aborted.
Fairness ==
  /\ \A s \in Senders :
       /\ WF_vars(Wrap(s)) /\ WF_vars(PollReady(s) \/ PollWait(s)) /\ WF_vars(Resume(s))
       /\ WF_vars(closed /\ Leave(s))
       /\ WF_vars(Push(s)) /\ WF_vars(closed /\ Abandon(s))
  /\ WF_vars(NotifyReleased) /\ WF_vars(Transfer) /\ WF_vars(Process) /\ WF_vars(Sweep)

Spec == Init /\ [][Next]_vars /\ Fairness

-----------------------------------------------------------------------------
Admitted == {s \in Senders : At(s, {"admitted"})}

\* The permits account for every item from admission to processing, on
\* whichever thread it is, never exceed the limits, and leave room in the
\* channel for each item that was admitted (an admitted item never waits for
\* the channel, and try_send() never finds it full).
RetainedLedger ==
  /\ retained_items = Len(channel) + Len(staged) + Cardinality(Admitted)
  /\ retained_bytes = FoldLeft(LAMBDA a, n : a + n, 0, channel \o staged)
                        + MapThenSumSet(LAMBDA s : task[s].size, Admitted)
  /\ retained_items <= max_items /\ retained_bytes <= max_retained_bytes

\* No task waits for ever: whoever called send() is admitted or leaves, although
\* a release wakes one task only, which may not fit, be aborted, or find the
\* room taken by a try_send() that never waited.
SendersFinish == \A s \in Senders : ~At(s, {"idle"}) ~> At(s, {"idle"})
=============================================================================
