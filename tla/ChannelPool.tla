---------------------------- MODULE ChannelPool ----------------------------
(***************************************************************************)
(* The pool of broker channels of crates/mq/src/pool.rs (PoolState): tasks *)
(* take a value, wait for one when max_values are live, and return it.     *)
(* Every operation runs under the pool's mutex up to its await; a task may *)
(* drop its take_value future at any await.  Values are told apart by      *)
(* nothing the pool does, so they are counted.                             *)
(***************************************************************************)
EXTENDS Naturals, Sequences, FiniteSets

CONSTANTS
  Tasks,              \* callers of take_value and return_value
  max_values,         \* PoolStateInner.max_values
  min_values,         \* connected by PoolState::new
  max_pooled_values,  \* PoolStateInner.max_pooled_values
  MaxQueue,           \* bound: length of the waiter queue
  Gone                \* a oneshot sender whose receiver was dropped

ASSUME PoolAssumption ==
  /\ IsFiniteSet(Tasks)
  /\ max_values \in Nat
  /\ min_values \in Nat
  /\ max_pooled_values \in Nat
  /\ MaxQueue \in Nat
  /\ Gone \notin Tasks

VARIABLES
  num_live_values,  \* PoolStateInner.num_live_values
  pooled_values,    \* how many values lie in the pool
  waiters,          \* the oneshot senders, oldest first
  task,             \* where each task stands
  leaked            \* history: values counted as live that nobody has

vars == <<num_live_values, pooled_values, waiters, task, leaked>>

-----------------------------------------------------------------------------
TaskState == {"idle", "connecting", "waiting", "granted", "holding"}
SetTask(t, s) == task' = [task EXCEPT ![t] = s]

(* The position of the oldest waiter that still listens, if there is one:  *)
(* waiter.send fails on the ones before it.                                *)
Listening(k) ==
  /\ k \in 1..Len(waiters)
  /\ waiters[k] # Gone
  /\ \A j \in 1..(k - 1) : waiters[j] = Gone
LiveWaiter == \E k \in 1..Len(waiters) : waiters[k] # Gone

(* PoolState::new connects min_values values before anyone can call.       *)
Init ==
  /\ num_live_values = min_values
  /\ pooled_values = min_values
  /\ waiters = <<>>
  /\ task = [t \in Tasks |-> "idle"]
  /\ leaked = 0

(* take_value: a pooled value at once, else a new connection, else wait.   *)
TakePooled(t) ==
  /\ task[t] = "idle"
  /\ pooled_values > 0
  /\ pooled_values' = pooled_values - 1
  /\ SetTask(t, "holding")
  /\ UNCHANGED <<num_live_values, waiters, leaked>>

(* Mutants: the new value is not counted; one value too many.              *)
TakeNewUncounted(t) ==
  /\ task[t] = "idle"
  /\ pooled_values = 0
  /\ num_live_values < max_values
  /\ SetTask(t, "connecting")
  /\ UNCHANGED <<num_live_values, pooled_values, waiters, leaked>>

TakeNewOneMore(t) ==
  /\ task[t] = "idle"
  /\ pooled_values = 0
  /\ num_live_values <= max_values
  /\ num_live_values' = num_live_values + 1
  /\ SetTask(t, "connecting")
  /\ UNCHANGED <<pooled_values, waiters, leaked>>

TakeNew(t) ==
  /\ task[t] = "idle"
  /\ pooled_values = 0
  /\ num_live_values < max_values
  /\ num_live_values' = num_live_values + 1
  /\ SetTask(t, "connecting")
  /\ UNCHANGED <<pooled_values, waiters, leaked>>

TakeWait(t) ==
  /\ task[t] = "idle"
  /\ pooled_values = 0
  /\ num_live_values >= max_values
  /\ Len(waiters) < MaxQueue
  /\ waiters' = Append(waiters, t)
  /\ SetTask(t, "waiting")
  /\ UNCHANGED <<num_live_values, pooled_values, leaked>>

(* factory.connect() returns a value ...                                   *)
Connected(t) ==
  /\ task[t] = "connecting"
  /\ SetTask(t, "holding")
  /\ UNCHANGED <<num_live_values, pooled_values, waiters, leaked>>

(* ... or an error, or its future is dropped: the count stays as it is.    *)
ConnectFails(t) ==
  /\ task[t] = "connecting"
  /\ SetTask(t, "idle")
  /\ leaked' = leaked + 1
  /\ UNCHANGED <<num_live_values, pooled_values, waiters>>

(* recv.await returns the value sent by return_value.                      *)
Receive(t) ==
  /\ task[t] = "granted"
  /\ SetTask(t, "holding")
  /\ UNCHANGED <<num_live_values, pooled_values, waiters, leaked>>

(* The future is dropped while it waits: its sender stays in the queue.    *)
AbandonWait(t) ==
  /\ task[t] = "waiting"
  /\ waiters' = [k \in 1..Len(waiters) |-> IF waiters[k] = t THEN Gone
                                                             ELSE waiters[k]]
  /\ SetTask(t, "idle")
  /\ UNCHANGED <<num_live_values, pooled_values, leaked>>

(* The future is dropped with the value already in its oneshot channel.    *)
AbandonGrant(t) ==
  /\ task[t] = "granted"
  /\ SetTask(t, "idle")
  /\ leaked' = leaked + 1
  /\ UNCHANGED <<num_live_values, pooled_values, waiters>>

(* return_value with a full pool drops the value, whoever is waiting.      *)
ReturnDrop(t) ==
  /\ task[t] = "holding"
  /\ pooled_values >= max_pooled_values
  /\ num_live_values' = num_live_values - 1
  /\ SetTask(t, "idle")
  /\ UNCHANGED <<pooled_values, waiters, leaked>>

(* Mutants: the other waiters are thrown away; the youngest goes first.    *)
ReturnForgetsQueue(t) ==
  /\ task[t] = "holding"
  /\ pooled_values < max_pooled_values
  /\ \E k \in 1..Len(waiters) :
       /\ Listening(k)
       /\ waiters' = <<>>
       /\ task' = [task EXCEPT ![t] = "idle", ![waiters[k]] = "granted"]
  /\ UNCHANGED <<num_live_values, pooled_values, leaked>>

ReturnToYoungest(t) ==
  /\ task[t] = "holding"
  /\ pooled_values < max_pooled_values
  /\ \E k \in 1..Len(waiters) :
       /\ waiters[k] # Gone
       /\ \A j \in (k + 1)..Len(waiters) : waiters[j] = Gone
       /\ waiters' = SubSeq(waiters, 1, k - 1)
       /\ task' = [task EXCEPT ![t] = "idle", ![waiters[k]] = "granted"]
  /\ UNCHANGED <<num_live_values, pooled_values, leaked>>

(* Otherwise the oldest listening waiter gets it ...                       *)
ReturnHandOver(t) ==
  /\ task[t] = "holding"
  /\ pooled_values < max_pooled_values
  /\ \E k \in 1..Len(waiters) :
       /\ Listening(k)
       /\ waiters' = SubSeq(waiters, k + 1, Len(waiters))
       /\ task' = [task EXCEPT ![t] = "idle", ![waiters[k]] = "granted"]
  /\ UNCHANGED <<num_live_values, pooled_values, leaked>>

(* Mutants: a value goes to the pool past those who wait for it; a pooled  *)
(* value no longer counts as live.                                         *)
ReturnPoolFirst(t) ==
  /\ task[t] = "holding"
  /\ pooled_values < max_pooled_values
  /\ pooled_values' = pooled_values + 1
  /\ SetTask(t, "idle")
  /\ UNCHANGED <<num_live_values, waiters, leaked>>

ReturnPoolUncounts(t) ==
  /\ task[t] = "holding"
  /\ pooled_values < max_pooled_values
  /\ ~LiveWaiter
  /\ waiters' = <<>>
  /\ pooled_values' = pooled_values + 1
  /\ num_live_values' = num_live_values - 1
  /\ SetTask(t, "idle")
  /\ UNCHANGED leaked

(* ... or, with nobody listening, it goes back into the pool.              *)
ReturnPool(t) ==
  /\ task[t] = "holding"
  /\ pooled_values < max_pooled_values
  /\ ~LiveWaiter
  /\ waiters' = <<>>
  /\ pooled_values' = pooled_values + 1
  /\ SetTask(t, "idle")
  /\ UNCHANGED <<num_live_values, leaked>>

-----------------------------------------------------------------------------
take_value(t) == TakePooled(t) \/ TakeNew(t) \/ TakeWait(t)
return_value(t) == ReturnDrop(t) \/ ReturnHandOver(t) \/ ReturnPool(t)

Next ==
  \E t \in Tasks :
    \/ take_value(t)
    \/ Connected(t)
    \/ ConnectFails(t)
    \/ Receive(t)
    \/ AbandonWait(t)
    \/ AbandonGrant(t)
    \/ return_value(t)

(* connect() completes one way or the other, a woken task runs, and a task *)
(* that has a value gives it back.  Nobody has to take one.                *)
Fairness ==
  \A t \in Tasks :
    /\ WF_vars(Connected(t) \/ ConnectFails(t))
    /\ WF_vars(Receive(t) \/ AbandonGrant(t))
    /\ WF_vars(return_value(t))

Spec == Init /\ [][Next]_vars /\ Fairness

-----------------------------------------------------------------------------
Owning == {t \in Tasks : task[t] \in {"connecting", "granted", "holding"}}

TypeOK ==
  /\ num_live_values \in Nat
  /\ pooled_values \in Nat
  /\ waiters \in Seq(Tasks \cup {Gone})
  /\ task \in [Tasks -> TaskState]
  /\ leaked \in Nat

(* num_live_values counts exactly the values in the pool, the values tasks *)
(* have or are being given or are connecting, and the leaked ones.  So the *)
(* usize subtraction of return_value never wraps.                          *)
LiveCountIsExact ==
  num_live_values = pooled_values + Cardinality(Owning) + leaked

(* Never more values than the configuration allows: max_values, or what    *)
(* new connected if that is more.                                          *)
LiveBounded ==
  \/ num_live_values <= max_values
  \/ num_live_values <= min_values

(* A task that waits has exactly one sender in the queue, so the panic in  *)
(* take_value ("Pool dropped before waiters could be validated") is never  *)
(* reached by a sender that was dropped unused.                            *)
WaitersAreQueued ==
  \A t \in Tasks :
    task[t] = "waiting" <=>
      \E k \in 1..Len(waiters) :
        /\ waiters[k] = t
        /\ \A j \in 1..Len(waiters) : waiters[j] = t => j = k

(* Nobody waits while a value lies in the pool, nor, if the pool keeps any *)
(* value at all, while take_value could connect a new one.                 *)
NoNeedlessWait ==
  LiveWaiter =>
    /\ pooled_values = 0
    /\ max_pooled_values > 0 => num_live_values >= max_values

(* A waiter is served or gives up, as long as the pool keeps values and    *)
(* not every slot has leaked.                                              *)
WaiterServed ==
  \A t \in Tasks :
    task[t] = "waiting" ~>
      (task[t] # "waiting" \/ leaked >= max_values \/ max_pooled_values = 0)

=============================================================================
