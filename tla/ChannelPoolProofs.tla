-------------------------- MODULE ChannelPoolProofs --------------------------
(***************************************************************************)
(* The safety invariants of ChannelPool, proved for every number of tasks  *)
(* and every configuration of the pool.                                    *)
(***************************************************************************)
EXTENDS ChannelPool, FiniteSetTheorems, SequenceTheorems, TLAPS

(* WaitersAreQueued is not inductive: a task with two senders in the queue *)
(* would satisfy it while idle.  Queued says what the queue holds: senders *)
(* of waiting tasks only, one for each of them.                            *)
Queued ==
  /\ \A k \in 1..Len(waiters) :
       waiters[k] # Gone => task[waiters[k]] = "waiting"
  /\ \A j, k \in 1..Len(waiters) :
       waiters[k] # Gone /\ waiters[j] = waiters[k] => j = k
  /\ \A t \in Tasks :
       task[t] = "waiting" => \E k \in 1..Len(waiters) : waiters[k] = t

IInv ==
  /\ TypeOK
  /\ Queued
  /\ LiveCountIsExact
  /\ LiveBounded
  /\ NoNeedlessWait

-----------------------------------------------------------------------------
(* Lemma: a task that starts to own a value (take_value's early exits, or  *)
(* a hand-over in return_value) makes the owners one more.                 *)
LEMMA OwnerAdded ==
  ASSUME TypeOK, NEW t \in Tasks, t \notin Owning,
         NEW s \in TaskState, s \in {"connecting", "granted", "holding"},
         SetTask(t, s)
  PROVE  Cardinality(Owning') = Cardinality(Owning) + 1
<1>1. IsFiniteSet(Owning)
  BY FS_Subset, PoolAssumption DEF Owning
<1>2. Owning' = Owning \cup {t}
  BY DEF Owning, SetTask, TypeOK
<1> QED
  BY <1>1, <1>2, FS_AddElement

(* Lemma: a task that stops owning a value (return_value, or a future      *)
(* dropped after its slot was counted) makes the owners one fewer.         *)
LEMMA OwnerRemoved ==
  ASSUME TypeOK, NEW t \in Owning, SetTask(t, "idle")
  PROVE  /\ Cardinality(Owning) \in Nat
         /\ Cardinality(Owning) > 0
         /\ Cardinality(Owning') = Cardinality(Owning) - 1
<1>1. IsFiniteSet(Owning)
  BY FS_Subset, PoolAssumption DEF Owning
<1>2. Owning' = Owning \ {t}
  BY DEF Owning, SetTask, TypeOK
<1>3. Cardinality(Owning) \in Nat /\ Cardinality(Owning) # 0
  BY <1>1, FS_CardinalityType, FS_EmptySet
<1> QED
  BY <1>1, <1>2, <1>3, FS_RemoveElement

(* Lemma: a task that stays an owner, or stays none, changes nothing.      *)
LEMMA OwnersSame ==
  ASSUME TypeOK, NEW t \in Tasks, NEW s \in TaskState, SetTask(t, s),
         s \in {"connecting", "granted", "holding"} <=> t \in Owning
  PROVE  Owning' = Owning
BY DEF Owning, SetTask, TypeOK

(* Lemma: the owners are counted by a natural number.                      *)
LEMMA OwnersCount ==
  Cardinality(Owning) \in Nat
BY FS_Subset, FS_CardinalityType, PoolAssumption DEF Owning

-----------------------------------------------------------------------------
(* Lemma: PoolState::new establishes the invariant.                        *)
LEMMA PoolInit ==
  Init => IInv
<1> SUFFICES ASSUME Init PROVE IInv
  OBVIOUS
<1>1. TypeOK
  BY PoolAssumption DEF Init, TypeOK, TaskState
<1>2. Queued
  BY DEF Init, Queued
<1>3. LiveCountIsExact
  <2>1. Owning = {}
    BY DEF Owning, Init
  <2> QED
    BY <2>1, FS_EmptySet, PoolAssumption DEF LiveCountIsExact, Init
<1>4. LiveBounded
  BY PoolAssumption DEF LiveBounded, Init
<1>5. NoNeedlessWait
  BY DEF NoNeedlessWait, LiveWaiter, Init
<1> QED
  BY <1>1, <1>2, <1>3, <1>4, <1>5 DEF IInv

(* Lemma: TypeOK is preserved.  That num_live_values stays a natural       *)
(* number in return_value rests on LiveCountIsExact.                       *)
LEMMA PoolType ==
  IInv /\ [Next]_vars => TypeOK'
<1> SUFFICES ASSUME IInv, [Next]_vars PROVE TypeOK'
  OBVIOUS
<1> USE DEF TypeOK, TaskState, SetTask
<1>0. TypeOK /\ LiveCountIsExact
  BY DEF IInv
<1>1. ASSUME NEW t \in Tasks, take_value(t) PROVE TypeOK'
  <2>1. CASE TakePooled(t)
    BY <1>0, <2>1 DEF TakePooled
  <2>2. CASE TakeNew(t)
    BY <1>0, <2>2 DEF TakeNew
  <2>3. CASE TakeWait(t)
    BY <1>0, <2>3 DEF TakeWait
  <2> QED
    BY <1>1, <2>1, <2>2, <2>3 DEF take_value
<1>2. ASSUME NEW t \in Tasks, Connected(t) PROVE TypeOK'
  BY <1>0, <1>2 DEF Connected
<1>3. ASSUME NEW t \in Tasks, ConnectFails(t) PROVE TypeOK'
  BY <1>0, <1>3 DEF ConnectFails
<1>4. ASSUME NEW t \in Tasks, Receive(t) PROVE TypeOK'
  BY <1>0, <1>4 DEF Receive
<1>5. ASSUME NEW t \in Tasks, AbandonWait(t) PROVE TypeOK'
  BY <1>0, <1>5 DEF AbandonWait
<1>6. ASSUME NEW t \in Tasks, AbandonGrant(t) PROVE TypeOK'
  BY <1>0, <1>6 DEF AbandonGrant
<1>7. ASSUME NEW t \in Tasks, return_value(t) PROVE TypeOK'
  <2>1. CASE ReturnDrop(t)
    <3>1. t \in Owning
      BY <2>1 DEF ReturnDrop, Owning
    <3>2. Cardinality(Owning) \in Nat /\ Cardinality(Owning) > 0
      <4>1. SetTask(t, "idle")
        BY <2>1 DEF ReturnDrop
      <4> QED
        BY <1>0, <3>1, <4>1, OwnerRemoved
    <3>3. num_live_values > 0
      BY <1>0, <3>2 DEF LiveCountIsExact
    <3> QED
      BY <1>0, <2>1, <3>3 DEF ReturnDrop
  <2>2. CASE ReturnHandOver(t)
    <3>1. PICK k \in 1..Len(waiters) :
            /\ Listening(k)
            /\ waiters' = SubSeq(waiters, k + 1, Len(waiters))
            /\ task' = [task EXCEPT ![t] = "idle", ![waiters[k]] = "granted"]
      BY <2>2 DEF ReturnHandOver
    <3>2. waiters' \in Seq(Tasks \cup {Gone})
      BY <1>0, <3>1, SubSeqProperties
    <3> QED
      BY <1>0, <2>2, <3>1, <3>2 DEF ReturnHandOver
  <2>3. CASE ReturnPool(t)
    BY <1>0, <2>3 DEF ReturnPool
  <2> QED
    BY <1>7, <2>1, <2>2, <2>3 DEF return_value
<1>8. CASE UNCHANGED vars
  BY <1>0, <1>8 DEF vars
<1> QED
  BY <1>1, <1>2, <1>3, <1>4, <1>5, <1>6, <1>7, <1>8 DEF Next

(* Lemma: what the queue holds is preserved.                               *)
LEMMA PoolQueued ==
  IInv /\ [Next]_vars => Queued'
<1> SUFFICES ASSUME IInv, [Next]_vars PROVE Queued'
  OBVIOUS
<1>0. TypeOK /\ Queued
  BY DEF IInv
<1> USE <1>0, PoolAssumption DEF TypeOK, TaskState, SetTask, Queued
<1>1. ASSUME NEW t \in Tasks, TakePooled(t) PROVE Queued'
  BY <1>1 DEF TakePooled
<1>2. ASSUME NEW t \in Tasks, TakeNew(t) PROVE Queued'
  BY <1>2 DEF TakeNew
<1>3. ASSUME NEW t \in Tasks, TakeWait(t) PROVE Queued'
  <2>1. /\ Len(waiters') = Len(waiters) + 1
        /\ waiters'[Len(waiters) + 1] = t
        /\ \A k \in 1..Len(waiters) : waiters'[k] = waiters[k]
    BY <1>3 DEF TakeWait
  <2>2. \A k \in 1..Len(waiters) : waiters[k] # t
    BY <1>3 DEF TakeWait
  <2>3. task' = [task EXCEPT ![t] = "waiting"]
    BY <1>3 DEF TakeWait
  <2>4. \A k \in 1..Len(waiters') :
          waiters'[k] # Gone => task'[waiters'[k]] = "waiting"
    BY <2>1, <2>3
  <2>5. \A j, k \in 1..Len(waiters') :
          waiters'[k] # Gone /\ waiters'[j] = waiters'[k] => j = k
    BY <2>1, <2>2
  <2>6. ASSUME NEW u \in Tasks, task'[u] = "waiting"
        PROVE  \E k \in 1..Len(waiters') : waiters'[k] = u
    BY <2>1, <2>3, <2>6
  <2> QED
    BY <2>4, <2>5, <2>6
<1>4. ASSUME NEW t \in Tasks, Connected(t) PROVE Queued'
  BY <1>4 DEF Connected
<1>5. ASSUME NEW t \in Tasks, ConnectFails(t) PROVE Queued'
  BY <1>5 DEF ConnectFails
<1>6. ASSUME NEW t \in Tasks, Receive(t) PROVE Queued'
  BY <1>6 DEF Receive
<1>7. ASSUME NEW t \in Tasks, AbandonWait(t) PROVE Queued'
  <2>1. /\ Len(waiters') = Len(waiters)
        /\ \A k \in 1..Len(waiters) :
             waiters'[k] = IF waiters[k] = t THEN Gone ELSE waiters[k]
    BY <1>7 DEF AbandonWait
  <2>2. task' = [task EXCEPT ![t] = "idle"]
    BY <1>7 DEF AbandonWait
  <2> QED
    BY <2>1, <2>2
<1>8. ASSUME NEW t \in Tasks, AbandonGrant(t) PROVE Queued'
  BY <1>8 DEF AbandonGrant
<1>9. ASSUME NEW t \in Tasks, ReturnDrop(t) PROVE Queued'
  BY <1>9 DEF ReturnDrop
<1>10. ASSUME NEW t \in Tasks, ReturnHandOver(t) PROVE Queued'
  <2>1. PICK k \in 1..Len(waiters) :
          /\ Listening(k)
          /\ waiters' = SubSeq(waiters, k + 1, Len(waiters))
          /\ task' = [task EXCEPT ![t] = "idle", ![waiters[k]] = "granted"]
    BY <1>10 DEF ReturnHandOver
  <2>2. /\ Len(waiters') = Len(waiters) - k
        /\ \A i \in 1..(Len(waiters) - k) : waiters'[i] = waiters[k + i]
    BY <2>1, SubSeqProperties
  <2>3. waiters[k] \in Tasks /\ task[waiters[k]] = "waiting"
    BY <2>1 DEF Listening
  <2>4. task[t] = "holding"
    BY <1>10 DEF ReturnHandOver
  <2>5. ASSUME NEW i \in 1..Len(waiters'), waiters'[i] # Gone
        PROVE  task'[waiters'[i]] = "waiting"
    <3>1. /\ k + i \in 1..Len(waiters)
          /\ waiters'[i] = waiters[k + i]
          /\ k + i # k
      BY <2>2
    <3>2. /\ waiters'[i] \in Tasks
          /\ task[waiters'[i]] = "waiting"
          /\ waiters'[i] # waiters[k]
      BY <2>1, <2>3, <2>5, <3>1, SMTT(20)
    <3> QED
      BY <2>1, <2>4, <3>2
  <2>6. ASSUME NEW i \in 1..Len(waiters'), NEW j \in 1..Len(waiters'),
               waiters'[j] # Gone, waiters'[i] = waiters'[j]
        PROVE  i = j
    <3>1. /\ k + i \in 1..Len(waiters)
          /\ k + j \in 1..Len(waiters)
          /\ waiters[k + i] = waiters[k + j]
          /\ waiters[k + j] # Gone
      BY <2>2, <2>6
    <3>2. k + i = k + j
      BY <3>1
    <3> QED
      BY <2>2, <3>2
  <2>7. ASSUME NEW u \in Tasks, task'[u] = "waiting"
        PROVE  \E i \in 1..Len(waiters') : waiters'[i] = u
    <3>1. task[u] = "waiting" /\ u # waiters[k]
      BY <2>1, <2>3, <2>4, <2>7
    <3>2. PICK i \in 1..Len(waiters) : waiters[i] = u
      BY <3>1
    <3>3. i > k
      BY <2>1, <3>1, <3>2 DEF Listening
    <3>4. i - k \in 1..Len(waiters') /\ waiters'[i - k] = u
      BY <2>2, <3>2, <3>3
    <3> QED
      BY <3>4
  <2> QED
    BY <2>5, <2>6, <2>7
<1>11. ASSUME NEW t \in Tasks, ReturnPool(t) PROVE Queued'
  <2>1. \A u \in Tasks : task[u] # "waiting"
    BY <1>11 DEF ReturnPool, LiveWaiter
  <2> QED
    BY <1>11, <2>1 DEF ReturnPool
<1>12. CASE UNCHANGED vars
  BY <1>12 DEF vars
<1> QED
  BY <1>1, <1>2, <1>3, <1>4, <1>5, <1>6, <1>7, <1>8, <1>9, <1>10, <1>11,
     <1>12 DEF Next, take_value, return_value

(* Lemma: num_live_values stays the number of values there are.            *)
LEMMA PoolCount ==
  IInv /\ [Next]_vars => LiveCountIsExact'
<1> SUFFICES ASSUME IInv, [Next]_vars PROVE LiveCountIsExact'
  OBVIOUS
<1>0. /\ TypeOK
      /\ Queued
      /\ num_live_values = pooled_values + Cardinality(Owning) + leaked
      /\ num_live_values \in Nat
      /\ pooled_values \in Nat
      /\ leaked \in Nat
      /\ Cardinality(Owning) \in Nat
  BY OwnersCount DEF IInv, LiveCountIsExact, TypeOK
<1> USE DEF LiveCountIsExact
<1>1. ASSUME NEW t \in Tasks, TakePooled(t) PROVE LiveCountIsExact'
  <2>1. t \notin Owning /\ SetTask(t, "holding") /\ "holding" \in TaskState
    BY <1>1 DEF TakePooled, Owning, TaskState
  <2>2. Cardinality(Owning') = Cardinality(Owning) + 1
    BY <1>0, <2>1, OwnerAdded
  <2> QED
    BY <1>0, <1>1, <2>2 DEF TakePooled
<1>2. ASSUME NEW t \in Tasks, TakeNew(t) PROVE LiveCountIsExact'
  <2>1. /\ t \notin Owning
        /\ SetTask(t, "connecting")
        /\ "connecting" \in TaskState
    BY <1>2 DEF TakeNew, Owning, TaskState
  <2>2. Cardinality(Owning') = Cardinality(Owning) + 1
    BY <1>0, <2>1, OwnerAdded
  <2> QED
    BY <1>0, <1>2, <2>2 DEF TakeNew
<1>3. ASSUME NEW t \in Tasks, TakeWait(t) PROVE LiveCountIsExact'
  <2>1. t \notin Owning /\ SetTask(t, "waiting") /\ "waiting" \in TaskState
    BY <1>3 DEF TakeWait, Owning, TaskState
  <2>2. Owning' = Owning
    BY <1>0, <2>1, OwnersSame
  <2> QED
    BY <1>0, <1>3, <2>2 DEF TakeWait
<1>4. ASSUME NEW t \in Tasks, Connected(t) PROVE LiveCountIsExact'
  <2>1. t \in Owning /\ SetTask(t, "holding") /\ "holding" \in TaskState
    BY <1>4 DEF Connected, Owning, TaskState
  <2>2. Owning' = Owning
    BY <1>0, <2>1, OwnersSame
  <2> QED
    BY <1>0, <1>4, <2>2 DEF Connected
<1>5. ASSUME NEW t \in Tasks, ConnectFails(t) PROVE LiveCountIsExact'
  <2>1. t \in Owning /\ SetTask(t, "idle")
    BY <1>5 DEF ConnectFails, Owning
  <2>2. Cardinality(Owning') = Cardinality(Owning) - 1
    BY <1>0, <2>1, OwnerRemoved
  <2> QED
    BY <1>0, <1>5, <2>2 DEF ConnectFails
<1>6. ASSUME NEW t \in Tasks, Receive(t) PROVE LiveCountIsExact'
  <2>1. t \in Owning /\ SetTask(t, "holding") /\ "holding" \in TaskState
    BY <1>6 DEF Receive, Owning, TaskState
  <2>2. Owning' = Owning
    BY <1>0, <2>1, OwnersSame
  <2> QED
    BY <1>0, <1>6, <2>2 DEF Receive
<1>7. ASSUME NEW t \in Tasks, AbandonWait(t) PROVE LiveCountIsExact'
  <2>1. t \notin Owning /\ SetTask(t, "idle") /\ "idle" \in TaskState
    BY <1>7 DEF AbandonWait, Owning, TaskState
  <2>2. Owning' = Owning
    BY <1>0, <2>1, OwnersSame
  <2> QED
    BY <1>0, <1>7, <2>2 DEF AbandonWait
<1>8. ASSUME NEW t \in Tasks, AbandonGrant(t) PROVE LiveCountIsExact'
  <2>1. t \in Owning /\ SetTask(t, "idle")
    BY <1>8 DEF AbandonGrant, Owning
  <2>2. Cardinality(Owning') = Cardinality(Owning) - 1
    BY <1>0, <2>1, OwnerRemoved
  <2> QED
    BY <1>0, <1>8, <2>2 DEF AbandonGrant
<1>9. ASSUME NEW t \in Tasks, ReturnDrop(t) PROVE LiveCountIsExact'
  <2>1. t \in Owning /\ SetTask(t, "idle")
    BY <1>9 DEF ReturnDrop, Owning
  <2>2. Cardinality(Owning') = Cardinality(Owning) - 1
    BY <1>0, <2>1, OwnerRemoved
  <2> QED
    BY <1>0, <1>9, <2>2 DEF ReturnDrop
<1>10. ASSUME NEW t \in Tasks, ReturnHandOver(t) PROVE LiveCountIsExact'
  <2>1. PICK k \in 1..Len(waiters) :
          /\ Listening(k)
          /\ task' = [task EXCEPT ![t] = "idle", ![waiters[k]] = "granted"]
    BY <1>10 DEF ReturnHandOver
  <2>2. waiters[k] \in Tasks /\ task[waiters[k]] = "waiting"
    BY <1>0, <2>1, PoolAssumption DEF Listening, Queued, TypeOK
  <2>3. /\ t \in Owning
        /\ waiters[k] \notin Owning
        /\ Owning' = (Owning \ {t}) \cup {waiters[k]}
    BY <1>0, <1>10, <2>1, <2>2 DEF ReturnHandOver, Owning, TypeOK
  <2>4. IsFiniteSet(Owning)
    BY FS_Subset, PoolAssumption DEF Owning
  <2>5. /\ IsFiniteSet(Owning \ {t})
        /\ Cardinality(Owning \ {t}) = Cardinality(Owning) - 1
    BY <2>3, <2>4, FS_RemoveElement
  <2>6. Cardinality(Owning') = Cardinality(Owning) - 1 + 1
    BY <2>3, <2>5, FS_AddElement
  <2> QED
    BY <1>0, <1>10, <2>6 DEF ReturnHandOver
<1>11. ASSUME NEW t \in Tasks, ReturnPool(t) PROVE LiveCountIsExact'
  <2>1. t \in Owning /\ SetTask(t, "idle")
    BY <1>11 DEF ReturnPool, Owning
  <2>2. Cardinality(Owning') = Cardinality(Owning) - 1
    BY <1>0, <2>1, OwnerRemoved
  <2> QED
    BY <1>0, <1>11, <2>2 DEF ReturnPool
<1>12. CASE UNCHANGED vars
  BY <1>0, <1>12 DEF vars, Owning
<1> QED
  BY <1>1, <1>2, <1>3, <1>4, <1>5, <1>6, <1>7, <1>8, <1>9, <1>10, <1>11,
     <1>12 DEF Next, take_value, return_value

(* Lemma: the bounds on live and on needlessly waiting values.             *)
LEMMA PoolBounds ==
  IInv /\ [Next]_vars => LiveBounded' /\ NoNeedlessWait'
<1> SUFFICES ASSUME IInv, [Next]_vars PROVE LiveBounded' /\ NoNeedlessWait'
  OBVIOUS
<1>0. TypeOK /\ LiveBounded /\ NoNeedlessWait
  BY DEF IInv
<1> USE <1>0, PoolAssumption DEF TypeOK, LiveBounded, NoNeedlessWait,
                                 LiveWaiter, SetTask
<1>1. ASSUME NEW t \in Tasks, TakePooled(t)
      PROVE  LiveBounded' /\ NoNeedlessWait'
  BY <1>1 DEF TakePooled
<1>2. ASSUME NEW t \in Tasks, TakeNew(t)
      PROVE  LiveBounded' /\ NoNeedlessWait'
  BY <1>2 DEF TakeNew
<1>3. ASSUME NEW t \in Tasks, TakeWait(t)
      PROVE  LiveBounded' /\ NoNeedlessWait'
  BY <1>3 DEF TakeWait
<1>4. ASSUME NEW t \in Tasks, \/ Connected(t) \/ ConnectFails(t)
                             \/ Receive(t) \/ AbandonGrant(t)
      PROVE  LiveBounded' /\ NoNeedlessWait'
  BY <1>4 DEF Connected, ConnectFails, Receive, AbandonGrant
<1>5. ASSUME NEW t \in Tasks, AbandonWait(t)
      PROVE  LiveBounded' /\ NoNeedlessWait'
  <2>1. /\ Len(waiters') = Len(waiters)
        /\ \A k \in 1..Len(waiters) :
             waiters'[k] = IF waiters[k] = t THEN Gone ELSE waiters[k]
    BY <1>5 DEF AbandonWait
  <2>2. LiveWaiter' => LiveWaiter
    BY <2>1
  <2> QED
    BY <1>5, <2>2 DEF AbandonWait
<1>6. ASSUME NEW t \in Tasks, ReturnDrop(t)
      PROVE  LiveBounded' /\ NoNeedlessWait'
  BY <1>6 DEF ReturnDrop
<1>7. ASSUME NEW t \in Tasks, ReturnHandOver(t)
      PROVE  LiveBounded' /\ NoNeedlessWait'
  <2>1. PICK k \in 1..Len(waiters) :
          waiters' = SubSeq(waiters, k + 1, Len(waiters))
    BY <1>7 DEF ReturnHandOver
  <2>2. /\ Len(waiters') = Len(waiters) - k
        /\ \A i \in 1..(Len(waiters) - k) : waiters'[i] = waiters[k + i]
    BY <2>1, SubSeqProperties
  <2>3. LiveWaiter' => LiveWaiter
    <3>1. ASSUME NEW i \in 1..Len(waiters'), waiters'[i] # Gone
          PROVE  LiveWaiter
      <4>1. k + i \in 1..Len(waiters) /\ waiters[k + i] # Gone
        BY <2>2, <3>1
      <4> QED
        BY <4>1
    <3> QED
      BY <3>1
  <2> QED
    BY <1>7, <2>3 DEF ReturnHandOver
<1>8. ASSUME NEW t \in Tasks, ReturnPool(t)
      PROVE  LiveBounded' /\ NoNeedlessWait'
  BY <1>8 DEF ReturnPool
<1>9. CASE UNCHANGED vars
  BY <1>9 DEF vars
<1> QED
  BY <1>1, <1>2, <1>3, <1>4, <1>5, <1>6, <1>7, <1>8, <1>9
     DEF Next, take_value, return_value

(* Lemma: the invariant holds in every reachable state.                    *)
LEMMA PoolInvariant ==
  Spec => []IInv
<1>1. IInv /\ [Next]_vars => IInv'
  BY PoolType, PoolQueued, PoolCount, PoolBounds DEF IInv
<1> QED
  BY PoolInit, <1>1, PTL DEF Spec

-----------------------------------------------------------------------------
(* Every variable of the pool keeps its type; in particular the usize      *)
(* num_live_values never goes below 0 in return_value.                     *)
THEOREM PoolTypeCorrect ==
  Spec => []TypeOK
<1>1. IInv => TypeOK
  BY DEF IInv
<1> QED
  BY PoolInvariant, <1>1, PTL

(* For any number of tasks that take, wait, give up, fail to connect and   *)
(* return, num_live_values is exactly the number of values in the pool,    *)
(* with tasks, or lost.                                                    *)
THEOREM PoolCountsExactly ==
  Spec => []LiveCountIsExact
<1>1. IInv => LiveCountIsExact
  BY DEF IInv
<1> QED
  BY PoolInvariant, <1>1, PTL

(* The pool never has more live values than it was configured for, and     *)
(* what the tasks hold and the pool keeps is within the same bound.        *)
THEOREM PoolStaysWithinItsLimit ==
  Spec => [](LiveBounded
             /\ (\/ pooled_values + Cardinality(Owning) <= max_values
                 \/ pooled_values + Cardinality(Owning) <= min_values))
<1>1. IInv => LiveBounded
              /\ (\/ pooled_values + Cardinality(Owning) <= max_values
                  \/ pooled_values + Cardinality(Owning) <= min_values)
  BY OwnersCount, PoolAssumption
     DEF IInv, LiveBounded, LiveCountIsExact, TypeOK
<1> QED
  BY PoolInvariant, <1>1, PTL

(* A waiting take_value has exactly one live sender in the queue, so the   *)
(* panic for a pool dropped before its waiters is never reached.           *)
THEOREM PoolKeepsItsWaiters ==
  Spec => []WaitersAreQueued
<1>1. ASSUME IInv, NEW t \in Tasks
      PROVE  task[t] = "waiting" <=>
               \E k \in 1..Len(waiters) :
                 /\ waiters[k] = t
                 /\ \A j \in 1..Len(waiters) : waiters[j] = t => j = k
  BY <1>1, PoolAssumption DEF IInv, TypeOK, Queued
<1>2. IInv => WaitersAreQueued
  BY <1>1 DEF WaitersAreQueued
<1> QED
  BY PoolInvariant, <1>2, PTL

(* Nobody waits for a value that is in the pool or that take_value could   *)
(* connect.                                                                *)
THEOREM PoolServesWhatItHas ==
  Spec => []NoNeedlessWait
<1>1. IInv => NoNeedlessWait
  BY DEF IInv
<1> QED
  BY PoolInvariant, <1>1, PTL

=============================================================================
