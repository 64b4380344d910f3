-------------------------- MODULE TokenSourceProofs --------------------------
(***************************************************************************)
(* The safety properties of TokenSource, proved for every number of tasks, *)
(* every max_tokens and both build profiles.                               *)
(***************************************************************************)
EXTENDS TokenSource, FiniteSetTheorems, SequenceTheorems, TLAPS

(* What the queue holds: senders of waiting tasks only, one for each.      *)
Queued ==
  /\ \A k \in 1..Len(notifiers) :
       notifiers[k] # Gone => task[notifiers[k]] = "waiting"
  /\ \A j, k \in 1..Len(notifiers) :
       notifiers[k] # Gone /\ notifiers[j] = notifiers[k] => j = k
  /\ \A t \in Tasks :
       task[t] = "waiting" => \E k \in 1..Len(notifiers) : notifiers[k] = t

(* RunningIsExact is what keeps curr_running from wrapping: it is never    *)
(* more than all tasks and all leaked slots together.                      *)
IInv ==
  /\ TypeOK
  /\ Queued
  /\ RunningIsExact
  /\ NoNeedlessWait

(* The senders popped by the loop of add_tokens that are still listening,  *)
(* and the tasks behind them.                                              *)
Popped(k) == {j \in Live : j <= k}
Woken(k) == {notifiers[j] : j \in Popped(k)}

-----------------------------------------------------------------------------
(* Lemma: a number below the modulus is its own remainder (usize addition  *)
(* that does not overflow).                                                *)
LEMMA ModSmall ==
  ASSUME NEW a \in Nat, NEW m \in Nat, a < m
  PROVE  a % m = a
OBVIOUS

(* Lemma: a remainder is a usize.                                          *)
LEMMA ModType ==
  ASSUME NEW a \in Int, NEW m \in Nat, m > 0
  PROVE  a % m \in 0..(m - 1)
OBVIOUS

(* Lemma: the tasks in Using are finitely many, at most all of them.       *)
LEMMA UsingCount ==
  /\ IsFiniteSet(Using)
  /\ Cardinality(Using) \in Nat
  /\ Cardinality(Using) <= Cardinality(Tasks)
  /\ Cardinality(Tasks) \in Nat
BY FS_Subset, FS_CardinalityType, TokenAssumption DEF Using

(* Lemma: the loop of add_tokens wakes as many tasks as it pops listening  *)
(* senders: no task has two senders.                                       *)
LEMMA WokenCount ==
  ASSUME TypeOK, Queued, NEW k \in 0..Len(notifiers)
  PROVE  /\ IsFiniteSet(Popped(k))
         /\ IsFiniteSet(Woken(k))
         /\ Cardinality(Woken(k)) = Cardinality(Popped(k))
<1> DEFINE f == [j \in Popped(k) |-> notifiers[j]]
<1>1. IsFiniteSet(Popped(k))
  <2>1. Popped(k) \in SUBSET (1..Len(notifiers)) /\ Len(notifiers) \in Int
    BY DEF Popped, Live, TypeOK
  <2>2. IsFiniteSet(1..Len(notifiers))
    BY <2>1, FS_Interval
  <2> QED
    BY <2>1, <2>2, FS_Subset
<1>2. f \in Bijection(Popped(k), Woken(k))
  <2>1. f \in [Popped(k) -> Woken(k)]
    BY DEF Woken
  <2>2. \A i, j \in Popped(k) : f[i] = f[j] => i = j
    BY DEF Popped, Live, Queued
  <2>3. \A w \in Woken(k) : \E j \in Popped(k) : f[j] = w
    BY DEF Woken
  <2> QED
    BY <2>1, <2>2, <2>3 DEF Bijection, Injection, Surjection, IsInjective
<1> QED
  BY <1>1, <1>2, FS_Bijection DEF ExistsBijection

(* Lemma: the loop of add_tokens over the first k senders.  It keeps the   *)
(* types and the queue, and curr_running counts exactly the tasks it woke. *)
LEMMA GrantLoop ==
  ASSUME TypeOK, Queued, NEW k \in 1..Len(notifiers), GrantUpTo(k),
         curr_running = Cardinality(Using) + leaked, leaked' = leaked
  PROVE  /\ notifiers' \in Seq(Tasks \cup {Gone})
         /\ task' \in [Tasks -> TaskState]
         /\ Queued'
         /\ Live' # {} => Live # {}
         /\ Using' = Using \cup Woken(k)
         /\ curr_running' \in 0..(Usize - 1)
         /\ curr_running' = Cardinality(Using') + leaked
         /\ curr_running' = curr_running + Cardinality(Popped(k))
<1>1. /\ notifiers' \in Seq(Tasks \cup {Gone})
      /\ Len(notifiers') = Len(notifiers) - k
      /\ \A i \in 1..(Len(notifiers) - k) : notifiers'[i] = notifiers[k + i]
  BY SubSeqProperties DEF TypeOK, GrantUpTo
<1>2. \A t \in Tasks : task'[t] = IF t \in Woken(k) THEN "granted" ELSE task[t]
  BY DEF GrantUpTo, Woken, Popped
<1>3. task' \in [Tasks -> TaskState]
  BY DEF GrantUpTo, TypeOK, TaskState
<1>4. \A w \in Woken(k) : w \in Tasks /\ task[w] = "waiting"
  BY TokenAssumption DEF Woken, Popped, Live, Queued, TypeOK
<1>5. Queued'
  <2>1. ASSUME NEW i \in 1..Len(notifiers'), notifiers'[i] # Gone
        PROVE  task'[notifiers'[i]] = "waiting"
    <3>1. /\ k + i \in 1..Len(notifiers)
          /\ notifiers'[i] = notifiers[k + i]
          /\ k + i > k
      BY <1>1 DEF TypeOK
    <3>2. notifiers'[i] \in Tasks /\ task[notifiers'[i]] = "waiting"
      BY <2>1, <3>1 DEF Queued, TypeOK
    <3>3. notifiers'[i] \notin Woken(k)
      BY <2>1, <3>1 DEF Woken, Popped, Live, Queued
    <3> QED
      BY <1>2, <3>2, <3>3
  <2>2. ASSUME NEW i \in 1..Len(notifiers'), NEW j \in 1..Len(notifiers'),
               notifiers'[j] # Gone, notifiers'[i] = notifiers'[j]
        PROVE  i = j
    <3>1. /\ k + i \in 1..Len(notifiers)
          /\ k + j \in 1..Len(notifiers)
          /\ notifiers[k + i] = notifiers[k + j]
          /\ notifiers[k + j] # Gone
      BY <1>1, <2>2 DEF TypeOK
    <3>2. k + i = k + j
      BY <3>1 DEF Queued
    <3> QED
      BY <1>1, <3>2
  <2>3. ASSUME NEW u \in Tasks, task'[u] = "waiting"
        PROVE  \E i \in 1..Len(notifiers') : notifiers'[i] = u
    <3>1. task[u] = "waiting" /\ u \notin Woken(k)
      BY <1>2, <2>3
    <3>2. PICK i \in 1..Len(notifiers) : notifiers[i] = u
      BY <3>1 DEF Queued
    <3>3. i > k
      BY <3>1, <3>2, TokenAssumption DEF Woken, Popped, Live
    <3>4. i - k \in 1..Len(notifiers') /\ notifiers'[i - k] = u
      BY <1>1, <3>2, <3>3
    <3> QED
      BY <3>4
  <2> QED
    BY <2>1, <2>2, <2>3 DEF Queued
<1>6. Live' # {} => Live # {}
  <2>1. ASSUME NEW i \in Live' PROVE k + i \in Live
    BY <1>1, <2>1 DEF Live
  <2> QED
    BY <2>1
<1>7. Using' = Using \cup Woken(k)
  BY <1>2, <1>4 DEF Using
<1>8. Using \cap Woken(k) = {}
  BY <1>4 DEF Using
<1>9. IsFiniteSet(Woken(k)) /\ IsFiniteSet(Popped(k))
         /\ Cardinality(Woken(k)) = Cardinality(Popped(k))
  <2>1. k \in 0..Len(notifiers)
    BY DEF TypeOK
  <2> QED
    BY <2>1, WokenCount
<1>10. /\ Cardinality(Using \cup Woken(k))
          = Cardinality(Using) + Cardinality(Woken(k))
               - Cardinality(Using \cap Woken(k))
      /\ IsFiniteSet(Using \cup Woken(k))
  BY <1>9, UsingCount, FS_Union
<1>11. /\ Cardinality(Popped(k)) \in Nat
       /\ Cardinality(Woken(k)) = Cardinality(Popped(k))
  BY <1>9, FS_CardinalityType
<1>12. Cardinality(Using') = Cardinality(Using) + Cardinality(Popped(k))
  <2>1. Cardinality(Using \cap Woken(k)) = 0
    BY <1>8, FS_EmptySet
  <2> QED
    BY <1>7, <1>10, <1>11, <2>1, UsingCount
<1>13. Cardinality(Using') <= Cardinality(Tasks)
  <2>1. Using' \in SUBSET Tasks
    BY DEF Using
  <2> QED
    BY <2>1, FS_Subset, TokenAssumption
<1>14. /\ curr_running + Cardinality(Popped(k)) \in Nat
       /\ curr_running + Cardinality(Popped(k)) < Usize
  BY <1>11, <1>12, <1>13, UsingCount, TokenAssumption DEF TypeOK
<1>15. curr_running' = curr_running + Cardinality(Popped(k))
  <2>1. curr_running' = (curr_running + Cardinality(Popped(k))) % Usize
    BY DEF GrantUpTo, Popped
  <2> QED
    BY <2>1, <1>14, ModSmall, TokenAssumption
<1>16. curr_running' \in 0..(Usize - 1)
  BY <1>14, <1>15, TokenAssumption
<1>17. curr_running' = Cardinality(Using') + leaked
  BY <1>11, <1>12, <1>15, UsingCount DEF TypeOK
<1> QED
  BY <1>1, <1>3, <1>5, <1>6, <1>7, <1>15, <1>16, <1>17

-----------------------------------------------------------------------------
(* Lemma: a task that gets a slot in take_token makes Using one more.      *)
LEMMA SlotTaken ==
  ASSUME TypeOK, NEW t \in Tasks, t \notin Using, SetTask(t, "running")
  PROVE  /\ Cardinality(Using') = Cardinality(Using) + 1
         /\ Cardinality(Using') <= Cardinality(Tasks)
<1>1. Using' = Using \cup {t} /\ Using' \in SUBSET Tasks
  BY DEF Using, SetTask, TypeOK
<1> QED
  BY <1>1, UsingCount, FS_AddElement, FS_Subset, TokenAssumption

(* Lemma: a task that restores or loses its slot makes Using one fewer.    *)
LEMMA SlotLeft ==
  ASSUME TypeOK, NEW t \in Using, SetTask(t, "idle")
  PROVE  /\ Cardinality(Using) > 0
         /\ Cardinality(Using') = Cardinality(Using) - 1
<1>1. Using' = Using \ {t}
  BY DEF Using, SetTask, TypeOK
<1>2. Cardinality(Using) # 0
  BY UsingCount, FS_EmptySet
<1> QED
  BY <1>1, <1>2, UsingCount, FS_RemoveElement

(* Lemma: TokenSource::new establishes the invariant.                      *)
LEMMA TokenInit ==
  Init => IInv
<1> SUFFICES ASSUME Init PROVE IInv
  OBVIOUS
<1>1. TypeOK
  <2>1. /\ overflow_checks \in BOOLEAN
        /\ poisoned \in BOOLEAN
    BY DEF Init
  <2>2. /\ curr_tokens \in 0..(Usize - 1)
        /\ curr_running \in 0..(Usize - 1)
        /\ leaked \in 0..MaxLeaks
    BY TokenAssumption DEF Init
  <2>3. /\ notifiers \in Seq(Tasks \cup {Gone})
        /\ task \in [Tasks -> TaskState]
    BY DEF Init, TaskState
  <2> QED
    BY <2>1, <2>2, <2>3 DEF TypeOK
<1>2. Queued
  BY DEF Init, Queued
<1>3. RunningIsExact
  <2>1. Using = {}
    BY DEF Using, Init
  <2> QED
    BY <2>1, FS_EmptySet DEF RunningIsExact, Init
<1>4. NoNeedlessWait
  BY DEF NoNeedlessWait, Live, Init
<1> QED
  BY <1>1, <1>2, <1>3, <1>4 DEF IInv

-----------------------------------------------------------------------------
(* Lemma: the steps of the tasks keep the types and the queue.             *)
LEMMA TaskSteps ==
  ASSUME IInv, NEW t \in Tasks,
         \/ TakeNow(t) \/ TakeLater(t) \/ Granted(t) \/ Finish(t)
         \/ LockPanics(t) \/ AbandonWait(t) \/ AbandonSlot(t)
  PROVE  IInv'
<1>0. /\ TypeOK /\ Queued /\ RunningIsExact /\ NoNeedlessWait
      /\ ~poisoned => curr_running = Cardinality(Using) + leaked
  BY DEF IInv, RunningIsExact
<1>1. CASE TakeNow(t)
  <2>1. t \notin Using /\ SetTask(t, "running")
    BY <1>1 DEF TakeNow, Using
  <2>2. /\ Cardinality(Using') = Cardinality(Using) + 1
        /\ Cardinality(Using') <= Cardinality(Tasks)
    BY <1>0, <2>1, SlotTaken
  <2>3. curr_running = Cardinality(Using) + leaked
    BY <1>0, <1>1 DEF TakeNow
  <2>4. TypeOK'
    <3>1. curr_running' \in 0..(Usize - 1)
      BY <1>0, <1>1, <2>2, <2>3, UsingCount, TokenAssumption
         DEF TakeNow, TypeOK
    <3>2. curr_tokens' \in 0..(Usize - 1)
      BY <1>0, <1>1, TokenAssumption DEF TakeNow, TypeOK
    <3> QED
      BY <1>0, <1>1, <3>1, <3>2 DEF TakeNow, TypeOK, SetTask, TaskState
  <2>5. Queued'
    BY <1>0, <1>1 DEF TakeNow, TypeOK, SetTask, Queued
  <2>6. RunningIsExact'
    BY <1>0, <1>1, <2>2, <2>3, UsingCount DEF TakeNow, RunningIsExact, TypeOK
  <2>7. NoNeedlessWait'
    BY <1>0, <1>1 DEF TakeNow, NoNeedlessWait, Live
  <2> QED
    BY <2>4, <2>5, <2>6, <2>7 DEF IInv
<1>2. CASE TakeLater(t)
  <2>1. /\ Len(notifiers') = Len(notifiers) + 1
        /\ notifiers'[Len(notifiers) + 1] = t
        /\ \A k \in 1..Len(notifiers) : notifiers'[k] = notifiers[k]
        /\ notifiers' \in Seq(Tasks \cup {Gone})
    BY <1>0, <1>2 DEF TakeLater, TypeOK
  <2>2. \A k \in 1..Len(notifiers) : notifiers[k] # t
    BY <1>0, <1>2, TokenAssumption DEF TakeLater, Queued
  <2>3. task' = [task EXCEPT ![t] = "waiting"] /\ task[t] = "idle"
    BY <1>2 DEF TakeLater, SetTask
  <2>4. TypeOK'
    BY <1>0, <1>2, <2>1, <2>3 DEF TakeLater, TypeOK, TaskState
  <2>5. Queued'
    <3>1. \A k \in 1..Len(notifiers') :
            notifiers'[k] # Gone => task'[notifiers'[k]] = "waiting"
      BY <1>0, <2>1, <2>3 DEF Queued, TypeOK
    <3>2. \A j, k \in 1..Len(notifiers') :
            notifiers'[k] # Gone /\ notifiers'[j] = notifiers'[k] => j = k
      BY <1>0, <2>1, <2>2 DEF Queued, TypeOK
    <3>3. ASSUME NEW u \in Tasks, task'[u] = "waiting"
          PROVE  \E k \in 1..Len(notifiers') : notifiers'[k] = u
      BY <1>0, <2>1, <2>3, <3>3 DEF Queued, TypeOK
    <3> QED
      BY <3>1, <3>2, <3>3 DEF Queued
  <2>6. RunningIsExact'
    <3>1. Using' = Using
      BY <1>0, <2>3 DEF Using, TypeOK
    <3> QED
      BY <1>0, <1>2, <3>1 DEF TakeLater, RunningIsExact
  <2>7. NoNeedlessWait'
    BY <1>2 DEF TakeLater, NoNeedlessWait
  <2> QED
    BY <2>4, <2>5, <2>6, <2>7 DEF IInv
<1>3. CASE Granted(t)
  <2>1. TypeOK'
    BY <1>0, <1>3 DEF Granted, TypeOK, SetTask, TaskState
  <2>2. Queued'
    BY <1>0, <1>3 DEF Granted, TypeOK, SetTask, Queued
  <2>3. RunningIsExact'
    <3>1. Using' = Using
      BY <1>0, <1>3 DEF Granted, SetTask, Using, TypeOK
    <3> QED
      BY <1>0, <1>3, <3>1 DEF Granted, RunningIsExact
  <2>4. NoNeedlessWait'
    BY <1>0, <1>3 DEF Granted, NoNeedlessWait, Live
  <2> QED
    BY <2>1, <2>2, <2>3, <2>4 DEF IInv
<1>4. CASE Finish(t)
  <2>1. t \in Using /\ SetTask(t, "idle")
    BY <1>4 DEF Finish, Using
  <2>2. /\ Cardinality(Using) > 0
        /\ Cardinality(Using') = Cardinality(Using) - 1
    BY <1>0, <2>1, SlotLeft
  <2>3. curr_running = Cardinality(Using) + leaked
    BY <1>0, <1>4 DEF Finish
  <2>4. TypeOK'
    <3>1. curr_running' \in 0..(Usize - 1)
      BY <1>0, <1>4, <2>2, <2>3, UsingCount, TokenAssumption
         DEF Finish, TypeOK
    <3> QED
      BY <1>0, <1>4, <3>1 DEF Finish, TypeOK, SetTask, TaskState
  <2>5. Queued'
    BY <1>0, <1>4 DEF Finish, TypeOK, SetTask, Queued
  <2>6. RunningIsExact'
    BY <1>0, <1>4, <2>2, <2>3, UsingCount DEF Finish, RunningIsExact, TypeOK
  <2>7. NoNeedlessWait'
    BY <1>0, <1>4 DEF Finish, NoNeedlessWait, Live
  <2> QED
    BY <2>4, <2>5, <2>6, <2>7 DEF IInv
<1>5. CASE LockPanics(t)
  <2>1. TypeOK'
    BY <1>0, <1>5 DEF LockPanics, TypeOK, SetTask, TaskState
  <2>2. Queued'
    BY <1>0, <1>5 DEF LockPanics, TypeOK, SetTask, Queued
  <2>3. RunningIsExact'
    BY <1>5 DEF LockPanics, RunningIsExact
  <2>4. NoNeedlessWait'
    BY <1>0, <1>5 DEF LockPanics, NoNeedlessWait, Live
  <2> QED
    BY <2>1, <2>2, <2>3, <2>4 DEF IInv
<1>6. CASE AbandonWait(t)
  <2>1. /\ Len(notifiers') = Len(notifiers)
        /\ \A k \in 1..Len(notifiers) :
             notifiers'[k] = IF notifiers[k] = t THEN Gone ELSE notifiers[k]
        /\ notifiers' \in Seq(Tasks \cup {Gone})
    BY <1>0, <1>6 DEF AbandonWait, TypeOK
  <2>2. task' = [task EXCEPT ![t] = "idle"] /\ task[t] = "waiting"
    BY <1>6 DEF AbandonWait, SetTask
  <2>3. TypeOK'
    BY <1>0, <1>6, <2>1, <2>2 DEF AbandonWait, TypeOK, TaskState
  <2>4. Queued'
    BY <1>0, <2>1, <2>2, TokenAssumption DEF TypeOK, Queued
  <2>5. RunningIsExact'
    <3>1. Using' = Using
      BY <1>0, <2>2 DEF Using, TypeOK
    <3> QED
      BY <1>0, <1>6, <3>1 DEF AbandonWait, RunningIsExact
  <2>6. NoNeedlessWait'
    <3>1. Live' # {} => Live # {}
      BY <2>1 DEF Live
    <3> QED
      BY <1>0, <1>6, <3>1 DEF AbandonWait, NoNeedlessWait
  <2> QED
    BY <2>3, <2>4, <2>5, <2>6 DEF IInv
<1>7. CASE AbandonSlot(t)
  <2>1. t \in Using /\ SetTask(t, "idle")
    BY <1>7 DEF AbandonSlot, Using
  <2>2. /\ Cardinality(Using) > 0
        /\ Cardinality(Using') = Cardinality(Using) - 1
    BY <1>0, <2>1, SlotLeft
  <2>3. TypeOK'
    <3>1. leaked' \in 0..MaxLeaks
      BY <1>0, <1>7, TokenAssumption DEF AbandonSlot, TypeOK
    <3> QED
      BY <1>0, <1>7, <3>1 DEF AbandonSlot, TypeOK, SetTask, TaskState
  <2>4. Queued'
    BY <1>0, <1>7 DEF AbandonSlot, TypeOK, SetTask, Queued
  <2>5. RunningIsExact'
    BY <1>0, <1>7, <2>2, UsingCount DEF AbandonSlot, RunningIsExact, TypeOK
  <2>6. NoNeedlessWait'
    BY <1>0, <1>7 DEF AbandonSlot, NoNeedlessWait, Live
  <2> QED
    BY <2>3, <2>4, <2>5, <2>6 DEF IInv
<1> QED
  BY <1>1, <1>2, <1>3, <1>4, <1>5, <1>6, <1>7

(* Lemma: a tick of the timer keeps the invariant, whatever num_tokens     *)
(* underflows to.                                                          *)
LEMMA TimerStep ==
  ASSUME IInv, add_tokens
  PROVE  IInv'
<1>0. TypeOK /\ Queued /\ RunningIsExact /\ NoNeedlessWait
  BY DEF IInv
<1>1. curr_running = Cardinality(Using) + leaked
  BY <1>0 DEF add_tokens, AddUnclaimed, AddClaimed, AddUnderflowPanics,
              AddUnderflowWraps, RunningIsExact
<1>2. Usize > 0 /\ Usize \in Nat
  BY UsingCount, TokenAssumption
<1>3. CASE AddUnclaimed
  <2>1. \A t \in Tasks : task[t] # "waiting"
    BY <1>0, <1>3, TokenAssumption DEF AddUnclaimed, Queued, Live
  <2>2. notifiers' = <<>> /\ UNCHANGED <<overflow_checks, curr_running, task,
                                        leaked>>
    BY <1>3 DEF AddUnclaimed
  <2>3. curr_tokens' \in 0..(Usize - 1) /\ poisoned' \in BOOLEAN
    <3>1. Allowed \in Int
      BY <1>0, TokenAssumption DEF Allowed, MinOf, TypeOK
    <3>2. curr_tokens + Allowed \in Int
      BY <1>0, <3>1 DEF TypeOK
    <3>3. (curr_tokens + Allowed) % Usize \in 0..(Usize - 1)
      BY <1>2, <3>2, ModType
    <3> QED
      BY <1>0, <1>3, <3>3 DEF AddUnclaimed, TypeOK
  <2>4. TypeOK'
    BY <1>0, <2>2, <2>3 DEF TypeOK
  <2>5. Queued'
    BY <2>1, <2>2 DEF Queued
  <2>6. RunningIsExact'
    BY <1>1, <2>2 DEF RunningIsExact, Using
  <2>7. NoNeedlessWait'
    BY <2>2 DEF NoNeedlessWait, Live
  <2> QED
    BY <2>4, <2>5, <2>6, <2>7 DEF IInv
<1>4. ASSUME AddClaimed \/ AddUnderflowPanics PROVE IInv'
  <2>1. PICK k \in Live : GrantUpTo(k)
    BY <1>4 DEF AddClaimed, AddUnderflowPanics
  <2>2. k \in 1..Len(notifiers)
    BY DEF Live
  <2>3. /\ UNCHANGED <<overflow_checks, curr_tokens, leaked>>
        /\ poisoned' \in BOOLEAN
    BY <1>0, <1>4 DEF AddClaimed, AddUnderflowPanics, TypeOK
  <2>4. /\ notifiers' \in Seq(Tasks \cup {Gone})
        /\ task' \in [Tasks -> TaskState]
        /\ Queued'
        /\ Live' # {} => Live # {}
        /\ curr_running' \in 0..(Usize - 1)
        /\ curr_running' = Cardinality(Using') + leaked
    BY <1>0, <1>1, <2>1, <2>2, <2>3, GrantLoop
  <2>5. TypeOK'
    BY <1>0, <2>3, <2>4 DEF TypeOK
  <2>6. RunningIsExact'
    BY <2>3, <2>4 DEF RunningIsExact
  <2>7. NoNeedlessWait'
    BY <1>0, <2>3, <2>4 DEF NoNeedlessWait
  <2> QED
    BY <2>4, <2>5, <2>6, <2>7 DEF IInv
<1>5. CASE AddUnderflowWraps
  <2>1. /\ GrantUpTo(Len(notifiers))
        /\ Live # {}
        /\ UNCHANGED <<overflow_checks, poisoned, leaked>>
    BY <1>5 DEF AddUnderflowWraps
  <2>2. Len(notifiers) \in 1..Len(notifiers)
    BY <1>0, <2>1 DEF Live, TypeOK
  <2>3. /\ notifiers' \in Seq(Tasks \cup {Gone})
        /\ task' \in [Tasks -> TaskState]
        /\ Queued'
        /\ curr_running' \in 0..(Usize - 1)
        /\ curr_running' = Cardinality(Using') + leaked
    BY <1>0, <1>1, <2>1, <2>2, GrantLoop
  <2>4. curr_tokens' \in 0..(Usize - 1)
    <3>1. Popped(Len(notifiers)) = Live
      BY <1>0 DEF Popped, Live, TypeOK
    <3>2. Len(notifiers) \in 0..Len(notifiers)
      BY <2>2
    <3>3. Cardinality(Live) \in Nat
      BY <1>0, <3>1, <3>2, WokenCount, FS_CardinalityType
    <3>4. curr_tokens + Usize - Cardinality(Live) \in Int
      BY <1>0, <1>2, <3>3 DEF TypeOK
    <3> QED
      BY <1>2, <1>5, <3>4, ModType DEF AddUnderflowWraps
  <2>5. TypeOK'
    BY <1>0, <2>1, <2>3, <2>4 DEF TypeOK
  <2>6. RunningIsExact'
    BY <2>1, <2>3 DEF RunningIsExact
  <2>7. NoNeedlessWait'
    <3>1. notifiers' = <<>>
      BY <1>0, <2>1, <2>2, SubSeqEmpty DEF GrantUpTo, TypeOK
    <3> QED
      BY <3>1 DEF NoNeedlessWait, Live
  <2> QED
    BY <2>3, <2>5, <2>6, <2>7 DEF IInv
<1> QED
  BY <1>3, <1>4, <1>5 DEF add_tokens

(* Lemma: the invariant holds in every reachable state.                    *)
LEMMA TokenInvariant ==
  Spec => []IInv
<1>1. IInv /\ [Next]_vars => IInv'
  <2> SUFFICES ASSUME IInv, [Next]_vars PROVE IInv'
    OBVIOUS
  <2>1. CASE UNCHANGED vars
    BY <2>1 DEF vars, IInv, TypeOK, Queued, RunningIsExact, Using,
                NoNeedlessWait, Live
  <2>2. CASE add_tokens
    BY <2>2, TimerStep
  <2> QED
    BY <2>1, <2>2, TaskSteps DEF Next
<1> QED
  BY TokenInit, <1>1, PTL DEF Spec

-----------------------------------------------------------------------------
(* curr_tokens, curr_running and the rest keep their types: neither the    *)
(* decrement in restore_slot nor the increments of curr_running wrap.      *)
THEOREM TokenTypeCorrect ==
  Spec => []TypeOK
<1>1. IInv => TypeOK
  BY DEF IInv
<1> QED
  BY TokenInvariant, <1>1, PTL

(* Until a panic, curr_running is exactly the number of slots in use or    *)
(* lost to dropped futures, also across the ticks whose num_tokens         *)
(* underflows.                                                             *)
THEOREM TokenCountsRunning ==
  Spec => []RunningIsExact
<1>1. IInv => RunningIsExact
  BY DEF IInv
<1> QED
  BY TokenInvariant, <1>1, PTL

(* A waiting task has exactly one live sender queued, so the unwrap in     *)
(* take_token does not fail.                                               *)
THEOREM TokenKeepsItsWaiters ==
  Spec => []WaitersAreQueued
<1>1. ASSUME IInv, NEW t \in Tasks
      PROVE  task[t] = "waiting" <=>
               \E k \in 1..Len(notifiers) :
                 /\ notifiers[k] = t
                 /\ \A j \in 1..Len(notifiers) : notifiers[j] = t => j = k
  BY <1>1, TokenAssumption DEF IInv, TypeOK, Queued
<1>2. IInv => WaitersAreQueued
  BY <1>1 DEF WaitersAreQueued
<1> QED
  BY TokenInvariant, <1>2, PTL

(* Nobody waits while there are tokens.                                    *)
THEOREM TokenServesWhatItHas ==
  Spec => []NoNeedlessWait
<1>1. IInv => NoNeedlessWait
  BY DEF IInv
<1> QED
  BY TokenInvariant, <1>1, PTL

(* add_tokens panics under the mutex only when it finds a listening waiter *)
(* with max_tokens slots in use, or when curr_tokens is at its maximum.    *)
THEOREM TokenPanicIsSaturation ==
  Spec => PoisonNeedsSaturation
<1>1. ASSUME IInv, [Next]_vars, ~poisoned, poisoned'
      PROVE  \/ Live # {} /\ curr_running >= max_tokens
             \/ curr_tokens = Usize - 1
  <2>0. TypeOK
    BY <1>1 DEF IInv
  <2>1. Allowed \in 0..1
    BY <2>0, TokenAssumption DEF Allowed, MinOf, TypeOK
  <2>2. AddUnclaimed \/ AddUnderflowPanics
    BY <1>1 DEF Next, vars, TakeNow, TakeLater, Granted, Finish, LockPanics,
                AbandonWait, AbandonSlot, add_tokens, AddClaimed,
                AddUnderflowWraps
  <2>3. CASE AddUnclaimed
    <3>1. curr_tokens + Allowed >= Usize
      BY <1>1, <2>3 DEF AddUnclaimed
    <3> QED
      BY <2>0, <2>1, <3>1, TokenAssumption DEF TypeOK
  <2>4. CASE AddUnderflowPanics
    <3>1. Live # {} /\ Allowed = 0
      BY <2>4 DEF AddUnderflowPanics
    <3> QED
      BY <2>0, <3>1, TokenAssumption DEF Allowed, MinOf, TypeOK
  <2> QED
    BY <2>2, <2>3, <2>4
<1>2. IInv /\ [Next]_vars =>
        [~poisoned /\ poisoned' =>
           \/ Live # {} /\ curr_running >= max_tokens
           \/ curr_tokens = Usize - 1]_vars
  BY <1>1
<1>3. Spec => [][Next]_vars
  BY PTL DEF Spec
<1> QED
  BY TokenInvariant, <1>2, <1>3, PTL DEF PoisonNeedsSaturation

(* Lemma: a step that starts nobody but, at most, task w.                  *)
LEMMA StartsAtMostOne ==
  ASSUME NEW w, Starts \subseteq {w}
  PROVE  Cardinality(Starts) \in 0..1
<1>1. Starts = {} \/ Starts = {w}
  OBVIOUS
<1>2. CASE Starts = {}
  <2>1. Cardinality(Starts) = 0
    BY <1>2, FS_EmptySet
  <2> QED
    BY <2>1
<1>3. CASE Starts = {w}
  <2>1. Cardinality({w}) = 1
    BY FS_Singleton
  <2> QED
    BY <1>3, <2>1
<1> QED
  BY <1>1, <1>2, <1>3

(* The rate limit.  In a build with overflow checks only a tick makes new  *)
(* starts or stored tokens, at most one, so a timer of period p lets at    *)
(* most max_tokens + n tasks start in time n * p.                          *)
THEOREM TokenRateLimit ==
  Spec => AtMostOneTokenPerTick
<1> DEFINE Made(n) == Cardinality(Starts) + curr_tokens' <= curr_tokens + n
<1>1. ASSUME IInv, [Next]_vars, overflow_checks
      PROVE  Made(0) \/ (add_tokens /\ Made(1))
  <2>0. TypeOK /\ Queued /\ curr_tokens \in Nat
    BY <1>1, UsingCount, TokenAssumption DEF IInv, TypeOK
  <2>1. ASSUME NEW t \in Tasks, TakeNow(t)
        PROVE  Made(0)
    <3>1. Starts \subseteq {t}
      BY <2>0, <2>1 DEF TakeNow, SetTask, Starts, TypeOK
    <3>2. Cardinality(Starts) \in 0..1
      BY <3>1, StartsAtMostOne
    <3> QED
      BY <2>0, <2>1, <3>2 DEF TakeNow
  <2>2. ASSUME NEW t \in Tasks,
               \/ TakeLater(t) \/ Granted(t) \/ Finish(t) \/ LockPanics(t)
               \/ AbandonWait(t) \/ AbandonSlot(t)
        PROVE  Made(0)
    <3>1. Starts = {} /\ curr_tokens' = curr_tokens
      BY <2>0, <2>2 DEF TakeLater, Granted, Finish, LockPanics, AbandonWait,
                        AbandonSlot, SetTask, Starts, TypeOK
    <3> QED
      BY <2>0, <3>1, FS_EmptySet
  <2>3. ASSUME AddUnclaimed
        PROVE  Made(1)
    <3>1. Starts = {}
      BY <2>3 DEF AddUnclaimed, Starts
    <3>2. Allowed \in 0..1
      BY <2>0, TokenAssumption DEF Allowed, MinOf, TypeOK
    <3>3. curr_tokens' <= curr_tokens + 1 /\ curr_tokens' \in Nat
      <4>1. CASE curr_tokens + Allowed >= Usize
        BY <1>1, <2>0, <2>3, <4>1 DEF AddUnclaimed
      <4>2. CASE ~(curr_tokens + Allowed >= Usize)
        <5>1. curr_tokens' = (curr_tokens + Allowed) % Usize
          BY <2>3, <4>2 DEF AddUnclaimed
        <5>2. curr_tokens' = curr_tokens + Allowed
          BY <2>0, <3>2, <4>2, <5>1, ModSmall, TokenAssumption
        <5> QED
          BY <2>0, <3>2, <5>2
      <4> QED
        BY <4>1, <4>2
    <3> QED
      BY <2>0, <3>1, <3>3, FS_EmptySet
  <2>4. ASSUME AddClaimed \/ AddUnderflowPanics
        PROVE  Made(1)
    <3>1. PICK k \in Live : (\A j \in Live : k <= j) /\ GrantUpTo(k)
      BY <2>4 DEF AddClaimed, AddUnderflowPanics
    <3>2. \A j \in Live : j <= k => j = k
      BY <3>1 DEF Live
    <3>3. Starts \subseteq {notifiers[k]}
      BY <3>1, <3>2 DEF GrantUpTo, Starts
    <3>4. Cardinality(Starts) \in 0..1
      BY <3>3, StartsAtMostOne
    <3>5. curr_tokens' = curr_tokens
      BY <2>4 DEF AddClaimed, AddUnderflowPanics
    <3> QED
      BY <2>0, <3>4, <3>5
  <2>5. ASSUME UNCHANGED vars
        PROVE  Made(0)
    <3>1. Starts = {} /\ curr_tokens' = curr_tokens
      BY <2>5 DEF vars, Starts
    <3> QED
      BY <2>0, <3>1, FS_EmptySet
  <2>6. ~AddUnderflowWraps
    BY <1>1 DEF AddUnderflowWraps
  <2> QED
    BY <1>1, <2>1, <2>2, <2>3, <2>4, <2>5, <2>6 DEF Next, add_tokens
<1>2. IInv /\ [Next]_vars =>
        [overflow_checks =>
           \/ Cardinality(Starts) + curr_tokens' <= curr_tokens
           \/ /\ add_tokens
              /\ Cardinality(Starts) + curr_tokens' <= curr_tokens + 1]_vars
  <2>1. IInv /\ [Next]_vars /\ Made(0) =>
          Cardinality(Starts) + curr_tokens' <= curr_tokens
    BY UsingCount, TokenAssumption DEF IInv, TypeOK
  <2> QED
    BY <1>1, <2>1
<1>3. Spec => [][Next]_vars
  BY PTL DEF Spec
<1> QED
  BY TokenInvariant, <1>2, <1>3, PTL DEF AtMostOneTokenPerTick

=============================================================================
