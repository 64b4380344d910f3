---------------------------- MODULE TokenSource ----------------------------
(***************************************************************************)
(* The request throttle of the Twitch client                               *)
(* (services/live/twitch/token_source.rs and throttled_token_source.rs):   *)
(* run_with_token starts a future with a token or waits for one, a timer   *)
(* adds tokens.  Each operation runs under one mutex; a task may drop its  *)
(* run_with_token future at any await.                                     *)
(*                                                                         *)
(* add_tokens decrements a usize that may be 0.  A build with overflow     *)
(* checks panics there and poisons the mutex; a release build wraps around *)
(* at Usize, which stands for 2^64.                                        *)
(***************************************************************************)
EXTENDS Integers, Sequences, FiniteSets

CONSTANTS
  Tasks,       \* callers of run_with_token
  max_tokens,  \* TokenSource.max_tokens
  Usize,       \* the modulus of usize
  MaxLeaks,    \* bound: running slots lost to dropped futures
  MaxQueue,    \* bound: length of the notifier queue
  Gone         \* a oneshot sender whose receiver was dropped

ASSUME TokenAssumption ==
  /\ IsFiniteSet(Tasks)
  /\ max_tokens \in Nat
  /\ MaxLeaks \in Nat
  /\ MaxQueue \in Nat
  /\ Usize \in Nat
  /\ max_tokens < Usize
  /\ Cardinality(Tasks) + MaxLeaks < Usize
  /\ Gone \notin Tasks

VARIABLES
  overflow_checks,  \* the build profile; never changes
  poisoned,         \* add_tokens has panicked with the mutex locked
  curr_tokens,      \* State.curr_tokens
  curr_running,     \* State.curr_running
  notifiers,        \* the oneshot senders, oldest first
  task,             \* where each task stands
  leaked            \* history: slots counted as running that nobody uses

vars == <<overflow_checks, poisoned, curr_tokens, curr_running, notifiers,
          task, leaked>>

-----------------------------------------------------------------------------
TaskState == {"idle", "waiting", "granted", "running", "panicked"}
SetTask(t, s) == task' = [task EXCEPT ![t] = s]
Live == {k \in 1..Len(notifiers) : notifiers[k] # Gone}
MinOf(a, b) == IF a <= b THEN a ELSE b

Init ==
  /\ overflow_checks \in BOOLEAN
  /\ poisoned = FALSE
  /\ curr_tokens = max_tokens
  /\ curr_running = 0
  /\ notifiers = <<>>
  /\ task = [t \in Tasks |-> "idle"]
  /\ leaked = 0

(* take_token with a token left.                                           *)
TakeNow(t) ==
  /\ ~poisoned
  /\ task[t] = "idle"
  /\ curr_tokens > 0
  /\ curr_tokens' = curr_tokens - 1
  /\ curr_running' = curr_running + 1
  /\ SetTask(t, "running")
  /\ UNCHANGED <<overflow_checks, poisoned, notifiers, leaked>>

(* take_token without one.                                                 *)
TakeLater(t) ==
  /\ ~poisoned
  /\ task[t] = "idle"
  /\ curr_tokens = 0
  /\ Len(notifiers) < MaxQueue
  /\ notifiers' = Append(notifiers, t)
  /\ SetTask(t, "waiting")
  /\ UNCHANGED <<overflow_checks, poisoned, curr_tokens, curr_running,
                 leaked>>

(* rx.await returns.                                                       *)
Granted(t) ==
  /\ task[t] = "granted"
  /\ SetTask(t, "running")
  /\ UNCHANGED <<overflow_checks, poisoned, curr_tokens, curr_running,
                 notifiers, leaked>>

(* Mutant: the slot is restored twice.                                     *)
FinishTwice(t) ==
  /\ ~poisoned
  /\ task[t] = "running"
  /\ curr_running' = curr_running - 2
  /\ SetTask(t, "idle")
  /\ UNCHANGED <<overflow_checks, poisoned, curr_tokens, notifiers, leaked>>

(* The future completes: restore_slot.                                     *)
Finish(t) ==
  /\ ~poisoned
  /\ task[t] = "running"
  /\ curr_running' = curr_running - 1
  /\ SetTask(t, "idle")
  /\ UNCHANGED <<overflow_checks, poisoned, curr_tokens, notifiers, leaked>>

(* state.lock().unwrap() on the poisoned mutex, in take_token and in       *)
(* restore_slot.                                                           *)
LockPanics(t) ==
  /\ poisoned
  /\ task[t] \in {"idle", "running"}
  /\ SetTask(t, "panicked")
  /\ UNCHANGED <<overflow_checks, poisoned, curr_tokens, curr_running,
                 notifiers, leaked>>

(* The run_with_token future is dropped while it waits ...                 *)
AbandonWait(t) ==
  /\ task[t] = "waiting"
  /\ notifiers' = [k \in 1..Len(notifiers) |->
                     IF notifiers[k] = t THEN Gone ELSE notifiers[k]]
  /\ SetTask(t, "idle")
  /\ UNCHANGED <<overflow_checks, poisoned, curr_tokens, curr_running,
                 leaked>>

(* ... or after its slot was counted: restore_slot is never called.        *)
AbandonSlot(t) ==
  /\ task[t] \in {"granted", "running"}
  /\ leaked < MaxLeaks
  /\ leaked' = leaked + 1
  /\ SetTask(t, "idle")
  /\ UNCHANGED <<overflow_checks, poisoned, curr_tokens, curr_running,
                 notifiers>>

-----------------------------------------------------------------------------
(* add_tokens(1), called by the interval timer.                            *)

(* Mutant: one slot fewer than max_tokens.                                 *)
AllowedOffByOne == MinOf(1, IF curr_running < max_tokens
                              THEN max_tokens - 1 - curr_running
                              ELSE 0)

(* The number of tokens that may be added: num_tokens after the min.       *)
Allowed == MinOf(1, IF curr_running <= max_tokens
                      THEN max_tokens - curr_running
                      ELSE 0)

(* Mutants: the granted tasks are not counted as running; the rest of the  *)
(* queue is thrown away.                                                   *)
GrantUncounted(k) ==
  /\ notifiers' = SubSeq(notifiers, k + 1, Len(notifiers))
  /\ task' = [t \in Tasks |->
                IF \E j \in Live : j <= k /\ notifiers[j] = t
                  THEN "granted" ELSE task[t]]
  /\ UNCHANGED curr_running

GrantForgetsQueue(k) ==
  /\ notifiers' = <<>>
  /\ task' = [t \in Tasks |->
                IF \E j \in Live : j <= k /\ notifiers[j] = t
                  THEN "granted" ELSE task[t]]
  /\ curr_running' =
       (curr_running + Cardinality({j \in Live : j <= k})) % Usize

(* The loop over the notifiers up to position k: the senders before k and  *)
(* k itself are popped, the ones still listening are granted.              *)
GrantUpTo(k) ==
  /\ notifiers' = SubSeq(notifiers, k + 1, Len(notifiers))
  /\ task' = [t \in Tasks |->
                IF \E j \in Live : j <= k /\ notifiers[j] = t
                  THEN "granted" ELSE task[t]]
  /\ curr_running' =
       (curr_running + Cardinality({j \in Live : j <= k})) % Usize

(* Nobody listens: the queue is emptied, the tokens are added.             *)
AddUnclaimed ==
  /\ ~poisoned
  /\ Live = {}
  /\ notifiers' = <<>>
  /\ IF overflow_checks /\ curr_tokens + Allowed >= Usize
       THEN poisoned' = TRUE /\ UNCHANGED curr_tokens
       ELSE /\ curr_tokens' = (curr_tokens + Allowed) % Usize
            /\ UNCHANGED poisoned
  /\ UNCHANGED <<overflow_checks, curr_running, task, leaked>>

(* Mutants: the token is stored although somebody listens; it is granted   *)
(* and stored.                                                             *)
AddStored ==
  /\ ~poisoned
  /\ Allowed = 1
  /\ Live # {}
  /\ curr_tokens' = (curr_tokens + 1) % Usize
  /\ UNCHANGED <<overflow_checks, poisoned, curr_running, notifiers, task,
                 leaked>>

AddClaimedTwice ==
  /\ ~poisoned
  /\ Allowed = 1
  /\ \E k \in Live : /\ \A j \in Live : k <= j
                     /\ GrantUpTo(k)
  /\ curr_tokens' = (curr_tokens + 1) % Usize
  /\ UNCHANGED <<overflow_checks, poisoned, leaked>>

(* One token, one listener: the oldest one gets it.                        *)
AddClaimed ==
  /\ ~poisoned
  /\ Allowed = 1
  /\ \E k \in Live : /\ \A j \in Live : k <= j
                     /\ GrantUpTo(k)
  /\ UNCHANGED <<overflow_checks, poisoned, curr_tokens, leaked>>

(* Mutant: without a token add_tokens returns at once.                     *)
AddNothing ==
  /\ ~poisoned
  /\ overflow_checks
  /\ Allowed = 0
  /\ Live # {}
  /\ UNCHANGED vars

(* No token but a listener: it is granted all the same, and num_tokens     *)
(* goes below 0.  With overflow checks that is a panic.                    *)
AddUnderflowPanics ==
  /\ ~poisoned
  /\ overflow_checks
  /\ Allowed = 0
  /\ \E k \in Live : /\ \A j \in Live : k <= j
                     /\ GrantUpTo(k)
  /\ poisoned' = TRUE
  /\ UNCHANGED <<overflow_checks, curr_tokens, leaked>>

(* Without, num_tokens wraps, every listener is granted and what is left   *)
(* of the huge number is added to curr_tokens.                             *)
AddUnderflowWraps ==
  /\ ~poisoned
  /\ ~overflow_checks
  /\ Allowed = 0
  /\ Live # {}
  /\ GrantUpTo(Len(notifiers))
  /\ curr_tokens' = (curr_tokens + Usize - Cardinality(Live)) % Usize
  /\ UNCHANGED <<overflow_checks, poisoned, leaked>>

add_tokens ==
  AddUnclaimed \/ AddClaimed \/ AddUnderflowPanics \/ AddUnderflowWraps

Next ==
  \/ \E t \in Tasks : \/ TakeNow(t)
                      \/ TakeLater(t)
                      \/ Granted(t)
                      \/ Finish(t)
                      \/ LockPanics(t)
                      \/ AbandonWait(t)
                      \/ AbandonSlot(t)
  \/ add_tokens

(* The timer keeps ticking (until add_tokens panics in its task), a woken  *)
(* task runs.                                                              *)
Fairness ==
  /\ WF_vars(add_tokens)
  /\ \A t \in Tasks : WF_vars(Granted(t))

Spec == Init /\ [][Next]_vars /\ Fairness

-----------------------------------------------------------------------------
TypeOK ==
  /\ overflow_checks \in BOOLEAN
  /\ poisoned \in BOOLEAN
  /\ curr_tokens \in 0..(Usize - 1)
  /\ curr_running \in 0..(Usize - 1)
  /\ notifiers \in Seq(Tasks \cup {Gone})
  /\ task \in [Tasks -> TaskState]
  /\ leaked \in 0..MaxLeaks

(* curr_running counts exactly the tasks that were given a slot and have   *)
(* not restored it, and the slots lost to dropped futures; restore_slot    *)
(* never takes it below 0.                                                 *)
Using == {t \in Tasks : task[t] \in {"granted", "running"}}
RunningIsExact ==
  ~poisoned => curr_running = Cardinality(Using) + leaked

(* A waiting task is in the queue exactly once, so the rx.await.unwrap()   *)
(* of take_token never meets a sender dropped unused.                      *)
WaitersAreQueued ==
  \A t \in Tasks :
    task[t] = "waiting" <=>
      \E k \in 1..Len(notifiers) :
        /\ notifiers[k] = t
        /\ \A j \in 1..Len(notifiers) : notifiers[j] = t => j = k

(* Nobody waits while there are tokens.                                    *)
NoNeedlessWait == Live # {} => curr_tokens = 0

(* The rate limit, in a build with overflow checks: only a tick of the     *)
(* timer makes new starts or stored tokens, at most one; every other start *)
(* uses up a stored token.                                                 *)
Starts == {t \in Tasks : /\ task[t] \notin {"granted", "running"}
                         /\ task'[t] \in {"granted", "running"}}
AtMostOneTokenPerTick ==
  [][overflow_checks =>
       \/ Cardinality(Starts) + curr_tokens' <= curr_tokens
       \/ /\ add_tokens
          /\ Cardinality(Starts) + curr_tokens' <= curr_tokens + 1]_vars

(* The mutex is poisoned only by a tick that found a listener although     *)
(* max_tokens slots were in use (or leaked), or a full token counter.      *)
PoisonNeedsSaturation ==
  [][~poisoned /\ poisoned' =>
       \/ Live # {} /\ curr_running >= max_tokens
       \/ curr_tokens = Usize - 1]_vars

(* A waiting task gets its turn or gives up, unless the timer's task died. *)
WaiterServed ==
  \A t \in Tasks : task[t] = "waiting" ~> (task[t] # "waiting" \/ poisoned)

=============================================================================
