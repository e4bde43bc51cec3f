----------------------------- MODULE MCThreads -----------------------------
(* Instances of Threads for TLC: the main thread and one or two others. *)
EXTENDS Threads

CONSTANTS main, t1, t2, m, c

Two == {main, t1}
Three == {main, t1, t2}
OneMutex == {m}
OneCond == {c}
NoObject == {}

All(f) == [t \in Thread |-> f]

LockCalls == All({"lock", "trylock", "yield", "start", "exit"})
WaitCalls == All({"wait", "start", "restart", "exit", "kill"})

(* Only t1 waits for the clock; it may be killed and started again.        *)
OneSleeper == [t \in Thread |->
                 CASE t = t1 -> {"wait", "lock"}
                   [] t = main -> {"start", "restart", "join", "kill"}
                   [] OTHER -> {"lock", "trylock", "yield", "exit", "join"}]

(* Only t1 waits with a deadline; another thread waits without one.        *)
OneTimed == [t \in Thread |->
               CASE t = t1 -> {"lock", "cond_timedwait"}
                 [] t = main -> {"start", "restart", "kill", "signal"}
                 [] OTHER -> {"lock", "cond_wait", "exit"}]
WaitOnly == [t \in Thread |-> IF t = t1 THEN {"wait"} ELSE {"start", "yield"}]

ShortDelays == {1, 3}
OneDelay == {1}
LongDelay == {3}
NoDelay == {}

(* What those theorems suppose holds of these programs.                    *)
ASSUME TheoremsApply ==
  /\ Calls # OneTimed => Untimed
  /\ Calls = OneSleeper => SingleWaiter

=============================================================================
