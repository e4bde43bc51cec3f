------------------------------ MODULE Threads ------------------------------
(***************************************************************************)
(* The preemptive threads of stuff/threads/threads.s.                      *)
(*                                                                         *)
(* One processor runs the current thread ct.  The video interrupt vIRQ     *)
(* calls _gt_irq when frameCount wraps, between any two instructions of a  *)
(* thread; the thread itself enters the scheduler through _gt_sched.  The  *)
(* scheduler runs with interrupts masked, from VSAVE to VRESTORE, so that  *)
(* a passage through it is one step of the model, and everything else a    *)
(* thread does is cut where it may be interrupted.                         *)
(*                                                                         *)
(* A thread waits for the byte at wchan to be zero or, when wclk points to *)
(* a deadline in its stack, for the clock to reach it.  The scheduler only *)
(* watches the deadline of the thread nt, the next one to time out.        *)
(*                                                                         *)
(* The clock only matters through differences, so deadlines are relative:  *)
(* due[t] is *t->wclk - _gt_clk, and left is the number of frames before   *)
(* the next interrupt, so that gt_clock() is _gt_clk - left.               *)
(***************************************************************************)
EXTENDS Integers, Sequences, FiniteSets

CONSTANTS
  Thread,     \* the gt_thread_s variables of the program
  Main,       \* _gt_mainthread
  Mutex,      \* the mutexes
  Cond,       \* the condition variables
  None,       \* a null pointer
  Ones,       \* 0x80, the address of a byte that is always 1
  Calls,      \* thread -> the functions of threads.h that it calls
  Delays,     \* how many frames ahead the deadlines are
  MaxSlice,   \* maxslice, frames that a thread may run
  Wrap,       \* the values of the byte frameCount (256)
  MaxLate     \* bound: deadlines missed by more than that are not told apart

ASSUME ThreadsAssumption ==
  /\ IsFiniteSet(Thread) /\ Main \in Thread
  /\ Thread \cap Mutex = {} /\ Thread \cap Cond = {} /\ Mutex \cap Cond = {}
  /\ None \notin Thread \cup Mutex \cup Cond
  /\ Ones \notin Thread \cup Mutex \cup Cond \cup {None}
  /\ Delays \subseteq Nat
  /\ MaxSlice \in Nat \ {0} /\ Wrap \in Nat /\ MaxSlice < Wrap
  /\ MaxLate \in Nat /\ Wrap <= MaxLate

VARIABLES
  sys,    \* what the scheduler keeps: see TypeOK
  pc,     \* where each thread is, in its own code or in a library function
  arg,    \* the object of the call a thread is in (R8)
  cv,     \* the condition variable of the gt_cond_wait a thread is in (R16)
  byte,   \* the byte of each mutex and condition variable
  owned,  \* the mutexes each thread has locked and not unlocked
  ended   \* whether the thread that a thread joins has terminated meanwhile

vars == <<sys, pc, arg, cv, byte, owned, ended>>

Places == {"new", "run", "join", "join2", "yield", "joined", "lock", "cond", "timed",
           "rearm", "wait", "wait2", "waited", "start", "kill"}

Channels == Thread \cup Mutex \cup Cond \cup {None, Ones}

-----------------------------------------------------------------------------
(* The scheduler, as functions of its state S.  garbage is the difference  *)
(* read where wclk is null: the deadline is then the four bytes found at   *)
(* address 0.                                                              *)

Past == -MaxLate

(* _gt_clk advances by n frames. *)
Advance(S, n) ==
  [S EXCEPT !.due = [t \in Thread |->
     IF S.due[t] = Past \/ S.due[t] - n < Past THEN Past ELSE S.due[t] - n]]

Deadline(S, garbage, t) == IF S.wclk[t] THEN S.due[t] ELSE garbage

(* The operators named Bad... are mistakes one could make in the one that  *)
(* follows: the checks must tell them apart.                               *)

(* Takes a thread that waits for one that is over. *)
BadBusy(S, b, c) ==
  \/ c = Ones
  \/ c \in Thread /\ S.next[c] # None /\ S.wchan[c] = None
  \/ c \in Mutex \cup Cond /\ b[c] = 1

(* The byte a waiting thread watches is not zero. *)
Busy(S, b, c) ==
  \/ c = Ones
  \/ c \in Thread /\ S.next[c] # None
  \/ c \in Mutex \cup Cond /\ b[c] = 1

Blocked(S, b, t) == S.wchan[t] # None /\ Busy(S, b, S.wchan[t])

(* The n-th thread after t on the list, None past a dead one. *)
After(S, t, n) ==
  LET walk[k \in 0 .. n] ==
        IF k = 0 THEN t
        ELSE IF walk[k - 1] = None THEN None ELSE S.next[walk[k - 1]]
  IN  walk[n]

(* Watches the latest deadline. *)
BadChkNt(S, garbage, t) ==
  IF /\ S.wchan[t] # None
     /\ S.wclk[t]
     /\ S.nt = None \/ S.due[t] > Deadline(S, garbage, S.nt)
  THEN [S EXCEPT !.nt = t]
  ELSE S

ChkNt(S, garbage, t) ==
  IF /\ S.wchan[t] # None
     /\ S.wclk[t]
     /\ S.nt = None \/ S.due[t] < Deadline(S, garbage, S.nt)
  THEN [S EXCEPT !.nt = t]
  ELSE S

(* What calling ChkNt for each thread of the list, from t on, makes of nt: *)
(* the first of those with the earliest deadline.  A thread that left the  *)
(* list has no next one: the loop then reads where it should not.          *)
FixNt(S, t) ==
  LET timed == {u \in Thread : S.next[u] # None /\ S.wchan[u] # None /\ S.wclk[u]}
      turn(u) == CHOOSE n \in 0 .. Cardinality(Thread) : After(S, t, n) = u
      first == CHOOSE u \in timed : \A v \in timed :
                 \/ S.due[u] < S.due[v]
                 \/ S.due[u] = S.due[v] /\ (u = v \/ turn(u) < turn(v))
  IN  IF S.next[t] = None THEN [S EXCEPT !.wild = TRUE]
      ELSE [S EXCEPT !.nt = IF timed = {} THEN None ELSE first]

(* Ends one frame too early. *)
BadSlice(S, garbage) ==
  LET d == IF S.nt = None THEN MaxSlice ELSE Deadline(S, garbage, S.nt)
  IN  IF 0 < d /\ d <= MaxSlice THEN d - 1 ELSE MaxSlice

(* Does not see that the deadline may be past. *)
NegativeSlice(S, garbage) ==
  LET d == IF S.nt = None THEN MaxSlice ELSE Deadline(S, garbage, S.nt)
  IN  IF d <= MaxSlice THEN d ELSE MaxSlice

(* The slice of the next thread ends at the deadline of nt if it is near,  *)
(* that is between 0 and MaxSlice.  A slice of 0 sets frameCount to 0.     *)
Slice(S, garbage) ==
  LET d == IF S.nt = None THEN MaxSlice ELSE Deadline(S, garbage, S.nt)
  IN  IF 0 <= d /\ d <= MaxSlice THEN d ELSE MaxSlice

Switch(S, garbage, t) ==
  LET slice == Slice(S, garbage)
      wait == IF slice = 0 THEN Wrap ELSE slice
  IN  [Advance(S, slice) EXCEPT
         !.wchan[t] = None, !.ct = t, !.idle = FALSE,
         !.left = wait, !.late = S.late \/ wait # slice]

(* Does not look for the next deadline. *)
BadTimeOut(S, garbage) ==
  Switch([S EXCEPT !.wclk[S.nt] = FALSE], garbage, S.nt)

(* .timeout *)
TimeOut(S, garbage) ==
  LET t == S.nt
  IN  Switch(FixNt([S EXCEPT !.wclk[t] = FALSE], t), garbage, t)

(* .loop: the first thread after t that is not blocked, t comes last.      *)
Pick(S, b, garbage, t) ==
  LET ready == {n \in 1 .. Cardinality(Thread) : ~ Blocked(S, b, After(S, t, n))}
  IN  IF ready = {}
      THEN [S EXCEPT !.idle = TRUE, !.left = MaxSlice]
      ELSE Switch(S, garbage,
                  After(S, t, CHOOSE n \in ready : \A k \in ready : n <= k))

(* Always looks from the main thread on. *)
BadIrq(S, b, garbage) ==
  IF S.wild THEN S
  ELSE IF S.nt # None /\ Deadline(S, garbage, S.nt) <= 0
  THEN TimeOut(S, garbage)
  ELSE Pick(S, b, garbage, Main)

(* Times out one frame too early. *)
EagerIrq(S, b, garbage) ==
  IF S.wild THEN S
  ELSE IF S.nt # None /\ Deadline(S, garbage, S.nt) <= 1
  THEN TimeOut(S, garbage)
  ELSE Pick(S, b, garbage, IF S.next[S.ct] = None THEN Main ELSE S.ct)

(* _gt_irq: the main thread stands for a current thread that is dead. *)
Irq(S, b, garbage) ==
  IF S.wild THEN S
  ELSE IF S.nt # None /\ Deadline(S, garbage, S.nt) <= 0
  THEN TimeOut(S, garbage)
  ELSE Pick(S, b, garbage, IF S.next[S.ct] = None THEN Main ELSE S.ct)

(* What _gt_sched does before calling T3: _gt_clk becomes the present. *)
Present(S) == Advance(S, - S.left)

-----------------------------------------------------------------------------
(* The library functions.  Each action is a run of instructions of the     *)
(* current thread that no interrupt can tell from one instruction.         *)

Init ==
  /\ sys = [next |-> [t \in Thread |-> IF t = Main THEN Main ELSE None],
            wchan |-> [t \in Thread |-> None],
            wclk |-> [t \in Thread |-> FALSE],
            due |-> [t \in Thread |-> Past],
            ct |-> Main, nt |-> None,
            left |-> MaxSlice,
            idle |-> FALSE, late |-> FALSE, wild |-> FALSE]
  /\ pc = [t \in Thread |-> IF t = Main THEN "run" ELSE "new"]
  /\ arg = [t \in Thread |-> None]
  /\ cv = [t \in Thread |-> None]
  /\ byte = [o \in Mutex \cup Cond |-> IF o \in Cond THEN 1 ELSE 0]
  /\ owned = [t \in Thread |-> {}]
  /\ ended = [t \in Thread |-> FALSE]

Running(t) == sys.ct = t /\ ~ sys.idle /\ ~ sys.wild
At(t, place) == Running(t) /\ pc[t] = place
Go(t, place) == pc' = [pc EXCEPT ![t] = place]
Call(t, f) == At(t, "run") /\ f \in Calls[t]

Objects == <<byte, owned>>
(* Past or future; without a deadline none is ever read. *)
Garbage == IF Delays = {} THEN {0} ELSE {-1, 2 * Wrap}

(* _gt_sched: T3 turns the state into S and the bytes into b. *)
Sched(S, b) ==
  \E garbage \in Garbage : sys' = Irq(S, b, garbage)

(* gt_yield. *)
Yield(t) ==
  \E garbage \in Garbage :
    sys' = Irq(ChkNt(Present(sys), garbage, t), byte, garbage)

CallYield(t) ==
  /\ Call(t, "yield")
  /\ Yield(t)
  /\ UNCHANGED <<pc, arg, cv, ended, Objects>>

(* gt_join: clear wclk, set wchan, then yield.  gt_mutex_lock uses it too, *)
(* to wait until a mutex is free.                                          *)
CallJoin(t, u) ==
  /\ Call(t, "join")
  /\ Go(t, "join")
  /\ arg' = [arg EXCEPT ![t] = u]
  /\ ended' = [ended EXCEPT ![t] = sys.next[u] = None]
  /\ UNCHANGED <<sys, cv, Objects>>

JoinClearsWclk(t) ==
  /\ At(t, "join")
  /\ sys' = [sys EXCEPT !.wclk[t] = FALSE]
  /\ Go(t, "join2")
  /\ UNCHANGED <<arg, cv, ended, Objects>>

JoinSetsWchan(t) ==
  /\ At(t, "join2")
  /\ sys' = [sys EXCEPT !.wchan[t] = arg[t]]
  /\ Go(t, "yield")
  /\ UNCHANGED <<arg, cv, ended, Objects>>

(* The yield that ends gt_join and gt_wait. *)
WaitYields(t) ==
  /\ At(t, "yield")
  /\ Yield(t)
  /\ Go(t, CASE arg[t] \in Mutex -> "lock"
             [] arg[t] \in Thread -> "joined"
             [] OTHER -> "waited")
  /\ UNCHANGED <<arg, cv, ended, Objects>>

WaitReturns(t) ==
  /\ Running(t) /\ pc[t] \in {"joined", "waited"}
  /\ Go(t, "run")
  /\ arg' = [arg EXCEPT ![t] = None]
  /\ ended' = [ended EXCEPT ![t] = FALSE]
  /\ UNCHANGED <<sys, cv, Objects>>

(* gt_mutex_lock: EXBA tests and sets the byte in one instruction. *)
CallLock(t, m) ==
  /\ Call(t, "lock")
  /\ m \notin owned[t]
  /\ Go(t, "lock")
  /\ arg' = [arg EXCEPT ![t] = m]
  /\ UNCHANGED <<sys, cv, ended, Objects>>

(* Takes the mutex without looking. *)
BadTakes(t, m) ==
  /\ byte' = [byte EXCEPT ![m] = 1]
  /\ owned' = [owned EXCEPT ![t] = @ \cup {m}]

Takes(t, m) ==
  /\ byte[m] = 0
  /\ byte' = [byte EXCEPT ![m] = 1]
  /\ owned' = [owned EXCEPT ![t] = @ \cup {m}]

LockTakes(t) ==
  /\ At(t, "lock")
  /\ Takes(t, arg[t])
  /\ Go(t, IF cv[t] = None THEN "run" ELSE "rearm")
  /\ arg' = [arg EXCEPT ![t] = None]
  /\ UNCHANGED <<sys, cv, ended>>

LockWaits(t) ==
  /\ At(t, "lock")
  /\ byte[arg[t]] = 1
  /\ Go(t, "join")
  /\ UNCHANGED <<sys, arg, cv, ended, Objects>>

(* gt_mutex_trylock, when it succeeds; it has no effect otherwise. *)
CallTryLock(t, m) ==
  /\ Call(t, "trylock")
  /\ Takes(t, m)
  /\ UNCHANGED <<sys, pc, arg, cv, ended>>

(* gt_mutex_unlock, by the thread that locked the mutex. *)
CallUnlock(t, m) ==
  /\ At(t, "run")
  /\ m \in owned[t]
  /\ byte' = [byte EXCEPT ![m] = 0]
  /\ owned' = [owned EXCEPT ![t] = @ \ {m}]
  /\ UNCHANGED <<sys, pc, arg, cv, ended>>

(* gt_cond_signal. *)
CallSignal(t, c) ==
  /\ Call(t, "signal")
  /\ byte' = [byte EXCEPT ![c] = 0]
  /\ UNCHANGED <<sys, pc, arg, cv, owned, ended>>

(* gt_cond_wait, and gt_cond_timedwait once it stored the deadline. *)
CallCondWait(t, c, m) ==
  /\ Call(t, "cond_wait")
  /\ m \in owned[t]
  /\ Go(t, "cond")
  /\ arg' = [arg EXCEPT ![t] = m]
  /\ cv' = [cv EXCEPT ![t] = c]
  /\ UNCHANGED <<sys, ended, Objects>>

CallCondTimedWait(t, c, m, d) ==
  /\ Call(t, "cond_timedwait")
  /\ m \in owned[t]
  /\ sys' = [sys EXCEPT !.due[t] = d - sys.left]
  /\ Go(t, "timed")
  /\ arg' = [arg EXCEPT ![t] = m]
  /\ cv' = [cv EXCEPT ![t] = c]
  /\ UNCHANGED <<ended, Objects>>

(* .cw0, called by _gt_sched: wait, unlock and arm in one step. *)
CondWaits(t) ==
  /\ Running(t) /\ pc[t] \in {"cond", "timed"}
  /\ LET S == [Present(sys) EXCEPT !.wclk[t] = pc[t] = "timed",
                                   !.wchan[t] = cv[t]]
         b == [byte EXCEPT ![arg[t]] = 0, ![cv[t]] = 1]
     IN  /\ byte' = b
         /\ \E garbage \in Garbage :
              sys' = Irq(ChkNt(S, garbage, t), b, garbage)
  /\ owned' = [owned EXCEPT ![t] = @ \ {arg[t]}]
  /\ Go(t, "lock")
  /\ UNCHANGED <<arg, cv, ended>>

(* After relocking, arm again so that the others do not wake up. *)
CondRearms(t) ==
  /\ At(t, "rearm")
  /\ byte' = [byte EXCEPT ![cv[t]] = 1]
  /\ Go(t, "run")
  /\ cv' = [cv EXCEPT ![t] = None]
  /\ UNCHANGED <<sys, arg, owned, ended>>

(* gt_wait and gt_sleep: store the deadline in the stack, set wclk, set    *)
(* wchan to an address whose byte is never 0, then yield.                  *)
CallWait(t, d) ==
  /\ Call(t, "wait")
  /\ sys' = [sys EXCEPT !.due[t] = d - sys.left]
  /\ Go(t, "wait")
  /\ UNCHANGED <<arg, cv, ended, Objects>>

WaitSetsWclk(t) ==
  /\ At(t, "wait")
  /\ sys' = [sys EXCEPT !.wclk[t] = TRUE]
  /\ Go(t, "wait2")
  /\ UNCHANGED <<arg, cv, ended, Objects>>

WaitSetsWchan(t) ==
  /\ At(t, "wait2")
  /\ sys' = [sys EXCEPT !.wchan[t] = Ones]
  /\ Go(t, "yield")
  /\ UNCHANGED <<arg, cv, ended, Objects>>

(* The caller uses its stack again after a wait: a deadline that wclk      *)
(* still points to changes.                                                *)
StackReused(t) ==
  /\ At(t, "run")
  /\ sys.wclk[t]
  /\ \E d \in Garbage : sys' = [sys EXCEPT !.due[t] = d]
  /\ UNCHANGED <<pc, arg, cv, ended, Objects>>

(* gt_start: checks and prepares the thread, then .s1 links it after t in  *)
(* the scheduler.  No two threads start the same one at the same time:     *)
(* gt_start does not protect its check of next.                            *)
CallStart(t, u) ==
  /\ Call(t, IF pc[u] = "new" THEN "start" ELSE "restart")
  /\ sys.next[u] = None
  /\ \A v \in Thread : pc[v] = "start" => arg[v] # u
  /\ sys' = [sys EXCEPT !.wchan[u] = None, !.wclk[u] = FALSE]
  /\ pc' = [pc EXCEPT ![t] = "start", ![u] = "run"]
  /\ arg' = [arg EXCEPT ![t] = u, ![u] = None]
  /\ cv' = [cv EXCEPT ![u] = None]
  /\ UNCHANGED <<ended, Objects>>

StartLinks(t) ==
  /\ At(t, "start")
  /\ LET S == Present(sys)
     IN  Sched([S EXCEPT !.next = [@ EXCEPT ![arg[t]] = S.next[t],
                                            ![t] = arg[t]]], byte)
  /\ Go(t, "run")
  /\ arg' = [arg EXCEPT ![t] = None]
  /\ UNCHANGED <<cv, ended, Objects>>

(* gt_kill, gt_exit and the end of the function of a thread: the main      *)
(* thread cannot be killed.                                                *)
CallKill(t, u) ==
  /\ IF u = t THEN Call(t, "exit") ELSE Call(t, "kill")
  /\ u # Main
  /\ Go(t, "kill")
  /\ arg' = [arg EXCEPT ![t] = u]
  /\ UNCHANGED <<sys, cv, ended, Objects>>

(* Closes the list after the thread before it. *)
BadKilled(S, t, u) ==
  LET K == [S EXCEPT !.next =
              [p \in Thread |-> IF p = u THEN None
                                ELSE IF S.next[p] = u THEN Main
                                ELSE S.next[p]]]
  IN  IF S.next[u] = None THEN S
      ELSE IF S.nt = u THEN FixNt(K, t) ELSE K

(* .kill2 and .kill3, on behalf of the current thread t. *)
Killed(S, t, u) ==
  LET before == {p \in Thread : S.next[p] = u}
      K == [S EXCEPT !.next =
              [p \in Thread |-> IF p = u THEN None
                                ELSE IF p \in before THEN S.next[u]
                                ELSE S.next[p]]]
  IN  IF S.next[u] = None THEN S
      ELSE IF S.nt = u THEN FixNt(K, t) ELSE K

KillUnlinks(t) ==
  /\ At(t, "kill")
  /\ Sched(Killed(Present(sys), t, arg[t]), byte)
  /\ ended' = [u \in Thread |-> ended[u] \/ arg[u] = arg[t]]
  /\ Go(t, "run")
  /\ arg' = [arg EXCEPT ![t] = None]
  /\ UNCHANGED <<cv, Objects>>

(* A frame passes.  The last one of the slice raises vIRQ, wherever the    *)
(* current thread is; an idle scheduler looks at the clock at each frame.  *)
Tick ==
  /\ ~ sys.wild
  /\ IF sys.idle
     THEN Sched(Advance(sys, 1), byte)
     ELSE IF sys.left = 1
     THEN Sched(sys, byte)
     ELSE sys' = [sys EXCEPT !.left = @ - 1]
  /\ UNCHANGED <<pc, arg, cv, ended, Objects>>

Library(t) ==
  \/ JoinClearsWclk(t) \/ JoinSetsWchan(t) \/ WaitYields(t) \/ WaitReturns(t)
  \/ LockTakes(t) \/ LockWaits(t)
  \/ CondWaits(t) \/ CondRearms(t)
  \/ WaitSetsWclk(t) \/ WaitSetsWchan(t)
  \/ StartLinks(t) \/ KillUnlinks(t)

(* What the program chooses to call next. *)
Program(t) ==
  \/ CallYield(t) \/ StackReused(t)
  \/ \E u \in Thread : CallJoin(t, u) \/ CallStart(t, u) \/ CallKill(t, u)
  \/ \E m \in Mutex : CallLock(t, m) \/ CallTryLock(t, m) \/ CallUnlock(t, m)
  \/ \E c \in Cond : CallSignal(t, c)
  \/ \E c \in Cond, m \in Mutex :
       \/ CallCondWait(t, c, m)
       \/ \E d \in Delays : CallCondTimedWait(t, c, m, d)
  \/ \E d \in Delays : CallWait(t, d)

Next == Tick \/ \E t \in Thread : Library(t) \/ Program(t)

(* Frames keep coming, and a thread that keeps getting slices executes its *)
(* instructions: a frame is thousands of them.  Nothing is assumed of what *)
(* the program does between two calls.                                     *)
Spec ==
  /\ Init /\ [][Next]_vars
  /\ WF_vars(Tick)
  /\ \A t \in Thread : SF_vars(Library(t))

-----------------------------------------------------------------------------

Started == {t \in Thread : sys.next[t] # None}
Ready(t) == t \in Started /\ ~ Blocked(sys, byte, t)

(* Every variable keeps the values it is declared with. *)
TypeOK ==
  /\ sys.next \in [Thread -> Thread \cup {None}]
  /\ sys.wchan \in [Thread -> Channels]
  /\ sys.wclk \in [Thread -> BOOLEAN]
  /\ \A t \in Thread : sys.due[t] \in Int /\ sys.due[t] >= Past
  /\ sys.ct \in Thread /\ sys.nt \in Thread \cup {None}
  /\ sys.left \in 1 .. Wrap
  /\ sys.idle \in BOOLEAN /\ sys.late \in BOOLEAN /\ sys.wild \in BOOLEAN
  /\ pc \in [Thread -> Places]
  /\ arg \in [Thread -> Thread \cup Mutex \cup {None}]
  /\ cv \in [Thread -> Cond \cup {None}]
  /\ byte \in [Mutex \cup Cond -> {0, 1}]
  /\ owned \in [Thread -> SUBSET Mutex]
  /\ ended \in [Thread -> BOOLEAN]

(* Only one thread can lock a mutex at any given time (threads.h:70), and  *)
(* the byte of a mutex is 1 exactly while some thread holds it.            *)
MutualExclusion ==
  \A m \in Mutex :
    /\ \A t, u \in Thread : m \in owned[t] /\ m \in owned[u] => t = u
    /\ byte[m] = 1 <=> \E t \in Thread : m \in owned[t]

(* The started threads are on one circular list: whatever the scheduler    *)
(* starts from, it looks at every thread.                                  *)
OneRing ==
  ~ sys.wild =>
    LET turn(n) == After(sys, Main, n)
        size == Cardinality(Started)
    IN  {turn(n) : n \in 0 .. size - 1} = Started /\ turn(size) = Main

(* t stored its wchan in gt_wait, and did not come to the yield that makes *)
(* the scheduler look at its deadline (threads.s:346).                     *)
NotYetSeen(t) == pc[t] = "yield"

(* The thread whose deadline the scheduler watches does have one, and no   *)
(* thread whose wchan gt_wait set has an earlier one, unless it was never   *)
(* seen by the yield: the only gap, but one through which an interrupt     *)
(* loses a wait for good (WaitEnds, in the run threads_lostwait).          *)
WatchesEarliest ==
  /\ sys.nt # None => /\ sys.nt \in Started
                      /\ sys.wclk[sys.nt] /\ sys.wchan[sys.nt] = Ones
  /\ \A t \in Started :
       sys.wchan[t] = Ones =>
         \/ NotYetSeen(t)
         \/ sys.nt # None /\ sys.due[sys.nt] <= sys.due[t]

(* gt_join returns only after the thread has terminated (threads.h:59). *)
JoinWaits == \A t \in Thread : At(t, "joined") => ended[t]

(* gt_wait does not return before the clock reaches clk (threads.h:63). *)
NeverEarly ==
  \A t \in Thread : At(t, "waited") => sys.due[t] + sys.left <= 0

(* _gt_clk is the frame of the next interrupt, so that gt_clock is the     *)
(* number of frames elapsed since the start (threads.h:27).                *)
ClockExact == ~ sys.late

(* The scheduler never follows the links of a thread that is dead. *)
NeverWild == ~ sys.wild

(* The search of the scheduler comes back to everyone: a thread that stays *)
(* ready, because what it waited for is over, gets a slice.                *)
EveryoneRuns ==
  \A t \in Thread : Ready(t) ~> (~ Ready(t) \/ (sys.ct = t /\ ~ sys.idle))

(* gt_wait returns, unless the thread is killed (threads.h:63). *)
WaitEnds ==
  \A t \in Thread : pc[t] = "wait" ~> (pc[t] = "run" \/ sys.next[t] = None)

-----------------------------------------------------------------------------
(* What the theorems of ThreadsProofs about deadlines suppose.             *)

(* No thread waits for a condition with a deadline. *)
Untimed == \A t \in Thread : "cond_timedwait" \notin Calls[t]

(* One thread at most waits for the clock. *)
SingleWaiter ==
  \A t, u \in Thread : "wait" \in Calls[t] /\ "wait" \in Calls[u] => t = u

=============================================================================
