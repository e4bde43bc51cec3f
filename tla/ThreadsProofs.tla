---------------------------- MODULE ThreadsProofs ----------------------------
(***************************************************************************)
(* Proofs about Threads, for any number of threads, mutexes and            *)
(* conditions and wherever interrupts fall.                                *)
(*                                                                         *)
(* For all programs: mutexes exclude each other's holders, every variable  *)
(* keeps its type, and the list of the started threads is one ring.        *)
(*                                                                         *)
(* For the programs that do not call gt_cond_timedwait (Untimed): the      *)
(* scheduler never follows a dead thread, it watches the earliest          *)
(* deadline, gt_join waits, and so does gt_wait while the clock is exact.  *)
(* The clock is exact when a single thread calls gt_wait (SingleWaiter).   *)
(*                                                                         *)
(* Those two hypotheses are what the code needs.  A gt_cond_timedwait that *)
(* is signalled leaves wclk and nt as they were: the deadline that the     *)
(* scheduler watches may then be gone with the stack frame it was in, or   *)
(* the thread itself may exit.  And two equal deadlines make a slice of 0  *)
(* frames, which frameCount takes for 256.                                 *)
(***************************************************************************)
EXTENDS Threads, Rings

-----------------------------------------------------------------------------
(* Mutexes.                                                                *)
(*                                                                         *)
(* Nothing is assumed of the scheduler: the proof also covers the runs in  *)
(* which it resumes the wrong thread or misses a deadline.  What matters   *)
(* is that the byte of a mutex only changes together with its holder, in   *)
(* steps that no interrupt cuts: EXBA, POKE, and the passage of            *)
(* gt_cond_wait through the scheduler.                                     *)

(* The variables of the library, without those of the scheduler. *)
ObjectsOK ==
  /\ pc \in [Thread -> Places]
  /\ arg \in [Thread -> Thread \cup Mutex \cup {None}]
  /\ cv \in [Thread -> Cond \cup {None}]
  /\ byte \in [Mutex \cup Cond -> {0, 1}]
  /\ owned \in [Thread -> SUBSET Mutex]

(* What each place of the library knows about its registers: a thread in   *)
(* gt_mutex_lock names a mutex, one in gt_cond_wait holds the mutex that   *)
(* it is about to unlock.                                                  *)
PlacesOK ==
  \A t \in Thread :
    /\ pc[t] = "lock" => arg[t] \in Mutex
    /\ pc[t] \in {"cond", "timed"} => arg[t] \in owned[t] /\ cv[t] \in Cond
    /\ pc[t] = "rearm" => cv[t] \in Cond

Inv == ObjectsOK /\ PlacesOK /\ MutualExclusion

(* What a step does to the bytes of mutexes and to their holders. *)
Quiet == UNCHANGED owned /\ \A m \in Mutex : byte'[m] = byte[m]

(* A step that touches no mutex keeps them apart. *)
LEMMA QuietExcludes ==
  ASSUME MutualExclusion, Quiet
  PROVE  MutualExclusion'
BY DEF MutualExclusion, Quiet

(* A thread that finds the byte at 0 becomes the only holder. *)
LEMMA TakesExcludes ==
  ASSUME ObjectsOK, MutualExclusion, NEW t \in Thread, NEW m \in Mutex, Takes(t, m)
  PROVE  MutualExclusion'
<1>1. \A u \in Thread : m \notin owned[u]
  BY DEF Takes, MutualExclusion, ObjectsOK
<1>2. \A u \in Thread : owned'[u] = IF u = t THEN owned[u] \cup {m} ELSE owned[u]
  BY DEF Takes, ObjectsOK
<1>3. \A k \in Mutex : byte'[k] = IF k = m THEN 1 ELSE byte[k]
  BY DEF Takes, ObjectsOK
<1>4. \A u \in Thread : m \in owned'[u] <=> u = t
  BY <1>1, <1>2
<1>5. \A k \in Mutex \ {m}, u \in Thread : k \in owned'[u] <=> k \in owned[u]
  BY <1>2
<1>6. byte'[m] = 1 /\ \A k \in Mutex \ {m} : byte'[k] = byte[k]
  BY <1>3
<1> QED
  BY <1>4, <1>5, <1>6 DEF MutualExclusion

(* A holder that clears the byte leaves the mutex without a holder. *)
LEMMA ReleaseExcludes ==
  ASSUME ObjectsOK, MutualExclusion, NEW t \in Thread, NEW m \in owned[t],
         \A k \in Mutex : byte'[k] = IF k = m THEN 0 ELSE byte[k],
         owned' = [owned EXCEPT ![t] = @ \ {m}]
  PROVE  MutualExclusion'
<1>1. m \in Mutex
  BY DEF ObjectsOK
<1>2. \A u \in Thread : owned'[u] = IF u = t THEN owned[u] \ {m} ELSE owned[u]
  BY DEF ObjectsOK
<1>3. \A u \in Thread : m \notin owned'[u]
  BY <1>1, <1>2 DEF MutualExclusion
<1>4. \A k \in Mutex \ {m}, u \in Thread : k \in owned'[u] <=> k \in owned[u]
  BY <1>2
<1>5. byte'[m] = 0 /\ \A k \in Mutex \ {m} : byte'[k] = byte[k]
  BY <1>1
<1> QED
  BY <1>3, <1>4, <1>5 DEF MutualExclusion

(* Inside a call, a byte only changes together with its holder. *)
LEMMA LibraryKeepsInv ==
  ASSUME Inv, NEW t \in Thread, Library(t)
  PROVE  Inv'
<1> USE DEF Inv
<1>1. CASE JoinClearsWclk(t)
  <2>1. Quiet
    BY <1>1 DEF JoinClearsWclk, Objects, Quiet
  <2> QED
    BY <1>1, <2>1, QuietExcludes
    DEF JoinClearsWclk, Objects, At, Go, ObjectsOK, PlacesOK, Places
<1>2. CASE JoinSetsWchan(t)
  <2>1. Quiet
    BY <1>2 DEF JoinSetsWchan, Objects, Quiet
  <2> QED
    BY <1>2, <2>1, QuietExcludes
    DEF JoinSetsWchan, Objects, At, Go, ObjectsOK, PlacesOK, Places
<1>3. CASE WaitYields(t)
  <2>1. Quiet
    BY <1>3 DEF WaitYields, Objects, Quiet
  <2> DEFINE next == CASE arg[t] \in Mutex -> "lock"
                       [] arg[t] \in Thread -> "joined"
                       [] OTHER -> "waited"
  <2>2. next \in {"lock", "joined", "waited"} /\ (next = "lock" => arg[t] \in Mutex)
    OBVIOUS
  <2>3. pc' = [pc EXCEPT ![t] = next] /\ UNCHANGED <<arg, cv, byte, owned>>
    BY <1>3 DEF WaitYields, Go, Objects
  <2> HIDE DEF next
  <2> QED
    BY <2>1, <2>2, <2>3, QuietExcludes DEF ObjectsOK, PlacesOK, Places
<1>4. CASE WaitReturns(t)
  <2>1. Quiet
    BY <1>4 DEF WaitReturns, Objects, Quiet
  <2> QED
    BY <1>4, <2>1, QuietExcludes
    DEF WaitReturns, Objects, Go, ObjectsOK, PlacesOK, Places
<1>5. CASE LockTakes(t)
  <2>1. arg[t] \in Mutex /\ Takes(t, arg[t])
    BY <1>5 DEF LockTakes, At, PlacesOK
  <2>2. MutualExclusion'
    BY <2>1, TakesExcludes
  <2>3. ObjectsOK'
    BY <1>5, <2>1 DEF LockTakes, Takes, Go, ObjectsOK, Places
  <2>4. PlacesOK'
    BY <1>5, <2>1 DEF LockTakes, Takes, Go, At, ObjectsOK, PlacesOK
  <2> QED
    BY <2>2, <2>3, <2>4
<1>6. CASE LockWaits(t)
  <2>1. Quiet
    BY <1>6 DEF LockWaits, Objects, Quiet
  <2> QED
    BY <1>6, <2>1, QuietExcludes
    DEF LockWaits, Objects, At, Go, ObjectsOK, PlacesOK, Places
<1>7. CASE CondWaits(t)
  <2>1. arg[t] \in owned[t] /\ cv[t] \in Cond
    BY <1>7 DEF CondWaits, PlacesOK
  <2>2. arg[t] \in Mutex /\ cv[t] \notin Mutex
    BY <2>1, ThreadsAssumption DEF ObjectsOK
  <2>3. /\ byte' = [byte EXCEPT ![arg[t]] = 0, ![cv[t]] = 1]
        /\ owned' = [owned EXCEPT ![t] = @ \ {arg[t]}]
        /\ pc' = [pc EXCEPT ![t] = "lock"]
        /\ UNCHANGED <<arg, cv>>
    BY <1>7 DEF CondWaits, Go
  <2>4. \A k \in Mutex : byte'[k] = IF k = arg[t] THEN 0 ELSE byte[k]
    BY <2>2, <2>3 DEF ObjectsOK
  <2>5. MutualExclusion'
    BY <2>1, <2>3, <2>4, ReleaseExcludes
  <2>6. ObjectsOK'
    BY <2>1, <2>2, <2>3 DEF ObjectsOK, Places
  <2>7. PlacesOK'
    BY <2>2, <2>3 DEF ObjectsOK, PlacesOK
  <2> QED
    BY <2>5, <2>6, <2>7
<1>8. CASE CondRearms(t)
  <2>1. cv[t] \in Cond /\ cv[t] \notin Mutex
    BY <1>8, ThreadsAssumption DEF CondRearms, At, PlacesOK
  <2>2. Quiet
    BY <1>8, <2>1 DEF CondRearms, ObjectsOK, Quiet
  <2> QED
    BY <1>8, <2>1, <2>2, QuietExcludes
    DEF CondRearms, At, Go, ObjectsOK, PlacesOK, Places
<1>9. CASE WaitSetsWclk(t)
  <2>1. Quiet
    BY <1>9 DEF WaitSetsWclk, Objects, Quiet
  <2> QED
    BY <1>9, <2>1, QuietExcludes
    DEF WaitSetsWclk, Objects, At, Go, ObjectsOK, PlacesOK, Places
<1>10. CASE WaitSetsWchan(t)
  <2>1. Quiet
    BY <1>10 DEF WaitSetsWchan, Objects, Quiet
  <2> QED
    BY <1>10, <2>1, QuietExcludes
    DEF WaitSetsWchan, Objects, At, Go, ObjectsOK, PlacesOK, Places
<1>11. CASE StartLinks(t)
  <2>1. Quiet
    BY <1>11 DEF StartLinks, Objects, Quiet
  <2> QED
    BY <1>11, <2>1, QuietExcludes
    DEF StartLinks, Objects, At, Go, ObjectsOK, PlacesOK, Places
<1>12. CASE KillUnlinks(t)
  <2>1. Quiet
    BY <1>12 DEF KillUnlinks, Objects, Quiet
  <2> QED
    BY <1>12, <2>1, QuietExcludes
    DEF KillUnlinks, Objects, At, Go, ObjectsOK, PlacesOK, Places
<1> QED
  BY <1>1, <1>2, <1>3, <1>4, <1>5, <1>6, <1>7, <1>8, <1>9, <1>10, <1>11, <1>12
  DEF Library

(* So it does when the program makes a call. *)
LEMMA ProgramKeepsInv ==
  ASSUME Inv, NEW t \in Thread, Program(t)
  PROVE  Inv'
<1> USE DEF Inv
<1>1. CASE CallYield(t) \/ StackReused(t)
  <2>1. UNCHANGED <<pc, arg, cv, byte, owned>>
    BY <1>1 DEF CallYield, StackReused, Objects
  <2>2. Quiet
    BY <2>1 DEF Quiet
  <2> QED
    BY <2>1, <2>2, QuietExcludes DEF ObjectsOK, PlacesOK
<1>2. ASSUME NEW u \in Thread, CallJoin(t, u)
      PROVE  Inv'
  <2>1. Quiet
    BY <1>2 DEF CallJoin, Objects, Quiet
  <2> QED
    BY <1>2, <2>1, QuietExcludes
    DEF CallJoin, Objects, Call, At, Go, ObjectsOK, PlacesOK, Places
<1>3. ASSUME NEW u \in Thread, CallStart(t, u)
      PROVE  Inv'
  <2>1. Quiet
    BY <1>3 DEF CallStart, Objects, Quiet
  <2> QED
    BY <1>3, <2>1, QuietExcludes
    DEF CallStart, Objects, Call, At, Go, ObjectsOK, PlacesOK, Places
<1>4. ASSUME NEW u \in Thread, CallKill(t, u)
      PROVE  Inv'
  <2>1. Quiet
    BY <1>4 DEF CallKill, Objects, Quiet
  <2> QED
    BY <1>4, <2>1, QuietExcludes
    DEF CallKill, Objects, Call, At, Go, ObjectsOK, PlacesOK, Places
<1>5. ASSUME NEW m \in Mutex, CallLock(t, m)
      PROVE  Inv'
  <2>1. Quiet
    BY <1>5 DEF CallLock, Objects, Quiet
  <2> QED
    BY <1>5, <2>1, QuietExcludes
    DEF CallLock, Objects, Call, At, Go, ObjectsOK, PlacesOK, Places
<1>6. ASSUME NEW m \in Mutex, CallTryLock(t, m)
      PROVE  Inv'
  <2>1. MutualExclusion'
    BY <1>6, TakesExcludes DEF CallTryLock
  <2> QED
    BY <1>6, <2>1 DEF CallTryLock, Takes, ObjectsOK, PlacesOK
<1>7. ASSUME NEW m \in Mutex, CallUnlock(t, m)
      PROVE  Inv'
  <2>1. /\ m \in owned[t]
        /\ \A k \in Mutex : byte'[k] = IF k = m THEN 0 ELSE byte[k]
        /\ owned' = [owned EXCEPT ![t] = @ \ {m}]
    BY <1>7 DEF CallUnlock, ObjectsOK
  <2>2. MutualExclusion'
    BY <2>1, ReleaseExcludes
  <2> QED
    BY <1>7, <2>2 DEF CallUnlock, At, ObjectsOK, PlacesOK
<1>8. ASSUME NEW c \in Cond, CallSignal(t, c)
      PROVE  Inv'
  <2>1. Quiet
    BY <1>8, ThreadsAssumption DEF CallSignal, ObjectsOK, Quiet
  <2> QED
    BY <1>8, <2>1, QuietExcludes DEF CallSignal, ObjectsOK, PlacesOK
<1>9. ASSUME NEW c \in Cond, NEW m \in Mutex, CallCondWait(t, c, m)
      PROVE  Inv'
  <2>1. Quiet
    BY <1>9 DEF CallCondWait, Objects, Quiet
  <2> QED
    BY <1>9, <2>1, QuietExcludes
    DEF CallCondWait, Objects, Call, At, Go, ObjectsOK, PlacesOK, Places
<1>10. ASSUME NEW c \in Cond, NEW m \in Mutex, NEW d \in Delays,
              CallCondTimedWait(t, c, m, d)
       PROVE  Inv'
  <2>1. Quiet
    BY <1>10 DEF CallCondTimedWait, Objects, Quiet
  <2> QED
    BY <1>10, <2>1, QuietExcludes
    DEF CallCondTimedWait, Objects, Call, At, Go, ObjectsOK, PlacesOK, Places
<1>11. ASSUME NEW d \in Delays, CallWait(t, d)
       PROVE  Inv'
  <2>1. Quiet
    BY <1>11 DEF CallWait, Objects, Quiet
  <2> QED
    BY <1>11, <2>1, QuietExcludes
    DEF CallWait, Objects, Call, At, Go, ObjectsOK, PlacesOK, Places
<1> QED
  BY <1>1, <1>2, <1>3, <1>4, <1>5, <1>6, <1>7, <1>8, <1>9, <1>10, <1>11
  DEF Program

(* No mutex has a holder at the start. *)
LEMMA InvInit == Init => Inv
<1> SUFFICES ASSUME Init PROVE Inv
  OBVIOUS
<1>1. ObjectsOK
  BY DEF Init, ObjectsOK, Places
<1>2. PlacesOK
  BY DEF Init, PlacesOK
<1>3. MutualExclusion
  BY ThreadsAssumption DEF Init, MutualExclusion
<1> QED
  BY <1>1, <1>2, <1>3 DEF Inv

(* The invariant of the objects does not depend on the scheduler. *)
LEMMA InvNext == Inv /\ [Next]_vars => Inv'
<1> SUFFICES ASSUME Inv, [Next]_vars
             PROVE  Inv'
  OBVIOUS
<1>1. CASE Tick \/ UNCHANGED vars
  <2>1. UNCHANGED <<pc, arg, cv, byte, owned>>
    BY <1>1 DEF Tick, vars, Objects
  <2> QED
    BY <2>1, QuietExcludes DEF Quiet, Inv, ObjectsOK, PlacesOK
<1>2. ASSUME NEW t \in Thread, Library(t)
      PROVE  Inv'
  BY <1>2, LibraryKeepsInv
<1>3. ASSUME NEW t \in Thread, Program(t)
      PROVE  Inv'
  BY <1>3, ProgramKeepsInv
<1> QED
  BY <1>1, <1>2, <1>3 DEF Next

(* Only one thread can hold a mutex at any given time, and the byte of a   *)
(* mutex says whether one does (threads.h:70): for all numbers of threads, *)
(* mutexes and condition variables, and all programs.                      *)
THEOREM MutexesExclude == Spec => []MutualExclusion
<1>1. Inv => MutualExclusion
  BY DEF Inv
<1> QED
  BY <1>1, InvInit, InvNext, PTL DEF Spec

-----------------------------------------------------------------------------
(* The list of the started threads, as a ring through the main thread.     *)

On(nx) == {t \in Thread : nx[t] # None}
Linked(nx, h, prv) == Heights(On(nx), Main, h) /\ Ring(On(nx), Main, h, nx, prv)
Ringed(nx) == \E h, prv : Linked(nx, h, prv)
Links(nx) == nx \in [Thread -> Thread \cup {None}]

(* What the constants are. *)
LEMMA Numbers ==
  /\ MaxSlice \in Nat /\ MaxSlice >= 1 /\ Wrap \in Nat /\ MaxSlice < Wrap
  /\ MaxLate \in Nat /\ Wrap <= MaxLate /\ Past \in Int /\ Past = - MaxLate
BY ThreadsAssumption DEF Past

(* Threads are objects of their own. *)
LEMMA Apart ==
  /\ IsFiniteSet(Thread) /\ Main \in Thread
  /\ None \notin Thread /\ Ones \notin Thread /\ Ones # None
  /\ \A c \in Mutex \cup Cond : c \notin Thread /\ c # None /\ c # Ones
BY ThreadsAssumption

(* g walks along the list from t. *)
Steps(nx, t, g) ==
  /\ g[0] = t
  /\ \A k \in Nat : g[k + 1] = IF g[k] = None THEN None ELSE nx[g[k]]

(* The n-th thread after t is where n steps of the walk lead.              *)
LEMMA AfterIs ==
  ASSUME NEW S, NEW t, NEW g, Steps(S.next, t, g), NEW n \in Nat
  PROVE  After(S, t, n) = g[n]
<1> DEFINE Walks(w) == w = [k \in 0 .. n |->
                 IF k = 0 THEN t
                 ELSE IF w[k - 1] = None THEN None ELSE S.next[w[k - 1]]]
           e == [k \in 0 .. n |-> g[k]]
           W == CHOOSE w : Walks(w)
<1>1. \A k \in 0 .. n :
        e[k] = IF k = 0 THEN t ELSE IF e[k - 1] = None THEN None ELSE S.next[e[k - 1]]
  <2> SUFFICES ASSUME NEW k \in 0 .. n
               PROVE  e[k] = IF k = 0 THEN t
                             ELSE IF e[k - 1] = None THEN None ELSE S.next[e[k - 1]]
    OBVIOUS
  <2>1. CASE k = 0
    BY <2>1 DEF Steps
  <2>2. CASE k # 0
    <3>1. k - 1 \in Nat /\ (k - 1) + 1 = k /\ k - 1 \in 0 .. n
      BY <2>2
    <3>2. g[(k - 1) + 1] = IF g[k - 1] = None THEN None ELSE S.next[g[k - 1]]
      BY <3>1 DEF Steps
    <3> QED
      BY <3>1, <3>2, <2>2
  <2> QED
    BY <2>1, <2>2
<1>2. Walks(e)
  BY <1>1
<1>3. Walks(W)
  <2> HIDE DEF Walks, e
  <2> QED
    BY <1>2
<1>4. After(S, t, n) = W[n]
  BY Zenon DEF After
<1> HIDE DEF W
<1> DEFINE T == {k \in Nat : k <= n => W[k] = g[k]}
<1>5. 0 \in T
  BY <1>3 DEF Steps
<1>6. ASSUME NEW k \in Nat, k \in T
      PROVE  k + 1 \in T
  <2> SUFFICES ASSUME k + 1 <= n PROVE W[k + 1] = g[k + 1]
    OBVIOUS
  <2>1. k + 1 \in 0 .. n /\ (k + 1) - 1 = k /\ k + 1 # 0 /\ W[k] = g[k]
    BY <1>6
  <2>2. W[k + 1] = IF W[k] = None THEN None ELSE S.next[W[k]]
    BY <1>3, <2>1
  <2> QED
    BY <2>1, <2>2 DEF Steps
<1>7. Nat \subseteq T
  <2> HIDE DEF T
  <2> QED
    BY <1>5, <1>6, NatInd
<1>8. W[n] = g[n]
  BY <1>7
<1> QED
  BY <1>4, <1>8

(* A walk from a started thread only meets started threads.                *)
LEMMA WalkStays ==
  ASSUME NEW nx, Ringed(nx), NEW t \in On(nx)
  PROVE  \E g : /\ Steps(nx, t, g) /\ Walk(nx, t, g)
                /\ \A n \in Nat : g[n] \in On(nx)
<1>1. PICK h, prv : Linked(nx, h, prv)
  BY DEF Ringed
<1>2. \A x \in On(nx) : nx[x] \in On(nx)
  BY <1>1 DEF Linked, Ring
<1>3. PICK g : Iterates(nx, t, g)
  BY IterationExists
<1>4. g[0] = t
  BY <1>3 DEF Iterates
<1>5. \A n \in Nat : g[n + 1] = nx[g[n]]
  <2> SUFFICES ASSUME NEW n \in Nat PROVE g[n + 1] = nx[g[n]]
    OBVIOUS
  <2>1. n + 1 \in Nat /\ n + 1 # 0 /\ (n + 1) - 1 = n
    OBVIOUS
  <2> QED
    BY <2>1, <1>3 DEF Iterates
<1> DEFINE T == {n \in Nat : g[n] \in On(nx)}
<1>6. 0 \in T
  BY <1>4
<1>7. ASSUME NEW n \in Nat, n \in T
      PROVE  n + 1 \in T
  BY <1>7, <1>5, <1>2
<1>8. Nat \subseteq T
  <2> HIDE DEF T
  <2> QED
    BY <1>6, <1>7, NatInd
<1>9. \A n \in Nat : g[n] \in On(nx)
  BY <1>8
<1>10. \A n \in Nat : g[n] # None
  BY <1>9, Apart DEF On
<1> QED
  BY <1>4, <1>5, <1>9, <1>10 DEF Steps, Walk

(* The walk from the main thread meets each started thread once in size    *)
(* steps and is back.                                                      *)
Rounds(nx, g, size) ==
  /\ Steps(nx, Main, g) /\ size \in Nat \ {0} /\ size = Cardinality(On(nx))
  /\ size <= Cardinality(Thread) /\ Cardinality(Thread) \in Nat
  /\ {g[n] : n \in 0 .. size - 1} = On(nx)
  /\ g[size] = Main
  /\ \A n \in Nat : g[n] \in On(nx)

(* There is such a walk, which never leaves the list. *)
LEMMA RoundExists ==
  ASSUME NEW nx, Ringed(nx)
  PROVE  \E g, size : Rounds(nx, g, size)
<1>1. PICK h, prv : Linked(nx, h, prv)
  BY DEF Ringed
<1>2. Main \in On(nx)
  BY <1>1 DEF Linked, Heights
<1>3. PICK g : /\ Steps(nx, Main, g) /\ Walk(nx, Main, g)
               /\ \A n \in Nat : g[n] \in On(nx)
  BY <1>2, WalkStays
<1>4. On(nx) \subseteq Thread
  BY DEF On
<1>5. /\ IsFiniteSet(On(nx)) /\ Cardinality(On(nx)) <= Cardinality(Thread)
      /\ Cardinality(Thread) \in Nat /\ Cardinality(On(nx)) \in Nat
  BY <1>4, Apart, FS_Subset, FS_CardinalityType
<1> DEFINE N == Cardinality(On(nx) \ {Main})
<1>6. N \in Nat /\ Visits(On(nx), Main, h, g, N)
  BY <1>1, <1>3, <1>5, WalkVisits DEF Linked
<1>7. Cardinality(On(nx)) = N + 1
  BY <1>2, <1>5, FS_RemoveElement
<1> HIDE DEF N
<1>8. {g[n] : n \in 0 .. N} = On(nx)
  <2>1. {g[n] : n \in 1 .. N} = On(nx) \ {Main} /\ g[0] = Main
    BY <1>6 DEF Visits
  <2>2. \A n \in 0 .. N : n = 0 \/ n \in 1 .. N
    BY <1>6
  <2>3. \A n \in 1 .. N : n \in 0 .. N
    BY <1>6
  <2>4. 0 \in 0 .. N
    BY <1>6
  <2> QED
    BY <2>1, <2>2, <2>3, <2>4, <1>2
<1>9. g[N + 1] = Main
  BY <1>6 DEF Visits
<1>10. (N + 1) - 1 = N /\ N + 1 \in Nat \ {0}
  BY <1>6
<1> QED
  BY <1>3, <1>5, <1>7, <1>8, <1>9, <1>10 DEF Rounds

(* From any started thread, a walk of at most as many steps as there are   *)
(* threads leads to any other one, and back to itself.                     *)
LEMMA RoundReaches ==
  ASSUME NEW S, Ringed(S.next), NEW t \in On(S.next), NEW u \in On(S.next)
  PROVE  \E n \in 1 .. Cardinality(Thread) : After(S, t, n) = u
<1>1. PICK g, size : Rounds(S.next, g, size)
  BY RoundExists
<1>2. PICK i \in 0 .. size - 1 : g[i] = t
  BY <1>1 DEF Rounds
<1>3. PICK j \in 0 .. size - 1 : g[j] = u
  BY <1>1 DEF Rounds
<1>4. size \in Nat /\ size > 0 /\ i \in Nat /\ j \in Nat /\ i < size /\ j < size
  BY <1>1, <1>2, <1>3 DEF Rounds
<1> DEFINE f == [k \in Nat |-> g[i + k]]
<1>5. Steps(S.next, t, f)
  <2>1. f[0] = t
    BY <1>2, <1>4
  <2>2. ASSUME NEW k \in Nat
        PROVE  f[k + 1] = IF f[k] = None THEN None ELSE S.next[f[k]]
    <3>1. i + k \in Nat /\ i + (k + 1) = (i + k) + 1 /\ k + 1 \in Nat
      BY <1>4
    <3>2. g[(i + k) + 1] = IF g[i + k] = None THEN None ELSE S.next[g[i + k]]
      BY <3>1, <1>1 DEF Rounds, Steps
    <3> QED
      BY <3>1, <3>2
  <2> HIDE DEF f
  <2> QED
    BY <2>1, <2>2 DEF Steps
<1>6. g[size + j] = u
  <2> DEFINE T == {k \in Nat : g[size + k] = g[k]}
  <2>1. 0 \in T
    BY <1>1, <1>4 DEF Rounds, Steps
  <2>2. ASSUME NEW k \in Nat, k \in T
        PROVE  k + 1 \in T
    <3>1. size + k \in Nat /\ size + (k + 1) = (size + k) + 1 /\ g[size + k] = g[k]
      BY <1>4, <2>2
    <3>2. /\ g[(size + k) + 1] = IF g[size + k] = None THEN None ELSE S.next[g[size + k]]
          /\ g[k + 1] = IF g[k] = None THEN None ELSE S.next[g[k]]
      BY <3>1, <1>1 DEF Rounds, Steps
    <3> QED
      BY <3>1, <3>2
  <2>3. Nat \subseteq T
    <3> HIDE DEF T
    <3> QED
      BY <2>1, <2>2, NatInd
  <2> QED
    BY <2>3, <1>3, <1>4
<1>7. \A n \in Nat : After(S, t, n) = g[i + n]
  <2> SUFFICES ASSUME NEW n \in Nat PROVE After(S, t, n) = g[i + n]
    OBVIOUS
  <2>1. f[n] = g[i + n]
    OBVIOUS
  <2> HIDE DEF f
  <2> QED
    BY <2>1, <1>5, AfterIs
<1>8. size <= Cardinality(Thread) /\ Cardinality(Thread) \in Nat
  BY <1>1 DEF Rounds
<1>9. CASE i < j
  <2>1. j - i \in 1 .. Cardinality(Thread) /\ j - i \in Nat /\ i + (j - i) = j
    BY <1>9, <1>8, <1>4
  <2> QED
    BY <2>1, <1>7, <1>3
<1>10. CASE j <= i
  <2> DEFINE n == (size + j) - i
  <2>1. n \in 1 .. Cardinality(Thread) /\ n \in Nat /\ i + n = size + j
    BY <1>10, <1>8, <1>4
  <2> QED
    BY <2>1, <1>7, <1>6
<1> QED
  BY <1>9, <1>10, <1>4

(* A walk from a started thread meets started threads only.                *)
LEMMA AfterStarted ==
  ASSUME NEW S, Ringed(S.next), NEW t \in On(S.next), NEW n \in Nat
  PROVE  After(S, t, n) \in On(S.next)
<1>1. PICK g : Steps(S.next, t, g) /\ \A k \in Nat : g[k] \in On(S.next)
  BY WalkStays
<1>2. After(S, t, n) = g[n]
  BY <1>1, AfterIs
<1> QED
  BY <1>1, <1>2

(* The main thread is always on the list. *)
LEMMA MainOn ==
  ASSUME NEW nx, Ringed(nx)
  PROVE  Main \in On(nx)
<1>1. PICK h, prv : Linked(nx, h, prv)
  BY DEF Ringed
<1> QED
  BY <1>1 DEF Linked, Heights

(* What OneRing says holds of a ring. *)
LEMMA RingIsOne ==
  ASSUME sys.wild \/ Ringed(sys.next)
  PROVE  OneRing
<1> SUFFICES ASSUME Ringed(sys.next)
             PROVE  OneRing
  BY DEF OneRing
<1>1. PICK g, size : Rounds(sys.next, g, size)
  BY RoundExists
<1>2. Started = On(sys.next)
  BY DEF Started, On
<1>3. \A n \in Nat : After(sys, Main, n) = g[n]
  BY <1>1, AfterIs DEF Rounds
<1>4. size \in Nat \ {0} /\ size = Cardinality(Started)
  BY <1>1, <1>2 DEF Rounds
<1>5. {g[n] : n \in 0 .. size - 1} = Started /\ g[size] = Main
  BY <1>1, <1>2 DEF Rounds
<1>6. \A n \in 0 .. size - 1 : n \in Nat
  BY <1>4
<1>7. {After(sys, Main, n) : n \in 0 .. size - 1} = Started
  BY <1>3, <1>5, <1>6
<1>8. After(sys, Main, size) = Main
  BY <1>3, <1>4, <1>5
<1> QED
  BY <1>4, <1>7, <1>8 DEF OneRing

(* u enters the list after t. *)
LEMMA RingStarts ==
  ASSUME NEW nx, Links(nx), Ringed(nx), NEW t \in On(nx), NEW u \in Thread \ On(nx),
         NEW nx2, nx2 = [nx EXCEPT ![u] = nx[t], ![t] = u]
  PROVE  Links(nx2) /\ Ringed(nx2) /\ On(nx2) = On(nx) \cup {u}
<1>1. PICK h, prv : Linked(nx, h, prv)
  BY DEF Ringed
<1> DEFINE S == On(nx)
           z == nx[t]
           h2 == [x \in Thread |-> IF x = u THEN 2 * h[z] + 1 ELSE 2 * h[x]]
           prv2 == [x \in Thread |-> IF x = z THEN u ELSE IF x = u THEN t ELSE prv[x]]
<1>2. /\ S \subseteq Thread /\ t \in S /\ u \notin S /\ u \in Thread /\ t # u
      /\ Heights(S, Main, h) /\ Ring(S, Main, h, nx, prv)
  BY <1>1 DEF On, Linked
<1>3. z \in S /\ prv[z] = t /\ z # u
  BY <1>2 DEF Ring
<1>4. /\ \A x \in Thread : nx2[x] = IF x = t THEN u ELSE IF x = u THEN z ELSE nx[x]
      /\ Links(nx2)
  BY <1>2, <1>3 DEF Links
<1>5. /\ \A x \in S : h2[x] = 2 * h[x]
      /\ h2[u] = 2 * h[z] + 1
  BY <1>2
<1>6. Inserts(S, nx, prv, u, z, nx2, prv2)
  BY <1>2, <1>3, <1>4 DEF Inserts
<1>7. On(nx2) = S \cup {u}
  <2>1. \A x \in Thread : nx2[x] # None <=> x \in S \cup {u}
    BY <1>2, <1>3, <1>4, Apart DEF On
  <2> QED
    BY <2>1, <1>2 DEF On
<1> HIDE DEF S, z, h2, prv2
<1>8. Heights(S, Main, h2) /\ Ring(S, Main, h2, nx, prv)
  BY <1>2, <1>5, RingScale
<1>9. Main \in S /\ h[z] \in Nat /\ \A x \in S : h[x] \in Nat /\ h2[x] \in Nat
  BY <1>2, <1>3, <1>5, <1>8 DEF Heights
<1>10. h2[u] \in Nat /\ \A x \in S : h2[x] # h2[u]
  BY <1>5, <1>9
<1>11. Heights(S \cup {u}, Main, h2)
  BY <1>8, <1>10 DEF Heights
<1>12. FirstBelow(S, h2, h2[u], z)
  BY <1>3, <1>5, <1>9 DEF FirstBelow
<1>13. Ring(S \cup {u}, Main, h2, nx2, prv2)
  BY <1>2, <1>6, <1>8, <1>9, <1>11, <1>12, RingInsert
<1>14. Linked(nx2, h2, prv2)
  BY <1>7, <1>11, <1>13 DEF Linked
<1> QED
  BY <1>4, <1>7, <1>14 DEF Ringed, S

(* What becomes of the links when u leaves. *)
Without(nx, u) ==
  [p \in Thread |-> IF p = u THEN None
                    ELSE IF p \in {q \in Thread : nx[q] = u} THEN nx[u]
                    ELSE nx[p]]

(* u leaves the list. *)
LEMMA RingKills ==
  ASSUME NEW nx, Links(nx), Ringed(nx), NEW u \in On(nx), u # Main,
         NEW nx2, nx2 = Without(nx, u)
  PROVE  Links(nx2) /\ Ringed(nx2) /\ On(nx2) = On(nx) \ {u}
<1>1. PICK h, prv : Linked(nx, h, prv)
  BY DEF Ringed
<1> DEFINE S == On(nx)
           prv2 == [x \in Thread |-> IF x = nx[u] THEN prv[u] ELSE prv[x]]
<1>2. /\ S \subseteq Thread /\ u \in S \ {Main} /\ u # None
      /\ Heights(S, Main, h) /\ Ring(S, Main, h, nx, prv)
  BY <1>1, Apart DEF On, Linked
<1>3. nx[u] \in S /\ prv[u] \in S /\ nx[prv[u]] = u /\ nx[u] # None
  BY <1>2 DEF Ring, On
<1>4. \A x \in S : nx[x] = u <=> x = prv[u]
  BY <1>2, <1>3 DEF Ring
<1>5. /\ \A x \in Thread : nx2[x] = IF x = u THEN None
                                    ELSE IF nx[x] = u THEN nx[u] ELSE nx[x]
      /\ Links(nx2)
  BY <1>2 DEF Links, Without
<1>6. Removes(S, nx, prv, u, nx2, prv2)
  BY <1>2, <1>4, <1>5 DEF Removes
<1>7. On(nx2) = S \ {u}
  <2>1. \A x \in Thread : nx2[x] # None <=> x \in S \ {u}
    BY <1>2, <1>3, <1>5 DEF On
  <2> QED
    BY <2>1, <1>2 DEF On
<1> HIDE DEF S, prv2
<1>8. Ring(S \ {u}, Main, h, nx2, prv2)
  BY <1>2, <1>6, RingRemove
<1>9. Heights(S \ {u}, Main, h)
  BY <1>2 DEF Heights
<1>10. Linked(nx2, h, prv2)
  BY <1>7, <1>8, <1>9 DEF Linked
<1> QED
  BY <1>5, <1>7, <1>10 DEF Ringed, S

-----------------------------------------------------------------------------
(* The scheduler. *)

Deadlines == {d \in Int : d >= Past}
Systems == [next : [Thread -> Thread \cup {None}], wchan : [Thread -> Channels],
            wclk : [Thread -> BOOLEAN], due : [Thread -> Deadlines],
            ct : Thread, nt : Thread \cup {None}, left : 1 .. Wrap,
            idle : BOOLEAN, late : BOOLEAN, wild : BOOLEAN]

(* R has the fields of S, but for some. *)
SameLists(S, R) == R.next = S.next /\ R.wild = S.wild
SameWaits(S, R) == R.wchan = S.wchan /\ R.wclk = S.wclk
SameTurn(S, R) == R.ct = S.ct /\ R.idle = S.idle /\ R.late = S.late

(* The deadlines when n frames have passed.                                *)
Shifted(d, n) == [t \in Thread |-> IF d[t] = Past \/ d[t] - n < Past THEN Past ELSE d[t] - n]

Advanced(S, n, R) ==
  /\ R \in Systems /\ SameLists(S, R) /\ SameWaits(S, R) /\ SameTurn(S, R)
  /\ R.nt = S.nt /\ R.left = S.left /\ R.due = Shifted(S.due, n)

(* Advance shifts every deadline, and changes nothing else. *)
LEMMA AdvanceIs ==
  ASSUME NEW S \in Systems, NEW n \in Int
  PROVE  Advanced(S, n, Advance(S, n))
<1> DEFINE R == Advance(S, n)
<1>1. Shifted(S.due, n) \in [Thread -> Deadlines]
  BY Numbers DEF Shifted, Deadlines, Systems
<1>2. R = [S EXCEPT !.due = Shifted(S.due, n)]
  BY DEF Advance, Shifted
<1>3. R \in Systems
  BY <1>1, <1>2 DEF Systems
<1> HIDE DEF R
<1>4. R.due = Shifted(S.due, n)
  BY <1>2 DEF Systems
<1>5. SameLists(S, R) /\ SameWaits(S, R) /\ SameTurn(S, R) /\ R.nt = S.nt /\ R.left = S.left
  BY <1>2 DEF Systems, SameLists, SameWaits, SameTurn
<1> QED
  BY <1>3, <1>4, <1>5 DEF Advanced, R

(* Time passes for all deadlines alike. *)
LEMMA ShiftedOrder ==
  ASSUME NEW d \in [Thread -> Deadlines], NEW n \in Int,
         NEW t \in Thread, NEW u \in Thread, d[t] <= d[u]
  PROVE  Shifted(d, n)[t] <= Shifted(d, n)[u]
<1>1. d[t] \in Int /\ d[u] \in Int /\ Past \in Int /\ d[t] >= Past /\ d[u] >= Past
  BY Numbers DEF Deadlines
<1> QED
  BY <1>1 DEF Shifted

(* The length of the next slice; none is empty while no deadline is past.  *)
NonePast(S, g) == S.nt = None \/ Deadline(S, g, S.nt) > 0

(* A slice is not longer than MaxSlice. *)
LEMMA SliceIs ==
  ASSUME NEW S \in Systems, NEW g \in Int
  PROVE  /\ Slice(S, g) \in Int /\ 0 <= Slice(S, g) /\ Slice(S, g) <= MaxSlice
         /\ NonePast(S, g) => Slice(S, g) # 0
<1> DEFINE d == IF S.nt = None THEN MaxSlice ELSE Deadline(S, g, S.nt)
<1>1. d \in Int
  BY Numbers, Apart DEF Deadline, Deadlines, Systems
<1>2. NonePast(S, g) => d > 0
  BY Numbers DEF NonePast
<1>3. Slice(S, g) = IF 0 <= d /\ d <= MaxSlice THEN d ELSE MaxSlice
  BY DEF Slice
<1> HIDE DEF d
<1> QED
  BY <1>1, <1>2, <1>3, Numbers

(* The thread t runs for n frames. *)
Switched(S, n, t, R) ==
  /\ R \in Systems /\ SameLists(S, R)
  /\ R.wclk = S.wclk /\ R.wchan = [S.wchan EXCEPT ![t] = None]
  /\ R.nt = S.nt /\ R.ct = t /\ R.idle = FALSE
  /\ R.due = Shifted(S.due, n)
  /\ R.left = (IF n = 0 THEN Wrap ELSE n)
  /\ R.late = (S.late \/ n = 0)

(* Switch resumes the thread t, for one slice. *)
LEMMA SwitchIs ==
  ASSUME NEW S \in Systems, NEW g \in Int, NEW t \in Thread
  PROVE  Switched(S, Slice(S, g), t, Switch(S, g, t))
<1> DEFINE n == Slice(S, g)
           A == Advance(S, n)
           wait == IF n = 0 THEN Wrap ELSE n
           R == [A EXCEPT !.wchan[t] = None, !.ct = t, !.idle = FALSE,
                          !.left = wait, !.late = S.late \/ wait # n]
<1>1. n \in Int /\ 0 <= n /\ n <= MaxSlice
  BY SliceIs
<1>2. Switch(S, g, t) = R
  BY DEF Switch
<1> HIDE DEF n
<1>3. Advanced(S, n, A)
  BY <1>1, AdvanceIs
<1>4. wait \in 1 .. Wrap
  BY <1>1, Numbers
<1> HIDE DEF A
<1>5. (wait # n) = (n = 0)
  BY <1>1, Numbers
<1> HIDE DEF wait
<1>6. A \in Systems
  BY <1>3 DEF Advanced
<1>7. [A.wchan EXCEPT ![t] = None] \in [Thread -> Channels]
  BY <1>6 DEF Systems, Channels
<1>8. /\ R.next = A.next /\ R.wild = A.wild /\ R.wclk = A.wclk
      /\ R.wchan = [A.wchan EXCEPT ![t] = None] /\ R.nt = A.nt /\ R.ct = t
      /\ R.idle = FALSE /\ R.due = A.due /\ R.left = wait
      /\ R.late = (S.late \/ wait # n)
  BY <1>6 DEF Systems
<1>9. (S.late \/ wait # n) \in BOOLEAN
  OBVIOUS
<1>10. R \in Systems
  BY <1>4, <1>6, <1>7, <1>9 DEF Systems
<1> HIDE DEF R
<1>11. SameLists(S, R) /\ R.wclk = S.wclk /\ R.wchan = [S.wchan EXCEPT ![t] = None]
       /\ R.nt = S.nt /\ R.due = Shifted(S.due, n)
  BY <1>3, <1>8 DEF Advanced, SameLists, SameWaits
<1>12. R.left = (IF n = 0 THEN Wrap ELSE n)
  BY <1>8 DEF wait
<1>13. R.late = (S.late \/ n = 0)
  BY <1>5, <1>8
<1>14. Switched(S, n, t, R)
  BY <1>8, <1>10, <1>11, <1>12, <1>13 DEF Switched
<1> QED
  BY <1>2, <1>14 DEF n

(* The threads that wait with a deadline. *)
Timed(S) == {u \in Thread : S.next[u] # None /\ S.wchan[u] # None /\ S.wclk[u]}

(* nt is one of those whose deadline comes first. *)
Earliest(S, nt) ==
  \/ Timed(S) = {} /\ nt = None
  \/ nt \in Timed(S) /\ \A u \in Timed(S) : S.due[nt] <= S.due[u]

(* The scheduler watches nt from now on. *)
Watched(S, nt, R) ==
  /\ R \in Systems /\ SameLists(S, R) /\ SameWaits(S, R) /\ SameTurn(S, R)
  /\ R.due = S.due /\ R.left = S.left /\ R.nt = nt

(* Assigning nt is all that watching takes. *)
LEMMA WatchedIs ==
  ASSUME NEW S \in Systems, NEW u \in Thread \cup {None}
  PROVE  Watched(S, u, [S EXCEPT !.nt = u])
BY DEF Watched, Systems, SameLists, SameWaits, SameTurn

Fixed(S, R) == \E nt : Earliest(S, nt) /\ Watched(S, nt, R)

(* FixNt, called from a started thread, finds the earliest deadline: the   *)
(* search meets every thread of the ring.                                  *)
LEMMA FixNtIs ==
  ASSUME NEW S \in Systems, Ringed(S.next), NEW t \in On(S.next)
  PROVE  Fixed(S, FixNt(S, t))
<1> DEFINE turn(u) == CHOOSE n \in 0 .. Cardinality(Thread) : After(S, t, n) = u
           First(u) == \A v \in Timed(S) :
                         \/ S.due[u] < S.due[v]
                         \/ S.due[u] = S.due[v] /\ (u = v \/ turn(u) < turn(v))
           first == CHOOSE u \in Timed(S) : First(u)
<1>1. S.next[t] # None
  BY DEF On
<1>2. FixNt(S, t) = IF S.next[t] = None THEN [S EXCEPT !.wild = TRUE]
                    ELSE [S EXCEPT !.nt = IF Timed(S) = {} THEN None ELSE first]
  BY Zenon DEF FixNt, Timed
<1>3. Timed(S) \subseteq On(S.next) /\ Timed(S) \subseteq Thread
  BY DEF Timed, On
<1>4. \A u \in On(S.next) :
        turn(u) \in 0 .. Cardinality(Thread) /\ After(S, t, turn(u)) = u
  <2> SUFFICES ASSUME NEW u \in On(S.next)
               PROVE  turn(u) \in 0 .. Cardinality(Thread) /\ After(S, t, turn(u)) = u
    OBVIOUS
  <2>1. PICK n \in 1 .. Cardinality(Thread) : After(S, t, n) = u
    BY RoundReaches
  <2>2. n \in 0 .. Cardinality(Thread)
    BY Apart, FS_CardinalityType
  <2> QED
    BY <2>1, <2>2
<1> HIDE DEF turn
<1>5. \A u \in Timed(S) : turn(u) \in Nat
  <2>1. Cardinality(Thread) \in Nat
    BY Apart, FS_CardinalityType
  <2> QED
    BY <2>1, <1>3, <1>4
<1>6. \A u, v \in Timed(S) : turn(u) = turn(v) => u = v
  BY <1>3, <1>4
<1>7. \A u \in Timed(S) : S.due[u] \in Int /\ S.due[u] >= Past
  BY <1>3 DEF Systems, Deadlines
<1>8. ASSUME Timed(S) # {}
      PROVE  \E u \in Timed(S) : First(u)
  <2> DEFINE D == {S.due[u] + MaxLate : u \in Timed(S)}
  <2>1. D \subseteq Nat /\ D # {}
    BY <1>7, <1>8, Numbers
  <2>2. PICK d \in D : \A x \in D : d <= x
    BY <2>1, LeastNat
  <2>3. PICK w \in Timed(S) : d = S.due[w] + MaxLate
    OBVIOUS
  <2>4. \A v \in Timed(S) : S.due[w] <= S.due[v]
    <3> SUFFICES ASSUME NEW v \in Timed(S) PROVE S.due[w] <= S.due[v]
      OBVIOUS
    <3>1. S.due[v] + MaxLate \in D
      OBVIOUS
    <3> HIDE DEF D
    <3>2. S.due[w] + MaxLate <= S.due[v] + MaxLate
      BY <3>1, <2>2, <2>3
    <3>3. S.due[v] \in Int /\ S.due[w] \in Int /\ MaxLate \in Int
      BY <1>7, Numbers
    <3> QED
      BY <3>2, <3>3
  <2> HIDE DEF D
  <2> DEFINE T == {turn(u) : u \in {x \in Timed(S) : S.due[x] = S.due[w]}}
  <2>5. T \subseteq Nat /\ T # {}
    BY <1>5, <2>3
  <2>6. PICK k \in T : \A x \in T : k <= x
    BY <2>5, LeastNat
  <2>7. PICK u \in Timed(S) : S.due[u] = S.due[w] /\ k = turn(u)
    OBVIOUS
  <2>8. First(u)
    <3> SUFFICES ASSUME NEW v \in Timed(S)
                 PROVE  \/ S.due[u] < S.due[v]
                        \/ S.due[u] = S.due[v] /\ (u = v \/ turn(u) < turn(v))
      BY DEF First
    <3>1. S.due[u] <= S.due[v] /\ S.due[u] \in Int /\ S.due[v] \in Int
      BY <2>4, <2>7, <1>7
    <3>2. S.due[u] = S.due[v] => turn(u) <= turn(v)
      BY <2>6, <2>7
    <3>3. turn(u) \in Nat /\ turn(v) \in Nat /\ (turn(u) = turn(v) => u = v)
      BY <1>5, <1>6
    <3> QED
      BY <3>1, <3>2, <3>3
  <2> QED
    BY <2>8
<1>9. CASE Timed(S) = {}
  <2>1. FixNt(S, t) = [S EXCEPT !.nt = None]
    BY <1>1, <1>2, <1>9
  <2>2. Earliest(S, None)
    BY <1>9 DEF Earliest
  <2>3. Watched(S, None, FixNt(S, t))
    BY <2>1, WatchedIs
  <2> QED
    BY <2>2, <2>3 DEF Fixed
<1>10. CASE Timed(S) # {}
  <2>1. FixNt(S, t) = [S EXCEPT !.nt = first]
    BY <1>1, <1>2, <1>10
  <2> HIDE DEF First
  <2>2. first \in Timed(S) /\ First(first)
    BY <1>8, <1>10
  <2> USE DEF First
  <2> HIDE DEF first
  <2>3. ASSUME NEW u \in Timed(S)
        PROVE  S.due[first] <= S.due[u]
    BY <2>2, <1>7
  <2>4. Earliest(S, first)
    BY <2>2, <2>3 DEF Earliest
  <2>5. first \in Thread \cup {None}
    BY <2>2, <1>3
  <2>6. Watched(S, first, FixNt(S, t))
    BY <2>1, <2>5, WatchedIs
  <2> QED
    BY <2>4, <2>6 DEF Fixed
<1> QED
  BY <1>9, <1>10

(* t has a deadline that comes before the one the scheduler watches. *)
Urgent(S, g, t) ==
  /\ S.wchan[t] # None /\ S.wclk[t]
  /\ S.nt = None \/ S.due[t] < Deadline(S, g, S.nt)

(* ChkNt only watches t when its deadline is the nearest. *)
LEMMA ChkNtIs ==
  ASSUME NEW S \in Systems, NEW g, NEW t \in Thread
  PROVE  Watched(S, IF Urgent(S, g, t) THEN t ELSE S.nt, ChkNt(S, g, t))
<1>1. CASE Urgent(S, g, t)
  <2>1. ChkNt(S, g, t) = [S EXCEPT !.nt = t]
    BY <1>1 DEF ChkNt, Urgent
  <2> QED
    BY <1>1, <2>1, WatchedIs
<1>2. CASE ~ Urgent(S, g, t)
  <2>1. ChkNt(S, g, t) = S
    BY <1>2 DEF ChkNt, Urgent
  <2> QED
    BY <1>2, <2>1 DEF Watched, SameLists, SameWaits, SameTurn
<1> QED
  BY <1>1, <1>2

(* t has no deadline any more. *)
Cleared(S, t, R) ==
  /\ R \in Systems /\ SameLists(S, R) /\ SameTurn(S, R)
  /\ R.wchan = S.wchan /\ R.wclk = [S.wclk EXCEPT ![t] = FALSE]
  /\ R.due = S.due /\ R.left = S.left /\ R.nt = S.nt

(* Assigning wclk is all that forgetting a deadline takes. *)
LEMMA ClearedIs ==
  ASSUME NEW S \in Systems, NEW t \in Thread
  PROVE  Cleared(S, t, [S EXCEPT !.wclk[t] = FALSE])
BY DEF Cleared, Systems, SameLists, SameTurn

(* FixNt, called from a thread that left the list, reads where it should not. *)
LEMMA FixNtWild ==
  ASSUME NEW S \in Systems, NEW t, S.next[t] = None
  PROVE  FixNt(S, t) \in Systems /\ FixNt(S, t).wild
<1>1. FixNt(S, t) = [S EXCEPT !.wild = TRUE]
  BY Zenon DEF FixNt
<1> QED
  BY <1>1 DEF Systems

(* What a passage through the scheduler may come to.                       *)
TimedOut(S, g, R) ==
  /\ S.nt \in Thread /\ Deadline(S, g, S.nt) <= 0
  /\ \/ S.nt \notin On(S.next) /\ R \in Systems /\ R.wild
     \/ /\ S.nt \in On(S.next)
        /\ \E C, F : /\ Cleared(S, S.nt, C) /\ Fixed(C, F)
                     /\ Switched(F, Slice(F, g), S.nt, R)

(* TimeOut resumes the thread that was watched, after it has looked for    *)
(* the next one.                                                           *)
LEMMA TimeOutIs ==
  ASSUME NEW S \in Systems, Ringed(S.next), NEW g \in Int, S.nt # None,
         Deadline(S, g, S.nt) <= 0
  PROVE  TimedOut(S, g, TimeOut(S, g))
<1> DEFINE t == S.nt
           C == [S EXCEPT !.wclk[t] = FALSE]
           F == FixNt(C, t)
           R == Switch(F, g, t)
<1>1. t \in Thread
  BY DEF Systems
<1>2. Cleared(S, t, C)
  BY <1>1, ClearedIs
<1>3. TimeOut(S, g) = R
  BY DEF TimeOut
<1> HIDE DEF C
<1>4. C \in Systems /\ C.next = S.next
  BY <1>2 DEF Cleared, SameLists
<1>5. CASE t \notin On(S.next)
  <2>1. C.next[t] = None
    BY <1>1, <1>4, <1>5 DEF On
  <2>2. F \in Systems /\ F.wild
    BY <1>4, <2>1, FixNtWild
  <2> HIDE DEF F
  <2>3. Switched(F, Slice(F, g), t, R)
    BY <1>1, <2>2, SwitchIs
  <2> HIDE DEF R, t
  <2>4. R \in Systems /\ R.wild
    BY <2>2, <2>3 DEF Switched, SameLists
  <2> USE DEF t
  <2> QED
    BY <1>1, <1>3, <1>5, <2>4 DEF TimedOut
<1>6. CASE t \in On(S.next)
  <2>1. Fixed(C, F)
    BY <1>4, <1>6, FixNtIs
  <2> HIDE DEF F
  <2>2. F \in Systems
    BY <2>1 DEF Fixed, Watched
  <2>3. Switched(F, Slice(F, g), t, R)
    BY <1>1, <2>2, SwitchIs
  <2> HIDE DEF R
  <2> QED
    BY <1>1, <1>2, <1>3, <1>6, <2>1, <2>3 DEF TimedOut
<1> QED
  BY <1>5, <1>6

Idled(S, b, R) ==
  /\ R \in Systems /\ SameLists(S, R) /\ SameWaits(S, R) /\ R.due = S.due
  /\ R.nt = S.nt /\ R.ct = S.ct /\ R.late = S.late
  /\ R.left = MaxSlice /\ R.idle = TRUE
  /\ \A u \in On(S.next) : Blocked(S, b, u)

Resumed(S, b, g, R) ==
  \E u \in On(S.next) : ~ Blocked(S, b, u) /\ Switched(S, Slice(S, g), u, R)

(* Pick resumes a thread that is not blocked, wherever it is on the ring,  *)
(* or finds that all are.                                                  *)
LEMMA PickIs ==
  ASSUME NEW S \in Systems, Ringed(S.next), NEW b, NEW g \in Int,
         NEW t \in On(S.next)
  PROVE  \/ Idled(S, b, Pick(S, b, g, t))
         \/ Resumed(S, b, g, Pick(S, b, g, t))
<1> DEFINE ready == {n \in 1 .. Cardinality(Thread) : ~ Blocked(S, b, After(S, t, n))}
           least == CHOOSE n \in ready : \A k \in ready : n <= k
           u == After(S, t, least)
<1>1. Pick(S, b, g, t) = IF ready = {} THEN [S EXCEPT !.idle = TRUE, !.left = MaxSlice]
                         ELSE Switch(S, g, u)
  BY Zenon DEF Pick
<1>2. Cardinality(Thread) \in Nat
  BY Apart, FS_CardinalityType
<1>3. CASE ready = {}
  <2>1. \A w \in On(S.next) : Blocked(S, b, w)
    <3> SUFFICES ASSUME NEW w \in On(S.next) PROVE Blocked(S, b, w)
      OBVIOUS
    <3>1. PICK n \in 1 .. Cardinality(Thread) : After(S, t, n) = w
      BY RoundReaches
    <3> QED
      BY <1>3, <3>1
  <2> HIDE DEF ready, u
  <2> DEFINE R == [S EXCEPT !.idle = TRUE, !.left = MaxSlice]
  <2>2. MaxSlice \in 1 .. Wrap
    BY Numbers
  <2>3. R \in Systems
    BY <2>2 DEF Systems
  <2>4. /\ SameLists(S, R) /\ SameWaits(S, R) /\ R.due = S.due
        /\ R.nt = S.nt /\ R.ct = S.ct /\ R.late = S.late
        /\ R.left = MaxSlice /\ R.idle = TRUE
    BY DEF Systems, SameLists, SameWaits
  <2>5. Pick(S, b, g, t) = R
    BY <1>1, <1>3
  <2> HIDE DEF R
  <2> QED
    BY <2>1, <2>3, <2>4, <2>5 DEF Idled
<1>4. CASE ready # {}
  <2>1. ready \subseteq Nat
    OBVIOUS
  <2> HIDE DEF ready
  <2>2. \E n \in ready : \A k \in ready : n <= k
    BY <1>4, <2>1, LeastNat
  <2>3. least \in ready
    BY <2>2
  <2>4. least \in Nat
    BY <2>1, <2>3
  <2> HIDE DEF least
  <2>5. ~ Blocked(S, b, u)
    BY <2>3 DEF ready
  <2>6. u \in On(S.next) /\ u \in Thread
    BY <2>4, AfterStarted DEF On
  <2>7. Pick(S, b, g, t) = Switch(S, g, u)
    BY <1>1, <1>4
  <2> HIDE DEF u
  <2>8. Switched(S, Slice(S, g), u, Switch(S, g, u))
    BY <2>6, SwitchIs
  <2> QED
    BY <2>5, <2>6, <2>7, <2>8 DEF Resumed
<1> QED
  BY <1>3, <1>4

Irqed(S, b, g, R) ==
  \/ S.wild /\ R = S
  \/ ~ S.wild /\ TimedOut(S, g, R)
  \/ ~ S.wild /\ NonePast(S, g) /\ Idled(S, b, R)
  \/ ~ S.wild /\ NonePast(S, g) /\ Resumed(S, b, g, R)

(* The scheduler times out a thread, or resumes one, or finds none. *)
LEMMA IrqIs ==
  ASSUME NEW S \in Systems, S.wild \/ Ringed(S.next), NEW b, NEW g \in Int
  PROVE  Irqed(S, b, g, Irq(S, b, g))
<1>1. CASE S.wild
  BY <1>1 DEF Irq, Irqed
<1>2. CASE ~ S.wild /\ S.nt # None /\ Deadline(S, g, S.nt) <= 0
  <2>1. Irq(S, b, g) = TimeOut(S, g)
    BY <1>2 DEF Irq
  <2>2. TimedOut(S, g, TimeOut(S, g))
    BY <1>2, TimeOutIs
  <2> QED
    BY <1>2, <2>1, <2>2 DEF Irqed
<1>3. CASE ~ S.wild /\ ~(S.nt # None /\ Deadline(S, g, S.nt) <= 0)
  <2> DEFINE t == IF S.next[S.ct] = None THEN Main ELSE S.ct
  <2>1. Irq(S, b, g) = Pick(S, b, g, t)
    BY <1>3 DEF Irq
  <2>2. Ringed(S.next)
    BY <1>3
  <2>3. t \in On(S.next)
    BY <2>2, MainOn DEF On, Systems
  <2>4. NonePast(S, g)
    <3>1. CASE S.nt = None
      BY <3>1 DEF NonePast
    <3>2. CASE S.nt # None
      <4>1. Deadline(S, g, S.nt) \in Int
        BY <3>2 DEF Deadline, Systems, Deadlines
      <4>2. ~(Deadline(S, g, S.nt) <= 0)
        BY <1>3, <3>2
      <4> HIDE DEF t
      <4> QED
        BY <4>1, <4>2 DEF NonePast
    <3> QED
      BY <3>1, <3>2
  <2> HIDE DEF t
  <2>5. \/ Idled(S, b, Pick(S, b, g, t))
        \/ Resumed(S, b, g, Pick(S, b, g, t))
    BY <2>2, <2>3, PickIs
  <2> QED
    BY <1>3, <2>1, <2>4, <2>5 DEF Irqed
<1> QED
  BY <1>1, <1>2, <1>3

(* u is not on the list any more. *)
Unlinked(S, u, R) ==
  /\ R \in Systems /\ R.next = Without(S.next, u) /\ R.wild = S.wild
  /\ SameWaits(S, R) /\ SameTurn(S, R)
  /\ R.due = S.due /\ R.left = S.left /\ R.nt = S.nt

Unlinks(S, t, u, R) ==
  \/ u \notin On(S.next) /\ R = S
  \/ /\ u \in On(S.next)
     /\ \E K : /\ Unlinked(S, u, K)
               /\ \/ S.nt # u /\ R = K
                  \/ S.nt = u /\ t \notin On(K.next) /\ R \in Systems /\ R.wild
                  \/ S.nt = u /\ t \in On(K.next) /\ Fixed(K, R)

(* .kill2 and .kill3. *)
LEMMA KilledIs ==
  ASSUME NEW S \in Systems, Ringed(S.next), NEW t \in Thread, NEW u \in Thread \ {Main}
  PROVE  Unlinks(S, t, u, Killed(S, t, u))
<1> DEFINE K == [S EXCEPT !.next = Without(S.next, u)]
<1>1. Killed(S, t, u) = IF S.next[u] = None THEN S
                        ELSE IF S.nt = u THEN FixNt(K, t) ELSE K
  BY Zenon DEF Killed, Without
<1>2. CASE u \notin On(S.next)
  <2>1. S.next[u] = None
    BY <1>2 DEF On
  <2> QED
    BY <1>1, <1>2, <2>1 DEF Unlinks
<1>3. CASE u \in On(S.next)
  <2>1. S.next[u] # None
    BY <1>3 DEF On
  <2>2. Links(S.next)
    BY DEF Systems, Links
  <2>3. \A nx : nx = Without(S.next, u) => Links(nx) /\ Ringed(nx)
    BY <1>3, <2>2, RingKills
  <2>4. Links(Without(S.next, u)) /\ Ringed(Without(S.next, u))
    BY <2>3
  <2>5. Unlinked(S, u, K)
    BY <2>4 DEF Unlinked, Systems, Links, SameWaits, SameTurn
  <2> HIDE DEF K
  <2>6. K \in Systems /\ Ringed(K.next)
    BY <2>4, <2>5 DEF Unlinked
  <2>7. CASE S.nt # u
    BY <1>1, <1>3, <2>1, <2>5, <2>7 DEF Unlinks
  <2>8. CASE S.nt = u /\ t \notin On(K.next)
    <3>1. K.next[t] = None
      BY <2>8 DEF On
    <3>2. FixNt(K, t) \in Systems /\ FixNt(K, t).wild
      BY <2>6, <3>1, FixNtWild
    <3>3. Killed(S, t, u) = FixNt(K, t)
      BY <1>1, <2>1, <2>8
    <3> QED
      BY <1>3, <2>5, <2>8, <3>2, <3>3 DEF Unlinks
  <2>9. CASE S.nt = u /\ t \in On(K.next)
    <3>1. Fixed(K, FixNt(K, t))
      BY <2>6, <2>9, FixNtIs
    <3>2. Killed(S, t, u) = FixNt(K, t)
      BY <1>1, <2>1, <2>9
    <3> QED
      BY <1>3, <2>5, <2>9, <3>1, <3>2 DEF Unlinks
  <2> QED
    BY <2>7, <2>8, <2>9
<1> QED
  BY <1>2, <1>3

-----------------------------------------------------------------------------
(* All programs: the types and the ring.                                   *)

(* The scheduler may be entered with S, ... *)
Entering(S) == S \in Systems /\ (S.wild \/ Ringed(S.next))
(* ... and is left with S: a started thread runs, or none can. *)
Settled(S) == S \in Systems /\ (S.wild \/ (Ringed(S.next) /\ (S.idle \/ S.ct \in On(S.next))))

(* A passage through the scheduler keeps the links and resumes a started   *)
(* thread, or nobody.                                                      *)
LEMMA IrqSettles ==
  ASSUME NEW S, Entering(S), NEW b, NEW g \in Int, NEW R, Irqed(S, b, g, R)
  PROVE  Settled(R) /\ (R.wild \/ R.next = S.next)
<1>1. CASE S.wild /\ R = S
  BY <1>1 DEF Entering, Settled
<1>2. CASE ~ S.wild /\ TimedOut(S, g, R)
  <2>1. CASE S.nt \notin On(S.next) /\ R \in Systems /\ R.wild
    BY <2>1 DEF Settled
  <2>2. CASE S.nt \in On(S.next) /\
             \E C, F : /\ Cleared(S, S.nt, C) /\ Fixed(C, F)
                       /\ Switched(F, Slice(F, g), S.nt, R)
    <3>1. PICK C, F : /\ Cleared(S, S.nt, C) /\ Fixed(C, F)
                      /\ Switched(F, Slice(F, g), S.nt, R)
      BY <2>2
    <3>2. C.next = S.next /\ C.wild = S.wild
      BY <3>1 DEF Cleared, SameLists
    <3>3. F.next = C.next /\ F.wild = C.wild
      BY <3>1 DEF Fixed, Watched, SameLists
    <3>4. R.next = F.next /\ R.wild = F.wild /\ R.ct = S.nt /\ R \in Systems
      BY <3>1 DEF Switched, SameLists
    <3>5. Ringed(S.next)
      BY <1>2 DEF Entering
    <3> QED
      BY <2>2, <3>2, <3>3, <3>4, <3>5 DEF Settled
  <2> QED
    BY <1>2, <2>1, <2>2 DEF TimedOut
<1>3. CASE ~ S.wild /\ Idled(S, b, R)
  <2>1. R.next = S.next /\ R.idle /\ R \in Systems
    BY <1>3 DEF Idled, SameLists
  <2>2. Ringed(S.next)
    BY <1>3 DEF Entering
  <2> QED
    BY <2>1, <2>2 DEF Settled
<1>4. CASE ~ S.wild /\ Resumed(S, b, g, R)
  <2>1. PICK u \in On(S.next) : Switched(S, Slice(S, g), u, R)
    BY <1>4 DEF Resumed
  <2>2. R.next = S.next /\ R.ct = u /\ R \in Systems
    BY <2>1 DEF Switched, SameLists
  <2>3. Ringed(S.next)
    BY <1>4 DEF Entering
  <2> QED
    BY <2>2, <2>3 DEF Settled
<1> QED
  BY <1>1, <1>2, <1>3, <1>4 DEF Irqed

(* What stands for a missing deadline is a number. *)
LEMMA GarbageInt == Garbage \subseteq Int
BY Numbers DEF Garbage

(* Bringing the clock to the present shifts every deadline. *)
LEMMA PresentIs ==
  ASSUME NEW S \in Systems
  PROVE  Advanced(S, - S.left, Present(S))
<1>1. - S.left \in Int
  BY Numbers DEF Systems
<1> QED
  BY <1>1, AdvanceIs DEF Present

(* Who is in gt_start names a thread that is not started, and that nobody  *)
(* else is starting; who is in gt_kill names another one than main.        *)
LinksOK ==
  \A t \in Thread :
    /\ pc[t] = "kill" => arg[t] \in Thread \ {Main}
    /\ pc[t] = "start" =>
         /\ arg[t] \in Thread \ On(sys.next)
         /\ \A v \in Thread \ {t} : pc[v] = "start" => arg[v] # arg[t]

SchedulerOK ==
  /\ Settled(sys)
  /\ ended \in [Thread -> BOOLEAN]
  /\ sys.wild \/ LinksOK

Typed == Inv /\ SchedulerOK

(* What a step does that starts and kills nothing. *)
NoNewLinks ==
  \A t \in Thread : pc'[t] \in {"start", "kill"} => pc[t] = pc'[t] /\ arg'[t] = arg[t]

(* Calls that start and kill nothing keep what is known of the others. *)
LEMMA LinksKept ==
  ASSUME LinksOK, NoNewLinks, On(sys'.next) \subseteq On(sys.next)
  PROVE  LinksOK'
BY DEF LinksOK, NoNewLinks

(* The system when a thread runs. *)
LEMMA RunningOn ==
  ASSUME Typed, NEW t \in Thread, Running(t)
  PROVE  /\ sys \in Systems /\ ~ sys.wild /\ ~ sys.idle /\ sys.ct = t
         /\ Ringed(sys.next) /\ t \in On(sys.next) /\ LinksOK
BY DEF Typed, SchedulerOK, Settled, Running

(* A passage through the scheduler that changes no link. *)
LEMMA PassageOK ==
  ASSUME Typed, NoNewLinks, ended' \in [Thread -> BOOLEAN],
         ~ sys.wild, NEW S, NEW b, NEW g \in Garbage, S \in Systems,
         SameLists(sys, S), sys' = Irq(S, b, g)
  PROVE  SchedulerOK'
<1>1. Ringed(S.next) /\ LinksOK /\ S.next = sys.next
  BY DEF Typed, SchedulerOK, Settled, SameLists
<1>2. Entering(S) /\ g \in Int
  BY <1>1, GarbageInt DEF Entering
<1>3. Irqed(S, b, g, Irq(S, b, g))
  BY <1>1, <1>2, IrqIs DEF Entering
<1>4. PICK R : R = sys'
  OBVIOUS
<1>5. Settled(R) /\ (R.wild \/ R.next = S.next)
  BY <1>2, <1>3, <1>4, IrqSettles
<1>6. CASE R.wild
  BY <1>4, <1>5, <1>6 DEF SchedulerOK
<1>7. CASE R.next = S.next
  <2>1. LinksOK'
    BY <1>1, <1>4, <1>7, LinksKept
  <2> QED
    BY <1>4, <1>5, <2>1 DEF SchedulerOK
<1> QED
  BY <1>5, <1>6, <1>7

(* A step outside of the scheduler. *)
LEMMA OutsideOK ==
  ASSUME Typed, LinksOK', ended' \in [Thread -> BOOLEAN], NEW t \in Thread, Running(t),
         sys' \in Systems, SameLists(sys, sys'), SameTurn(sys, sys')
  PROVE  SchedulerOK'
<1>1. Ringed(sys.next) /\ sys.ct \in On(sys.next)
  BY RunningOn
<1>2. Settled(sys')
  <2>1. PICK R : R = sys'
    OBVIOUS
  <2>2. R.next = sys.next /\ R.ct = sys.ct /\ R \in Systems
    BY <2>1 DEF SameLists, SameTurn
  <2>3. Settled(R)
    BY <1>1, <2>2 DEF Settled
  <2> QED
    BY <2>1, <2>3
<1> QED
  BY <1>2 DEF SchedulerOK, Settled

(* A step that leaves the scheduler alone keeps its types. *)
LEMMA SameSys ==
  ASSUME Typed, UNCHANGED sys
  PROVE  sys' \in Systems /\ SameLists(sys, sys') /\ SameTurn(sys, sys')
BY DEF Typed, SchedulerOK, Settled, SameLists, SameTurn

(* Frames pass. *)
LEMMA TickOK ==
  ASSUME Typed, Tick
  PROVE  SchedulerOK'
<1>1. ~ sys.wild /\ UNCHANGED <<pc, arg, cv, ended, byte, owned>>
  BY DEF Tick, Objects
<1>2. NoNewLinks /\ ended' \in [Thread -> BOOLEAN] /\ sys \in Systems
  BY <1>1 DEF NoNewLinks, Typed, SchedulerOK, Settled
<1>3. CASE sys.idle
  <2>1. PICK g \in Garbage : sys' = Irq(Advance(sys, 1), byte, g)
    BY <1>3 DEF Tick, Sched
  <2>2. Advanced(sys, 1, Advance(sys, 1))
    BY <1>2, AdvanceIs
  <2> QED
    BY <1>1, <1>2, <2>1, <2>2, PassageOK DEF Advanced
<1>4. CASE ~ sys.idle /\ sys.left = 1
  <2>1. PICK g \in Garbage : sys' = Irq(sys, byte, g)
    BY <1>4 DEF Tick, Sched
  <2>2. SameLists(sys, sys)
    BY DEF SameLists
  <2> QED
    BY <1>1, <1>2, <2>1, <2>2, PassageOK
<1>5. CASE ~ sys.idle /\ sys.left # 1
  <2>1. sys' = [sys EXCEPT !.left = @ - 1]
    BY <1>5 DEF Tick
  <2>2. sys.left - 1 \in 1 .. Wrap
    BY <1>2, <1>5, Numbers DEF Systems
  <2>3. /\ sys' \in Systems /\ SameLists(sys, sys') /\ SameTurn(sys, sys')
    BY <1>2, <2>1, <2>2 DEF Systems, SameLists, SameTurn
  <2>4. Running(sys.ct) /\ sys.ct \in Thread
    BY <1>1, <1>2, <1>5 DEF Running, Systems
  <2>5. LinksOK
    BY <2>4, RunningOn
  <2>6. LinksOK'
    BY <1>2, <2>3, <2>5, LinksKept DEF SameLists
  <2> QED
    BY <1>2, <2>3, <2>4, <2>6, OutsideOK
<1> QED
  BY <1>3, <1>4, <1>5

(* The current thread yields, whatever it waits for. *)
LEMMA YieldOK ==
  ASSUME Typed, NoNewLinks, ended' \in [Thread -> BOOLEAN],
         NEW t \in Thread, Running(t), Yield(t)
  PROVE  SchedulerOK'
<1>1. PICK g \in Garbage : sys' = Irq(ChkNt(Present(sys), g, t), byte, g)
  BY DEF Yield
<1> DEFINE P == Present(sys)
           S == ChkNt(P, g, t)
<1>2. sys \in Systems /\ ~ sys.wild
  BY RunningOn
<1>3. Advanced(sys, - sys.left, P)
  BY <1>2, PresentIs
<1>4. P \in Systems
  BY <1>3 DEF Advanced
<1>5. PICK nt : Watched(P, nt, S)
  BY <1>4, ChkNtIs
<1>6. S \in Systems /\ SameLists(sys, S)
  <2> HIDE DEF P, S
  <2> QED
    BY <1>3, <1>5 DEF Advanced, Watched, SameLists
<1> HIDE DEF S
<1> QED
  BY <1>1, <1>2, <1>6, PassageOK DEF S

(* A step of a thread that leaves the links and the calls to start and     *)
(* kill alone.                                                             *)
LEMMA QuietOK ==
  ASSUME Typed, NoNewLinks, ended' \in [Thread -> BOOLEAN], NEW t \in Thread, Running(t),
         sys' \in Systems, SameLists(sys, sys'), SameTurn(sys, sys')
  PROVE  SchedulerOK'
<1>1. LinksOK
  BY RunningOn
<1>2. LinksOK'
  BY <1>1, LinksKept DEF SameLists
<1> QED
  BY <1>2, OutsideOK

(* Steps of the library keep the types and the ring. *)
LEMMA LibraryOK ==
  ASSUME Typed, NEW t \in Thread, Library(t)
  PROVE  SchedulerOK'
<1>0. /\ pc \in [Thread -> Places] /\ arg \in [Thread -> Thread \cup Mutex \cup {None}]
      /\ cv \in [Thread -> Cond \cup {None}] /\ ended \in [Thread -> BOOLEAN]
      /\ sys \in Systems
  BY DEF Typed, Inv, ObjectsOK, SchedulerOK, Settled
<1>1. CASE JoinClearsWclk(t)
  <2>1. /\ Running(t) /\ sys' = [sys EXCEPT !.wclk[t] = FALSE]
        /\ pc' = [pc EXCEPT ![t] = "join2"] /\ UNCHANGED <<arg, ended>>
    BY <1>1 DEF JoinClearsWclk, At, Go
  <2>2. NoNewLinks
    BY <1>0, <2>1 DEF NoNewLinks
  <2>3. sys' \in Systems /\ SameLists(sys, sys') /\ SameTurn(sys, sys')
    BY <1>0, <2>1 DEF Systems, SameLists, SameTurn
  <2> QED
    BY <1>0, <2>1, <2>2, <2>3, QuietOK
<1>2. CASE JoinSetsWchan(t)
  <2>1. /\ Running(t) /\ sys' = [sys EXCEPT !.wchan[t] = arg[t]]
        /\ pc' = [pc EXCEPT ![t] = "yield"] /\ UNCHANGED <<arg, ended>>
    BY <1>2 DEF JoinSetsWchan, At, Go
  <2>2. NoNewLinks
    BY <1>0, <2>1 DEF NoNewLinks
  <2>3. arg[t] \in Channels
    BY <1>0 DEF Channels
  <2>4. sys' \in Systems /\ SameLists(sys, sys') /\ SameTurn(sys, sys')
    BY <1>0, <2>1, <2>3 DEF Systems, SameLists, SameTurn
  <2> QED
    BY <1>0, <2>1, <2>2, <2>4, QuietOK
<1>3. CASE WaitYields(t)
  <2> DEFINE next == CASE arg[t] \in Mutex -> "lock"
                       [] arg[t] \in Thread -> "joined"
                       [] OTHER -> "waited"
  <2>1. next \in {"lock", "joined", "waited"}
    OBVIOUS
  <2>2. /\ Running(t) /\ Yield(t)
        /\ pc' = [pc EXCEPT ![t] = next] /\ UNCHANGED <<arg, ended>>
    BY <1>3 DEF WaitYields, At, Go
  <2> HIDE DEF next
  <2>3. NoNewLinks
    BY <1>0, <2>1, <2>2 DEF NoNewLinks
  <2> QED
    BY <1>0, <2>2, <2>3, YieldOK
<1>4. CASE WaitReturns(t)
  <2>1. /\ Running(t) /\ UNCHANGED sys
        /\ pc' = [pc EXCEPT ![t] = "run"] /\ arg' = [arg EXCEPT ![t] = None]
        /\ ended' = [ended EXCEPT ![t] = FALSE]
    BY <1>4 DEF WaitReturns, Go
  <2>2. NoNewLinks /\ ended' \in [Thread -> BOOLEAN]
    BY <1>0, <2>1 DEF NoNewLinks
  <2> QED
    BY <2>1, <2>2, SameSys, QuietOK
<1>5. CASE LockTakes(t)
  <2>1. /\ Running(t) /\ UNCHANGED sys
        /\ pc' = [pc EXCEPT ![t] = IF cv[t] = None THEN "run" ELSE "rearm"]
        /\ arg' = [arg EXCEPT ![t] = None] /\ UNCHANGED ended
    BY <1>5 DEF LockTakes, At, Go
  <2>2. NoNewLinks
    BY <1>0, <2>1 DEF NoNewLinks
  <2> QED
    BY <1>0, <2>1, <2>2, SameSys, QuietOK
<1>6. CASE LockWaits(t)
  <2>1. /\ Running(t) /\ UNCHANGED sys
        /\ pc' = [pc EXCEPT ![t] = "join"] /\ UNCHANGED <<arg, ended>>
    BY <1>6 DEF LockWaits, At, Go
  <2>2. NoNewLinks
    BY <1>0, <2>1 DEF NoNewLinks
  <2> QED
    BY <1>0, <2>1, <2>2, SameSys, QuietOK
<1>7. CASE CondWaits(t)
  <2> DEFINE S(k) == [Present(sys) EXCEPT !.wclk[t] = k, !.wchan[t] = cv[t]]
             b == [byte EXCEPT ![arg[t]] = 0, ![cv[t]] = 1]
             timed == pc[t] = "timed"
  <2>1. /\ Running(t) /\ pc' = [pc EXCEPT ![t] = "lock"] /\ UNCHANGED <<arg, ended>>
        /\ \E g \in Garbage : sys' = Irq(ChkNt(S(timed), g, t), b, g)
    BY <1>7 DEF CondWaits, Go
  <2>2. PICK g \in Garbage : sys' = Irq(ChkNt(S(timed), g, t), b, g)
    BY <2>1
  <2>3. NoNewLinks
    BY <1>0, <2>1 DEF NoNewLinks
  <2>4. Advanced(sys, - sys.left, Present(sys))
    BY <1>0, PresentIs
  <2>5. timed \in BOOLEAN
    OBVIOUS
  <2>6. PICK P : P = Present(sys)
    OBVIOUS
  <2>7. P \in Systems /\ SameLists(sys, P)
    BY <2>4, <2>6 DEF Advanced
  <2>8. cv[t] \in Channels
    BY <1>0 DEF Channels
  <2> HIDE DEF timed, b
  <2>9. PICK C : C = [P EXCEPT !.wclk[t] = timed, !.wchan[t] = cv[t]]
    OBVIOUS
  <2>10. C \in Systems /\ SameLists(sys, C)
    BY <2>5, <2>7, <2>8, <2>9 DEF Systems, SameLists
  <2>11. PICK nt : Watched(C, nt, ChkNt(C, g, t))
    BY <2>10, ChkNtIs
  <2>12. PICK W : W = ChkNt(C, g, t)
    OBVIOUS
  <2>13. W \in Systems /\ SameLists(sys, W)
    BY <2>10, <2>11, <2>12 DEF Watched, SameLists
  <2>14. sys' = Irq(W, b, g)
    BY <2>2, <2>6, <2>9, <2>12
  <2>15. ~ sys.wild
    BY <2>1 DEF Running
  <2> QED
    BY <1>0, <2>1, <2>3, <2>13, <2>14, <2>15, PassageOK
<1>8. CASE CondRearms(t)
  <2>1. /\ Running(t) /\ UNCHANGED sys
        /\ pc' = [pc EXCEPT ![t] = "run"] /\ UNCHANGED <<arg, ended>>
    BY <1>8 DEF CondRearms, At, Go
  <2>2. NoNewLinks
    BY <1>0, <2>1 DEF NoNewLinks
  <2> QED
    BY <1>0, <2>1, <2>2, SameSys, QuietOK
<1>9. CASE WaitSetsWclk(t)
  <2>1. /\ Running(t) /\ sys' = [sys EXCEPT !.wclk[t] = TRUE]
        /\ pc' = [pc EXCEPT ![t] = "wait2"] /\ UNCHANGED <<arg, ended>>
    BY <1>9 DEF WaitSetsWclk, At, Go
  <2>2. NoNewLinks
    BY <1>0, <2>1 DEF NoNewLinks
  <2>3. sys' \in Systems /\ SameLists(sys, sys') /\ SameTurn(sys, sys')
    BY <1>0, <2>1 DEF Systems, SameLists, SameTurn
  <2> QED
    BY <1>0, <2>1, <2>2, <2>3, QuietOK
<1>10. CASE WaitSetsWchan(t)
  <2>1. /\ Running(t) /\ sys' = [sys EXCEPT !.wchan[t] = Ones]
        /\ pc' = [pc EXCEPT ![t] = "yield"] /\ UNCHANGED <<arg, ended>>
    BY <1>10 DEF WaitSetsWchan, At, Go
  <2>2. NoNewLinks
    BY <1>0, <2>1 DEF NoNewLinks
  <2>3. sys' \in Systems /\ SameLists(sys, sys') /\ SameTurn(sys, sys')
    BY <1>0, <2>1 DEF Systems, Channels, SameLists, SameTurn
  <2> QED
    BY <1>0, <2>1, <2>2, <2>3, QuietOK
<1>11. CASE StartLinks(t)
  <2>1. /\ Running(t) /\ pc[t] = "start"
        /\ pc' = [pc EXCEPT ![t] = "run"] /\ arg' = [arg EXCEPT ![t] = None]
        /\ UNCHANGED ended
    BY <1>11 DEF StartLinks, At, Go
  <2>2. PICK P : P = Present(sys)
    OBVIOUS
  <2>3. Advanced(sys, - sys.left, P)
    BY <1>0, <2>2, PresentIs
  <2>4. P \in Systems /\ SameLists(sys, P)
    BY <2>3 DEF Advanced
  <2>5. PICK nx : nx = [P.next EXCEPT ![arg[t]] = P.next[t], ![t] = arg[t]]
    OBVIOUS
  <2>6. PICK S : S = [P EXCEPT !.next = nx]
    OBVIOUS
  <2>7. PICK g \in Garbage : sys' = Irq(S, byte, g)
    BY <1>11, <2>2, <2>5, <2>6 DEF StartLinks, Sched
  <2>8. /\ ~ sys.wild /\ Ringed(sys.next) /\ t \in On(sys.next) /\ LinksOK
    BY <2>1, RunningOn
  <2>9. arg[t] \in Thread \ On(sys.next) /\ P.next = sys.next /\ Links(sys.next)
    BY <1>0, <2>1, <2>4, <2>8 DEF LinksOK, SameLists, Systems, Links
  <2>10. PICK a : a = arg[t]
    OBVIOUS
  <2>11. nx = [sys.next EXCEPT ![a] = sys.next[t], ![t] = a]
    BY <2>5, <2>9, <2>10
  <2>12. Links(nx) /\ Ringed(nx) /\ On(nx) = On(sys.next) \cup {a}
    BY <2>8, <2>9, <2>10, <2>11, RingStarts
  <2>13. S \in Systems /\ S.next = nx /\ ~ S.wild
    BY <2>4, <2>6, <2>8, <2>12 DEF Systems, Links, SameLists
  <2>14. Entering(S) /\ g \in Int
    BY <2>12, <2>13, GarbageInt DEF Entering
  <2>15. PICK R : R = sys'
    OBVIOUS
  <2>16. Irqed(S, byte, g, R)
    BY <2>7, <2>14, <2>15, IrqIs DEF Entering
  <2>17. Settled(R) /\ (R.wild \/ R.next = S.next)
    BY <2>14, <2>16, IrqSettles
  <2>18. ASSUME R.next = nx
         PROVE  LinksOK'
    <3>1. \A v \in Thread \ {t} : pc[v] = "start" => arg[v] # a
      BY <2>1, <2>8, <2>10 DEF LinksOK
    <3>2. \A v \in Thread : /\ v # t => pc'[v] = pc[v] /\ arg'[v] = arg[v]
                            /\ v = t => pc'[v] = "run"
      BY <1>0, <2>1
    <3>3. On(sys'.next) = On(sys.next) \cup {a}
      BY <2>12, <2>15, <2>18
    <3> QED
      BY <2>8, <3>1, <3>2, <3>3 DEF LinksOK
  <2> QED
    BY <1>0, <2>1, <2>13, <2>15, <2>17, <2>18 DEF SchedulerOK
<1>12. CASE KillUnlinks(t)
  <2>1. /\ Running(t) /\ pc[t] = "kill"
        /\ pc' = [pc EXCEPT ![t] = "run"] /\ arg' = [arg EXCEPT ![t] = None]
        /\ ended' = [u \in Thread |-> ended[u] \/ arg[u] = arg[t]]
    BY <1>12 DEF KillUnlinks, At, Go
  <2>2. PICK P : P = Present(sys)
    OBVIOUS
  <2>3. Advanced(sys, - sys.left, P)
    BY <1>0, <2>2, PresentIs
  <2>4. P \in Systems /\ SameLists(sys, P)
    BY <2>3 DEF Advanced
  <2>5. PICK u : u = arg[t]
    OBVIOUS
  <2>6. PICK S : S = Killed(P, t, u)
    OBVIOUS
  <2>7. PICK g \in Garbage : sys' = Irq(S, byte, g)
    BY <1>12, <2>2, <2>5, <2>6 DEF KillUnlinks, Sched
  <2>8. /\ ~ sys.wild /\ Ringed(sys.next) /\ t \in On(sys.next) /\ LinksOK
    BY <2>1, RunningOn
  <2>9. u \in Thread \ {Main} /\ P.next = sys.next /\ ~ P.wild
    BY <2>1, <2>4, <2>5, <2>8 DEF LinksOK, SameLists
  <2>10. Unlinks(P, t, u, S)
    BY <2>4, <2>6, <2>8, <2>9, KilledIs
  <2>11. /\ S \in Systems
         /\ S.wild \/ (Ringed(S.next) /\ On(S.next) \subseteq On(sys.next))
    <3>1. CASE u \notin On(P.next) /\ S = P
      BY <2>4, <2>8, <2>9, <3>1
    <3>2. CASE /\ u \in On(P.next)
               /\ \E K : /\ Unlinked(P, u, K)
                         /\ \/ P.nt # u /\ S = K
                            \/ P.nt = u /\ t \notin On(K.next) /\ S \in Systems /\ S.wild
                            \/ P.nt = u /\ t \in On(K.next) /\ Fixed(K, S)
      <4>1. PICK K : /\ Unlinked(P, u, K)
                     /\ \/ P.nt # u /\ S = K
                        \/ P.nt = u /\ t \notin On(K.next) /\ S \in Systems /\ S.wild
                        \/ P.nt = u /\ t \in On(K.next) /\ Fixed(K, S)
        BY <3>2
      <4>2. K.next = Without(sys.next, u) /\ K \in Systems
        BY <2>9, <4>1 DEF Unlinked
      <4>3. PICK nx : nx = K.next
        OBVIOUS
      <4>4. Ringed(nx) /\ On(nx) = On(sys.next) \ {u}
        <5>1. Links(sys.next)
          BY <1>0 DEF Systems, Links
        <5> QED
          BY <2>8, <2>9, <3>2, <4>2, <4>3, <5>1, RingKills
      <4>5. CASE Fixed(K, S)
        <5>1. S \in Systems /\ S.next = nx
          BY <4>3, <4>5 DEF Fixed, Watched, SameLists
        <5> QED
          BY <4>4, <5>1
      <4>6. CASE S = K
        BY <4>2, <4>3, <4>4, <4>6
      <4> QED
        BY <4>1, <4>5, <4>6
    <3> QED
      BY <2>10, <3>1, <3>2 DEF Unlinks
  <2>12. Entering(S) /\ g \in Int
    BY <2>11, GarbageInt DEF Entering
  <2>13. PICK R : R = sys'
    OBVIOUS
  <2>14. Irqed(S, byte, g, R)
    BY <2>7, <2>12, <2>13, IrqIs DEF Entering
  <2>15. Settled(R) /\ (R.wild \/ R.next = S.next)
    BY <2>12, <2>14, IrqSettles
  <2>16. ended' \in [Thread -> BOOLEAN]
    BY <1>0, <2>1
  <2>17. ASSUME ~ R.wild
         PROVE  LinksOK'
    <3>1. ~ S.wild
      BY <2>14, <2>17 DEF Irqed
    <3>2. On(sys'.next) \subseteq On(sys.next)
      BY <2>11, <2>13, <2>15, <2>17, <3>1
    <3>3. NoNewLinks
      BY <1>0, <2>1 DEF NoNewLinks
    <3> QED
      BY <2>8, <3>2, <3>3, LinksKept
  <2> QED
    BY <2>13, <2>15, <2>16, <2>17 DEF SchedulerOK
<1> QED
  BY <1>1, <1>2, <1>3, <1>4, <1>5, <1>6, <1>7, <1>8, <1>9, <1>10, <1>11, <1>12
  DEF Library

(* Calls keep the types and the ring. *)
LEMMA ProgramOK ==
  ASSUME Typed, NEW t \in Thread, Program(t)
  PROVE  SchedulerOK'
<1>0. /\ pc \in [Thread -> Places] /\ arg \in [Thread -> Thread \cup Mutex \cup {None}]
      /\ ended \in [Thread -> BOOLEAN] /\ sys \in Systems
  BY DEF Typed, Inv, ObjectsOK, SchedulerOK, Settled
<1>1. CASE CallYield(t)
  <2>1. Running(t) /\ Yield(t) /\ UNCHANGED <<pc, arg, ended>>
    BY <1>1 DEF CallYield, Call, At
  <2>2. NoNewLinks
    BY <2>1 DEF NoNewLinks
  <2> QED
    BY <1>0, <2>1, <2>2, YieldOK
<1>2. CASE StackReused(t)
  <2>1. Running(t) /\ UNCHANGED <<pc, arg, ended>>
    BY <1>2 DEF StackReused, At
  <2>2. PICK d \in Garbage : sys' = [sys EXCEPT !.due[t] = d]
    BY <1>2 DEF StackReused
  <2>3. d \in Deadlines
    BY Numbers DEF Garbage, Deadlines
  <2>4. sys' \in Systems /\ SameLists(sys, sys') /\ SameTurn(sys, sys')
    BY <1>0, <2>2, <2>3 DEF Systems, SameLists, SameTurn
  <2>5. NoNewLinks
    BY <2>1 DEF NoNewLinks
  <2> QED
    BY <1>0, <2>1, <2>4, <2>5, QuietOK
<1>3. ASSUME NEW u \in Thread, CallJoin(t, u)
      PROVE  SchedulerOK'
  <2>1. /\ Running(t) /\ UNCHANGED sys
        /\ pc' = [pc EXCEPT ![t] = "join"] /\ arg' = [arg EXCEPT ![t] = u]
        /\ ended' = [ended EXCEPT ![t] = sys.next[u] = None]
    BY <1>3 DEF CallJoin, Call, At, Go
  <2>2. NoNewLinks
    BY <1>0, <2>1 DEF NoNewLinks
  <2>3. ended' \in [Thread -> BOOLEAN]
    <3>1. (sys.next[u] = None) \in BOOLEAN
      OBVIOUS
    <3> QED
      BY <1>0, <2>1, <3>1
  <2> QED
    BY <2>1, <2>2, <2>3, SameSys, QuietOK
<1>4. ASSUME NEW u \in Thread, CallStart(t, u)
      PROVE  SchedulerOK'
  <2>1. /\ Running(t) /\ pc[t] = "run" /\ sys.next[u] = None
        /\ \A v \in Thread : pc[v] = "start" => arg[v] # u
        /\ sys' = [sys EXCEPT !.wchan[u] = None, !.wclk[u] = FALSE]
        /\ pc' = [pc EXCEPT ![t] = "start", ![u] = "run"]
        /\ arg' = [arg EXCEPT ![t] = u, ![u] = None]
        /\ UNCHANGED ended
    BY <1>4 DEF CallStart, Call, At
  <2>2. /\ sys' \in Systems /\ SameLists(sys, sys') /\ SameTurn(sys, sys')
    BY <1>0, <2>1 DEF Systems, Channels, SameLists, SameTurn
  <2>3. LinksOK /\ t \in On(sys.next) /\ u \in Thread \ On(sys.next) /\ t # u
    BY <2>1, RunningOn DEF On
  <2>4. \A v \in Thread : /\ v = t => pc'[v] = "start" /\ arg'[v] = u
                          /\ v = u => pc'[v] = "run"
                          /\ v # t /\ v # u => pc'[v] = pc[v] /\ arg'[v] = arg[v]
    BY <1>0, <2>1, <2>3
  <2>5. sys'.next = sys.next
    BY <2>2 DEF SameLists
  <2>6. LinksOK'
    <3> SUFFICES ASSUME NEW v \in Thread
                 PROVE  /\ pc'[v] = "kill" => arg'[v] \in Thread \ {Main}
                        /\ pc'[v] = "start" =>
                             /\ arg'[v] \in Thread \ On(sys'.next)
                             /\ \A w \in Thread \ {v} : pc'[w] = "start" => arg'[w] # arg'[v]
      BY DEF LinksOK
    <3>0. On(sys'.next) = On(sys.next)
      BY <2>5
    <3>1. CASE v = t
      <4>1. pc'[v] = "start" /\ arg'[v] = u
        BY <2>4, <3>1
      <4>2. ASSUME NEW w \in Thread \ {t}, pc'[w] = "start"
            PROVE  arg'[w] # u
        <5>1. w # u
          BY <2>4, <4>2
        <5>2. pc[w] = "start" /\ arg'[w] = arg[w]
          BY <2>4, <4>2, <5>1
        <5> QED
          BY <2>1, <5>2
      <4> QED
        BY <2>3, <3>0, <3>1, <4>1, <4>2
    <3>2. CASE v = u
      BY <2>4, <3>2
    <3>3. CASE v # t /\ v # u
      <4>1. pc'[v] = pc[v] /\ arg'[v] = arg[v]
        BY <2>4, <3>3
      <4>2. pc[v] = "start" => arg[v] \in Thread \ On(sys.next) /\ arg[v] # u
        BY <2>1, <2>3 DEF LinksOK
      <4>3. pc[v] = "kill" => arg[v] \in Thread \ {Main}
        BY <2>3 DEF LinksOK
      <4>4. ASSUME pc[v] = "start", NEW w \in Thread \ {v}, pc'[w] = "start"
            PROVE  arg'[w] # arg[v]
        <5>1. w # u
          BY <2>4, <4>4
        <5>2. CASE w = t
          BY <2>4, <4>2, <4>4, <5>2
        <5>3. CASE w # t
          <6>1. pc[w] = "start" /\ arg'[w] = arg[w]
            BY <2>4, <4>4, <5>1, <5>3
          <6> QED
            BY <2>3, <4>4, <6>1 DEF LinksOK
        <5> QED
          BY <5>2, <5>3
      <4> QED
        BY <3>0, <4>1, <4>2, <4>3, <4>4
    <3> QED
      BY <3>1, <3>2, <3>3
  <2> QED
    BY <1>0, <2>1, <2>2, <2>6, OutsideOK
<1>5. ASSUME NEW u \in Thread, CallKill(t, u)
      PROVE  SchedulerOK'
  <2>1. /\ Running(t) /\ u # Main /\ pc[t] = "run" /\ UNCHANGED <<sys, ended>>
        /\ pc' = [pc EXCEPT ![t] = "kill"] /\ arg' = [arg EXCEPT ![t] = u]
    BY <1>5 DEF CallKill, Call, At, Go
  <2>2. \A v \in Thread : /\ v = t => pc'[v] = "kill" /\ arg'[v] = u
                          /\ v # t => pc'[v] = pc[v] /\ arg'[v] = arg[v]
    BY <1>0, <2>1
  <2>3. LinksOK
    BY <2>1, RunningOn
  <2>4. LinksOK'
    BY <2>1, <2>2, <2>3 DEF LinksOK
  <2> QED
    BY <1>0, <2>1, <2>4, SameSys, OutsideOK
<1>6. ASSUME NEW m \in Mutex, CallLock(t, m)
      PROVE  SchedulerOK'
  <2>1. /\ Running(t) /\ UNCHANGED <<sys, ended>>
        /\ pc' = [pc EXCEPT ![t] = "lock"] /\ arg' = [arg EXCEPT ![t] = m]
    BY <1>6 DEF CallLock, Call, At, Go
  <2>2. NoNewLinks
    BY <1>0, <2>1 DEF NoNewLinks
  <2> QED
    BY <1>0, <2>1, <2>2, SameSys, QuietOK
<1>7. ASSUME NEW m \in Mutex, CallTryLock(t, m) \/ CallUnlock(t, m)
      PROVE  SchedulerOK'
  <2>1. Running(t) /\ UNCHANGED <<sys, pc, arg, ended>>
    BY <1>7 DEF CallTryLock, CallUnlock, Call, At
  <2>2. NoNewLinks
    BY <2>1 DEF NoNewLinks
  <2> QED
    BY <1>0, <2>1, <2>2, SameSys, QuietOK
<1>8. ASSUME NEW c \in Cond, CallSignal(t, c)
      PROVE  SchedulerOK'
  <2>1. Running(t) /\ UNCHANGED <<sys, pc, arg, ended>>
    BY <1>8 DEF CallSignal, Call, At
  <2>2. NoNewLinks
    BY <2>1 DEF NoNewLinks
  <2> QED
    BY <1>0, <2>1, <2>2, SameSys, QuietOK
<1>9. ASSUME NEW c \in Cond, NEW m \in Mutex, CallCondWait(t, c, m)
      PROVE  SchedulerOK'
  <2>1. /\ Running(t) /\ UNCHANGED <<sys, ended>>
        /\ pc' = [pc EXCEPT ![t] = "cond"] /\ arg' = [arg EXCEPT ![t] = m]
    BY <1>9 DEF CallCondWait, Call, At, Go
  <2>2. NoNewLinks
    BY <1>0, <2>1 DEF NoNewLinks
  <2> QED
    BY <1>0, <2>1, <2>2, SameSys, QuietOK
<1>10. ASSUME NEW d \in Delays,
              CallWait(t, d) \/ \E c \in Cond, m \in Mutex : CallCondTimedWait(t, c, m, d)
       PROVE  SchedulerOK'
  <2>1. /\ Running(t) /\ sys' = [sys EXCEPT !.due[t] = d - sys.left] /\ UNCHANGED ended
    BY <1>10 DEF CallWait, CallCondTimedWait, Call, At
  <2>2. NoNewLinks
    <3>1. CASE CallWait(t, d)
      BY <1>0, <3>1 DEF CallWait, Go, NoNewLinks
    <3>2. ASSUME NEW c \in Cond, NEW m \in Mutex, CallCondTimedWait(t, c, m, d)
          PROVE  NoNewLinks
      BY <1>0, <3>2 DEF CallCondTimedWait, Go, NoNewLinks
    <3> QED
      BY <1>10, <3>1, <3>2
  <2>3. d - sys.left \in Deadlines
    <3>1. d \in Nat
      BY ThreadsAssumption
    <3>2. sys.left \in 1 .. Wrap
      BY <1>0 DEF Systems
    <3> QED
      BY <3>1, <3>2, Numbers DEF Deadlines
  <2>4. sys' \in Systems /\ SameLists(sys, sys') /\ SameTurn(sys, sys')
    BY <1>0, <2>1, <2>3 DEF Systems, SameLists, SameTurn
  <2> QED
    BY <1>0, <2>1, <2>2, <2>4, QuietOK
<1> QED
  BY <1>1, <1>2, <1>3, <1>4, <1>5, <1>6, <1>7, <1>8, <1>9, <1>10 DEF Program

(* At the start the ring is the main thread. *)
LEMMA TypedInit == Init => Typed
<1> SUFFICES ASSUME Init PROVE Typed
  OBVIOUS
<1>1. Inv
  BY InvInit
<1>2. /\ sys.next = [t \in Thread |-> IF t = Main THEN Main ELSE None]
      /\ sys.ct = Main /\ sys \in Systems
  <2>1. MaxSlice \in 1 .. Wrap /\ Past \in Deadlines
    BY Numbers DEF Deadlines
  <2> QED
    BY <2>1, Apart DEF Init, Systems, Channels
<1>3. On(sys.next) = {Main}
  BY <1>2, Apart DEF On
<1>4. Ringed(sys.next)
  <2> DEFINE h == [t \in Thread |-> 0]
  <2>1. Heights({Main}, Main, h) /\ Ring({Main}, Main, h, sys.next, sys.next)
    BY <1>2, Apart DEF Heights, Ring
  <2>2. Linked(sys.next, h, sys.next)
    BY <1>3, <2>1 DEF Linked
  <2> HIDE DEF h
  <2> QED
    BY <2>2 DEF Ringed
<1>5. Settled(sys)
  BY <1>2, <1>3, <1>4 DEF Settled
<1>6. \A t \in Thread : pc[t] \notin {"start", "kill"}
  BY DEF Init
<1>7. LinksOK
  BY <1>6 DEF LinksOK
<1>8. ended \in [Thread -> BOOLEAN]
  BY DEF Init
<1> QED
  BY <1>1, <1>5, <1>7, <1>8 DEF Typed, SchedulerOK

(* Every step keeps the types and the ring. *)
LEMMA TypedNext == Typed /\ [Next]_vars => Typed'
<1> SUFFICES ASSUME Typed, [Next]_vars PROVE Typed'
  OBVIOUS
<1>1. Inv'
  BY InvNext DEF Typed
<1>2. CASE Tick
  BY <1>1, <1>2, TickOK DEF Typed
<1>3. ASSUME NEW t \in Thread, Library(t)
      PROVE  Typed'
  BY <1>1, <1>3, LibraryOK DEF Typed
<1>4. ASSUME NEW t \in Thread, Program(t)
      PROVE  Typed'
  BY <1>1, <1>4, ProgramOK DEF Typed
<1>5. CASE UNCHANGED vars
  BY <1>1, <1>5 DEF vars, Typed, SchedulerOK, Settled, LinksOK
<1> QED
  BY <1>2, <1>3, <1>4, <1>5 DEF Next

(* The types and the ring last, for all programs. *)
LEMMA TypedAlways == Spec => []Typed
<1>1. Init => Typed
  BY TypedInit
<1>2. Typed /\ [Next]_vars => Typed'
  BY TypedNext
<1> QED
  BY <1>1, <1>2, PTL DEF Spec

(* Every variable of the scheduler and of the library keeps its type, for  *)
(* all programs: in particular the scheduler always resumes a thread.      *)
THEOREM SchedulerTyped == Spec => []TypeOK
<1>1. Typed => TypeOK
  BY DEF Typed, Inv, ObjectsOK, SchedulerOK, Settled, Systems, Deadlines, TypeOK
<1> QED
  BY <1>1, TypedAlways, PTL

(* The started threads are on one circular list through the main thread,   *)
(* for all programs, until one makes the scheduler follow a dead thread.   *)
THEOREM RingKept == Spec => []OneRing
<1>1. Typed => OneRing
  BY RingIsOne DEF Typed, SchedulerOK, Settled
<1> QED
  BY <1>1, TypedAlways, PTL

-----------------------------------------------------------------------------
(* Programs that do not call gt_cond_timedwait.  S, p, a and e stand for   *)
(* sys, pc, arg and ended, before or after a step.                         *)

(* t is in gt_wait, after it set wchan. *)
InWait(p, a, t) == p[t] = "waited" \/ (p[t] = "yield" /\ a[t] = None)

(* Who is watched waits for a deadline, on the list. *)
WatchOK(S) ==
  S.nt # None => S.nt \in On(S.next) /\ S.wclk[S.nt] /\ S.wchan[S.nt] = Ones

(* What the places of a thread say of the byte and the deadline it waits   *)
(* for: ...                                                                *)
RestOK(S, p, a, t) ==
  /\ S.wclk[t] /\ S.wchan[t] # None => S.wchan[t] = Ones
  /\ p[t] \notin {"yield", "joined", "waited", "lock"} => S.wchan[t] = None
  /\ p[t] = "join2" => ~ S.wclk[t]
  /\ p[t] = "wait2" => S.wclk[t]
  /\ p[t] \in {"yield", "waited"} /\ S.wchan[t] = Ones => S.wclk[t]
  /\ InWait(p, a, t) => S.wchan[t] \in {None, Ones}
  /\ S.wchan[t] = Ones => InWait(p, a, t)

(* ... a thread that joins has its thread ended, or still waits for it; ... *)
JoinOK(S, p, a, e, t) ==
  /\ p[t] \in {"join", "join2", "yield", "joined"} /\ a[t] \in Thread \ On(S.next) => e[t]
  /\ p[t] \in {"yield", "joined"} /\ a[t] \in Thread =>
       S.wchan[t] = a[t] \/ (S.wchan[t] = None /\ e[t])

(* ... and one that waits for a deadline does not wait for less than the   *)
(* scheduler does.                                                         *)
WaitOK(S, p, t) ==
  t \in On(S.next) /\ p[t] = "waited" /\ S.wchan[t] = Ones =>
    S.nt # None /\ S.due[S.nt] <= S.due[t]

Calm(S, p, a, e) ==
  /\ WatchOK(S)
  /\ \A t \in Thread : RestOK(S, p, a, t) /\ JoinOK(S, p, a, e, t) /\ WaitOK(S, p, t)

(* The deadline of a thread that gt_wait wakes up is past, at _gt_clk or,  *)
(* between two passages through the scheduler, at the present.             *)
Over(S, p, a, t) ==
  ~ S.late /\ t \in On(S.next) /\ InWait(p, a, t) /\ S.wchan[t] = None => S.due[t] <= 0
OverNow(S, p, a, t) ==
  ~ S.late /\ t \in On(S.next) /\ InWait(p, a, t) /\ S.wchan[t] = None =>
    ~ S.idle /\ S.due[t] + S.left <= 0

(* The current thread waits for nothing; nobody can run when none does.    *)
AwakeOK(S, p) == ~ S.idle /\ p[S.ct] # "yield" => S.wchan[S.ct] = None
AsleepOK(S) == S.idle => \A t \in On(S.next) : S.wchan[t] # None

Before(S, p, a, e) ==
  /\ S \in Systems /\ ~ S.wild /\ Ringed(S.next)
  /\ Calm(S, p, a, e) /\ \A t \in Thread : Over(S, p, a, t)

Beyond(S, p, a, e) ==
  /\ ~ S.wild /\ Calm(S, p, a, e) /\ \A t \in Thread : OverNow(S, p, a, t)
  /\ AwakeOK(S, p) /\ AsleepOK(S)

(* A deadline that is past stays so during the slice that follows. *)
LEMMA PastStays ==
  ASSUME NEW d \in [Thread -> Deadlines], NEW n \in Int, 0 < n, n <= MaxSlice,
         NEW t \in Thread, d[t] <= 0
  PROVE  Shifted(d, n)[t] + n <= 0
<1>1. d[t] \in Int /\ d[t] >= Past
  BY DEF Deadlines
<1>2. Shifted(d, n)[t] = IF d[t] = Past \/ d[t] - n < Past THEN Past ELSE d[t] - n
  BY DEF Shifted
<1>3. Past + n <= 0
  BY Numbers
<1>4. CASE Shifted(d, n)[t] = Past
  BY <1>3, <1>4
<1>5. CASE Shifted(d, n)[t] = d[t] - n
  BY <1>1, <1>5
<1> QED
  BY <1>2, <1>4, <1>5

(* Nobody resumes a thread that waits for the clock. *)
LEMMA OnesBlock ==
  ASSUME NEW S, NEW b, NEW t, S.wchan[t] = Ones
  PROVE  Blocked(S, b, t)
BY Apart DEF Blocked, Busy

(* A passage that finds nobody to run. *)
LEMMA IdledCalm ==
  ASSUME NEW S, NEW p, NEW a, NEW e, Before(S, p, a, e), NEW b, NEW R, Idled(S, b, R)
  PROVE  Beyond(R, p, a, e)
<1>1. /\ R.next = S.next /\ R.wild = S.wild /\ R.wchan = S.wchan /\ R.wclk = S.wclk
      /\ R.due = S.due /\ R.nt = S.nt /\ R.idle
  BY DEF Idled, SameLists, SameWaits
<1>2. \A t \in On(R.next) : R.wchan[t] # None
  BY <1>1 DEF Idled, Blocked
<1>3. WatchOK(R)
  BY <1>1 DEF Before, Calm, WatchOK
<1>4. ASSUME NEW t \in Thread
      PROVE  RestOK(R, p, a, t) /\ JoinOK(R, p, a, e, t) /\ WaitOK(R, p, t)
  <2>1. RestOK(S, p, a, t) /\ JoinOK(S, p, a, e, t) /\ WaitOK(S, p, t)
    BY DEF Before, Calm
  <2>2. On(R.next) = On(S.next)
    BY <1>1
  <2> QED
    BY <1>1, <2>1, <2>2 DEF RestOK, JoinOK, WaitOK
<1>5. \A t \in Thread : OverNow(R, p, a, t)
  BY <1>2 DEF OverNow
<1>6. ~ R.wild
  BY <1>1 DEF Before
<1> QED
  BY <1>1, <1>2, <1>3, <1>4, <1>5, <1>6 DEF Beyond, Calm, AwakeOK, AsleepOK

(* A passage that resumes a thread. *)
LEMMA ResumedCalm ==
  ASSUME NEW S, NEW p, NEW a, NEW e, Before(S, p, a, e), NEW b, NEW g \in Int,
         NonePast(S, g), NEW R, Resumed(S, b, g, R)
  PROVE  Beyond(R, p, a, e)
<1>1. PICK u \in On(S.next) : ~ Blocked(S, b, u) /\ Switched(S, Slice(S, g), u, R)
  BY DEF Resumed
<1>2. PICK n : n = Slice(S, g)
  OBVIOUS
<1>3. S \in Systems /\ u \in Thread
  BY DEF Before, On
<1>4. n \in Int /\ 0 < n /\ n <= MaxSlice
  BY <1>2, <1>3, SliceIs
<1>5. /\ R \in Systems /\ R.next = S.next /\ R.wild = S.wild /\ R.wclk = S.wclk
      /\ R.nt = S.nt /\ R.ct = u /\ ~ R.idle /\ R.due = Shifted(S.due, n)
      /\ R.left = n /\ R.late = (S.late \/ n = 0)
  BY <1>1, <1>2, <1>4 DEF Switched, SameLists
<1>6. \A t \in Thread : R.wchan[t] = IF t = u THEN None ELSE S.wchan[t]
  BY <1>1, <1>3 DEF Switched, Systems
<1>7. S.wchan[u] # Ones
  BY <1>1, OnesBlock
<1>8. S.due \in [Thread -> Deadlines]
  BY <1>3 DEF Systems
<1>9. WatchOK(R)
  <2>1. WatchOK(S)
    BY DEF Before, Calm
  <2>2. S.nt # None => S.nt \in Thread
    BY <1>3 DEF Systems
  <2> QED
    BY <1>5, <1>6, <1>7, <2>1, <2>2 DEF WatchOK
<1>10. On(R.next) = On(S.next)
  BY <1>5
<1>11. ASSUME NEW t \in Thread
       PROVE  /\ RestOK(R, p, a, t) /\ JoinOK(R, p, a, e, t) /\ WaitOK(R, p, t)
              /\ OverNow(R, p, a, t)
  <2>1. /\ RestOK(S, p, a, t) /\ JoinOK(S, p, a, e, t) /\ WaitOK(S, p, t)
        /\ Over(S, p, a, t)
    BY DEF Before, Calm
  <2>2. R.wchan[t] = None \/ (t # u /\ R.wchan[t] = S.wchan[t])
    BY <1>6
  <2>3. RestOK(R, p, a, t)
    BY <1>5, <2>1, <2>2, Apart DEF RestOK
  <2>4. JoinOK(R, p, a, e, t)
    <3>1. CASE t # u
      BY <1>5, <1>6, <1>10, <2>1, <3>1 DEF JoinOK
    <3>2. CASE t = u
      <4>1. p[t] \in {"yield", "joined"} /\ S.wchan[t] = a[t] /\ a[t] \in Thread => e[t]
        <5> SUFFICES ASSUME p[t] \in {"yield", "joined"}, S.wchan[t] = a[t], a[t] \in Thread
                     PROVE  e[t]
          OBVIOUS
        <5>1. S.next[a[t]] = None
          BY <1>1, <3>2, Apart DEF Blocked, Busy
        <5>2. a[t] \in Thread \ On(S.next)
          BY <5>1 DEF On
        <5> QED
          BY <2>1, <5>2 DEF JoinOK
      <4>2. R.wchan[t] = None
        BY <1>6, <3>2
      <4> QED
        BY <1>10, <2>1, <4>1, <4>2 DEF JoinOK
    <3> QED
      BY <3>1, <3>2
  <2>5. WaitOK(R, p, t)
    <3> SUFFICES ASSUME t \in On(R.next), p[t] = "waited", R.wchan[t] = Ones
                 PROVE  R.nt # None /\ R.due[R.nt] <= R.due[t]
      BY DEF WaitOK
    <3>1. S.nt # None /\ S.due[S.nt] <= S.due[t]
      BY <1>10, <2>1, <2>2, Apart DEF WaitOK
    <3>2. S.nt \in Thread
      BY <1>3, <3>1 DEF Systems
    <3> QED
      BY <1>4, <1>5, <1>8, <3>1, <3>2, ShiftedOrder
  <2>6. OverNow(R, p, a, t)
    <3> SUFFICES ASSUME ~ R.late, t \in On(R.next), InWait(p, a, t), R.wchan[t] = None
                 PROVE  ~ R.idle /\ R.due[t] + R.left <= 0
      BY DEF OverNow
    <3>1. S.wchan[t] = None
      BY <1>6, <1>7, <2>1 DEF RestOK
    <3>2. S.due[t] <= 0
      BY <1>5, <1>10, <2>1, <3>1 DEF Over
    <3>3. Shifted(S.due, n)[t] + n <= 0
      BY <1>4, <1>8, <3>2, PastStays
    <3> QED
      BY <1>5, <3>3
  <2> QED
    BY <2>3, <2>4, <2>5, <2>6
<1>12. AwakeOK(R, p) /\ AsleepOK(R) /\ ~ R.wild
  <2>1. R.wchan[u] = None /\ ~ S.wild
    BY <1>3, <1>6 DEF Before
  <2> QED
    BY <1>5, <2>1 DEF AwakeOK, AsleepOK
<1> QED
  BY <1>9, <1>11, <1>12 DEF Beyond, Calm

(* A passage that ends the wait of the thread that is watched. *)
LEMMA TimedOutCalm ==
  ASSUME NEW S, NEW p, NEW a, NEW e, Before(S, p, a, e), NEW g \in Int,
         NEW R, TimedOut(S, g, R)
  PROVE  Beyond(R, p, a, e)
<1> DEFINE w == S.nt
<1>1. w \in Thread /\ w # None /\ S.due[w] <= 0 /\ Deadline(S, g, w) <= 0
  <2>1. w \in Thread /\ w # None /\ Deadline(S, g, w) <= 0
    BY Apart DEF TimedOut
  <2>2. S.wclk[w]
    BY <2>1 DEF Before, Calm, WatchOK
  <2> QED
    BY <2>1, <2>2 DEF Deadline
<1>2. w \in On(S.next) /\ S.wclk[w] /\ S.wchan[w] = Ones /\ S \in Systems
  BY <1>1 DEF Before, Calm, WatchOK
<1>3. PICK C, F : Cleared(S, w, C) /\ Fixed(C, F) /\ Switched(F, Slice(F, g), w, R)
  BY <1>2 DEF TimedOut
<1> HIDE DEF w
<1>4. PICK nt : Earliest(C, nt) /\ Watched(C, nt, F)
  BY <1>3 DEF Fixed
<1>5. PICK n : n = Slice(F, g)
  OBVIOUS
<1>6. /\ C.next = S.next /\ C.wild = S.wild /\ C.wchan = S.wchan /\ C.due = S.due
      /\ C.late = S.late /\ C \in Systems
      /\ \A t \in Thread : C.wclk[t] = IF t = w THEN FALSE ELSE S.wclk[t]
  BY <1>1, <1>2, <1>3 DEF Cleared, SameLists, SameTurn, Systems
<1>7. /\ F.next = S.next /\ F.wild = S.wild /\ F.wchan = S.wchan /\ F.due = S.due
      /\ F.late = S.late /\ F \in Systems /\ F.nt = nt /\ F.wclk = C.wclk
  BY <1>4, <1>6 DEF Watched, SameLists, SameWaits, SameTurn
<1>8. n \in Int /\ 0 <= n /\ n <= MaxSlice
  BY <1>5, <1>7, SliceIs
<1>9. /\ R \in Systems /\ R.next = S.next /\ R.wild = S.wild /\ R.wclk = C.wclk
      /\ R.nt = nt /\ R.ct = w /\ ~ R.idle /\ R.due = Shifted(S.due, n)
      /\ R.left = (IF n = 0 THEN Wrap ELSE n) /\ R.late = (S.late \/ n = 0)
  BY <1>3, <1>5, <1>7 DEF Switched, SameLists
<1>10. \A t \in Thread : R.wchan[t] = IF t = w THEN None ELSE S.wchan[t]
  BY <1>1, <1>2, <1>3, <1>7 DEF Switched, Systems
<1>11. S.due \in [Thread -> Deadlines]
  BY <1>2 DEF Systems
<1>12. On(R.next) = On(S.next) /\ On(C.next) = On(S.next)
  BY <1>6, <1>9
<1>13. \A t \in Timed(C) : /\ t \in On(S.next) /\ t \in Thread /\ t # w
                           /\ S.wclk[t] /\ S.wchan[t] = Ones
  <2> SUFFICES ASSUME NEW t \in Timed(C)
               PROVE  /\ t \in On(S.next) /\ t \in Thread /\ t # w
                      /\ S.wclk[t] /\ S.wchan[t] = Ones
    OBVIOUS
  <2>1. t \in Thread /\ C.next[t] # None /\ C.wchan[t] # None /\ C.wclk[t]
    BY DEF Timed
  <2>2. t # w /\ S.wclk[t] /\ S.wchan[t] # None
    BY <1>6, <2>1
  <2>3. RestOK(S, p, a, t)
    BY <2>1 DEF Before, Calm
  <2> QED
    BY <1>6, <2>1, <2>2, <2>3 DEF RestOK, On
<1>14. WatchOK(R)
  <2> SUFFICES ASSUME R.nt # None
               PROVE  R.nt \in On(R.next) /\ R.wclk[R.nt] /\ R.wchan[R.nt] = Ones
    BY DEF WatchOK
  <2>1. nt \in Timed(C)
    BY <1>4, <1>9 DEF Earliest
  <2>2. C.wclk[nt]
    BY <2>1 DEF Timed
  <2> QED
    BY <1>9, <1>10, <1>12, <1>13, <2>1, <2>2
<1>15. ASSUME NEW t \in Thread
       PROVE  /\ RestOK(R, p, a, t) /\ JoinOK(R, p, a, e, t) /\ WaitOK(R, p, t)
              /\ OverNow(R, p, a, t)
  <2>1. /\ RestOK(S, p, a, t) /\ JoinOK(S, p, a, e, t) /\ WaitOK(S, p, t)
        /\ Over(S, p, a, t)
    BY DEF Before, Calm
  <2>2. CASE t = w
    <3>1. R.wchan[t] = None /\ ~ R.wclk[t] /\ S.wchan[t] = Ones
      BY <1>2, <1>6, <1>9, <1>10, <2>2
    <3>2. p[t] # "wait2"
      BY <2>1, <3>1, Apart DEF RestOK
    <3>3. RestOK(R, p, a, t)
      BY <3>1, <3>2, Apart DEF RestOK
    <3>4. JoinOK(R, p, a, e, t)
      BY <1>12, <2>1, <3>1, Apart DEF JoinOK
    <3>5. WaitOK(R, p, t)
      BY <3>1, Apart DEF WaitOK
    <3>6. OverNow(R, p, a, t)
      <4> SUFFICES ASSUME ~ R.late
                   PROVE  ~ R.idle /\ R.due[t] + R.left <= 0
        BY DEF OverNow
      <4>1. n # 0 /\ R.left = n
        BY <1>9
      <4>2. 0 < n
        BY <1>8, <4>1
      <4>3. Shifted(S.due, n)[t] + n <= 0
        BY <1>1, <1>8, <1>11, <2>2, <4>2, PastStays
      <4> QED
        BY <1>9, <4>1, <4>3
    <3> QED
      BY <3>3, <3>4, <3>5, <3>6
  <2>3. CASE t # w
    <3>1. R.wchan[t] = S.wchan[t] /\ R.wclk[t] = S.wclk[t]
      BY <1>6, <1>9, <1>10, <2>3
    <3>2. RestOK(R, p, a, t)
      BY <2>1, <3>1 DEF RestOK
    <3>3. JoinOK(R, p, a, e, t)
      BY <1>12, <2>1, <3>1 DEF JoinOK
    <3>4. WaitOK(R, p, t)
      <4> SUFFICES ASSUME t \in On(R.next), p[t] = "waited", R.wchan[t] = Ones
                   PROVE  R.nt # None /\ R.due[R.nt] <= R.due[t]
        BY DEF WaitOK
      <4>1. S.wclk[t]
        BY <2>1, <3>1 DEF RestOK
      <4>2. t \in Timed(C)
        BY <1>6, <1>12, <2>3, <3>1, <4>1, Apart DEF Timed, On
      <4>3. nt \in Timed(C) /\ C.due[nt] <= C.due[t]
        BY <1>4, <4>2 DEF Earliest
      <4>4. nt \in Thread /\ nt # None /\ S.due[nt] <= S.due[t]
        BY <1>6, <1>13, <4>3, Apart
      <4> QED
        BY <1>8, <1>9, <1>11, <4>4, ShiftedOrder
    <3>5. OverNow(R, p, a, t)
      <4> SUFFICES ASSUME ~ R.late, t \in On(R.next), InWait(p, a, t), R.wchan[t] = None
                   PROVE  ~ R.idle /\ R.due[t] + R.left <= 0
        BY DEF OverNow
      <4>1. n # 0 /\ R.left = n /\ ~ S.late
        BY <1>9
      <4>2. 0 < n
        BY <1>8, <4>1
      <4>3. S.due[t] <= 0
        BY <1>12, <2>1, <3>1, <4>1 DEF Over
      <4>4. Shifted(S.due, n)[t] + n <= 0
        BY <1>8, <1>11, <4>2, <4>3, PastStays
      <4> QED
        BY <1>9, <4>1, <4>4
    <3> QED
      BY <3>2, <3>3, <3>4, <3>5
  <2> QED
    BY <2>2, <2>3
<1>16. AwakeOK(R, p) /\ AsleepOK(R) /\ ~ R.wild
  <2>1. R.wchan[w] = None /\ ~ S.wild
    BY <1>1, <1>10 DEF Before
  <2> QED
    BY <1>9, <2>1 DEF AwakeOK, AsleepOK
<1> QED
  BY <1>14, <1>15, <1>16 DEF Beyond, Calm

(* Any passage through the scheduler. *)
LEMMA IrqCalm ==
  ASSUME NEW S, NEW p, NEW a, NEW e, Before(S, p, a, e), NEW b, NEW g \in Int,
         NEW R, R = Irq(S, b, g)
  PROVE  Beyond(R, p, a, e)
<1>1. Irqed(S, b, g, R)
  BY IrqIs DEF Before
<1> QED
  BY <1>1, IdledCalm, ResumedCalm, TimedOutCalm DEF Irqed, Before

(* What a place says of the argument of the call. *)
ArgOK(p, a, t) ==
  /\ p[t] # "timed"
  /\ p[t] \in {"run", "wait", "wait2", "waited", "rearm"} => a[t] = None
  /\ p[t] \in {"join", "join2"} => a[t] # None
  /\ p[t] = "joined" => a[t] \in Thread

(* A thread that another one is starting has not begun. *)
CallsOK ==
  \A t \in Thread : ArgOK(pc, arg, t) /\ (pc[t] = "start" => pc[arg[t]] = "run")

Timely == Typed /\ CallsOK /\ Beyond(sys, pc, arg, ended)

(* What a step of the threads in X leaves of what is known of the others.  *)
Elsewhere(S, p, a, e, X, S2, p2, a2, e2) ==
  /\ S2.late = S.late
  /\ \A v \in Thread \ X :
       /\ S2.wchan[v] = S.wchan[v] /\ S2.wclk[v] = S.wclk[v] /\ S2.due[v] = S.due[v]
       /\ p2[v] = p[v] /\ a2[v] = a[v] /\ (e[v] => e2[v])
       /\ v \in On(S2.next) => v \in On(S.next)
       /\ a[v] \in Thread \ On(S2.next) => a[v] \notin On(S.next) \/ e2[v]

(* What is known of one thread. *)
Local(S, p, a, e, t) == RestOK(S, p, a, t) /\ JoinOK(S, p, a, e, t) /\ WaitOK(S, p, t)

(* A step of the threads in X keeps what is known of the others. *)
LEMMA OwnCalm ==
  ASSUME NEW S, NEW p, NEW a, NEW e, Calm(S, p, a, e), NEW X,
         NEW S2, NEW p2, NEW a2, NEW e2, Elsewhere(S, p, a, e, X, S2, p2, a2, e2),
         WatchOK(S2), \A v \in Thread \ X : WaitOK(S2, p2, v),
         \A x \in Thread \cap X : Local(S2, p2, a2, e2, x)
  PROVE  Calm(S2, p2, a2, e2)
<1>1. ASSUME NEW v \in Thread
      PROVE  RestOK(S2, p2, a2, v) /\ JoinOK(S2, p2, a2, e2, v) /\ WaitOK(S2, p2, v)
  <2>1. CASE v \in X
    BY <2>1 DEF Local
  <2>2. CASE v \notin X
    <3>1. RestOK(S, p, a, v) /\ JoinOK(S, p, a, e, v)
      BY DEF Calm
    <3>2. /\ S2.wchan[v] = S.wchan[v] /\ S2.wclk[v] = S.wclk[v]
          /\ p2[v] = p[v] /\ a2[v] = a[v] /\ (e[v] => e2[v])
          /\ a[v] \in Thread \ On(S2.next) => a[v] \notin On(S.next) \/ e2[v]
      BY <2>2 DEF Elsewhere
    <3>3. RestOK(S2, p2, a2, v)
      BY <3>1, <3>2 DEF RestOK, InWait
    <3>4. JoinOK(S2, p2, a2, e2, v)
      BY <3>1, <3>2 DEF JoinOK
    <3> QED
      BY <2>2, <3>3, <3>4
  <2> QED
    BY <2>1, <2>2
<1> QED
  BY <1>1 DEF Calm

(* The watched deadline only gets nearer. *)
Sooner(S, S2) == S.nt # None => S2.nt # None /\ S2.due[S2.nt] <= S.due[S.nt]

(* As long as the watched deadline only gets nearer, the others do not     *)
(* wait for less.                                                          *)
LEMMA SoonerWaits ==
  ASSUME NEW S \in Systems, NEW p, NEW a, NEW e, Calm(S, p, a, e), NEW X,
         NEW S2 \in Systems, NEW p2, NEW a2, NEW e2, Elsewhere(S, p, a, e, X, S2, p2, a2, e2),
         Sooner(S, S2)
  PROVE  \A v \in Thread \ X : WaitOK(S2, p2, v)
<1> SUFFICES ASSUME NEW v \in Thread \ X, v \in On(S2.next), p2[v] = "waited",
                    S2.wchan[v] = Ones
             PROVE  S2.nt # None /\ S2.due[S2.nt] <= S2.due[v]
  BY DEF WaitOK
<1>1. /\ v \in On(S.next) /\ p[v] = "waited" /\ S.wchan[v] = Ones /\ S2.due[v] = S.due[v]
  BY DEF Elsewhere
<1>2. S.nt # None /\ S.due[S.nt] <= S.due[v]
  BY <1>1 DEF Calm, WaitOK
<1>3. S2.nt # None /\ S2.due[S2.nt] <= S.due[S.nt]
  BY <1>2 DEF Sooner
<1>4. S2.due[S2.nt] \in Int /\ S.due[S.nt] \in Int /\ S.due[v] \in Int
  BY <1>2, <1>3 DEF Systems, Deadlines
<1> QED
  BY <1>1, <1>2, <1>3, <1>4

(* A step of the threads in X on the way into the scheduler. *)
LEMMA OwnBefore ==
  ASSUME NEW S, NEW p, NEW a, NEW e, Before(S, p, a, e), NEW X,
         NEW S2 \in Systems, NEW p2, NEW a2, NEW e2, Elsewhere(S, p, a, e, X, S2, p2, a2, e2),
         ~ S2.wild, Ringed(S2.next),
         WatchOK(S2), \A v \in Thread \ X : WaitOK(S2, p2, v),
         \A x \in Thread \cap X : Local(S2, p2, a2, e2, x) /\ Over(S2, p2, a2, x)
  PROVE  Before(S2, p2, a2, e2)
<1>1. Calm(S, p, a, e)
  BY DEF Before
<1>2. Calm(S2, p2, a2, e2)
  BY <1>1, OwnCalm
<1>3. ASSUME NEW v \in Thread
      PROVE  Over(S2, p2, a2, v)
  <2>1. CASE v \in X
    BY <2>1
  <2>2. CASE v \notin X
    <3>1. Over(S, p, a, v)
      BY DEF Before
    <3>2. /\ S2.wchan[v] = S.wchan[v] /\ S2.due[v] = S.due[v] /\ S2.late = S.late
          /\ p2[v] = p[v] /\ a2[v] = a[v] /\ (v \in On(S2.next) => v \in On(S.next))
      BY <2>2 DEF Elsewhere
    <3> QED
      BY <3>1, <3>2 DEF Over, InWait
  <2> QED
    BY <2>1, <2>2
<1> QED
  BY <1>2, <1>3 DEF Before

(* A thread that runs outside of yield. *)
LEMMA AwakeIs ==
  ASSUME Typed, Beyond(sys, pc, arg, ended), NEW t \in Thread, Running(t), pc[t] # "yield"
  PROVE  sys.wchan[t] = None /\ sys.nt # t
<1>1. sys.ct = t /\ ~ sys.idle
  BY DEF Running
<1>2. sys.wchan[t] = None
  BY <1>1 DEF Beyond, AwakeOK
<1>3. sys.nt # t
  BY <1>2, Apart DEF Beyond, Calm, WatchOK
<1> QED
  BY <1>2, <1>3

(* A step of the threads in X, outside of the scheduler.                   *)
LEMMA OwnBeyond ==
  ASSUME Typed, Beyond(sys, pc, arg, ended), NEW t \in Thread, Running(t),
         NEW X, sys.nt \notin X, t \in X,
         NEW S2 \in Systems, NEW p2, NEW a2, NEW e2,
         Elsewhere(sys, pc, arg, ended, X, S2, p2, a2, e2),
         SameLists(sys, S2), SameTurn(sys, S2), S2.left = sys.left, S2.nt = sys.nt,
         \A x \in Thread \cap X : Local(S2, p2, a2, e2, x) /\ OverNow(S2, p2, a2, x),
         p2[t] # "yield" => S2.wchan[t] = None
  PROVE  Beyond(S2, p2, a2, e2)
<1>1. /\ sys.ct = t /\ ~ sys.idle /\ sys \in Systems /\ Calm(sys, pc, arg, ended)
      /\ ~ sys.wild
  BY RunningOn DEF Beyond
<1>2. S2.next = sys.next /\ S2.ct = t /\ ~ S2.idle /\ ~ S2.wild /\ S2.late = sys.late
  BY <1>1 DEF SameLists, SameTurn
<1>3. sys.nt # None =>
        /\ sys.nt \in Thread \ X /\ S2.due[sys.nt] = sys.due[sys.nt]
        /\ S2.wclk[sys.nt] = sys.wclk[sys.nt] /\ S2.wchan[sys.nt] = sys.wchan[sys.nt]
  BY <1>1 DEF Systems, Elsewhere
<1>4. WatchOK(S2)
  BY <1>1, <1>2, <1>3 DEF WatchOK, Calm
<1>5. Sooner(sys, S2)
  <2>1. sys.nt # None => sys.due[sys.nt] \in Int
    BY <1>1, <1>3 DEF Systems, Deadlines
  <2> QED
    BY <1>3, <2>1 DEF Sooner
<1>6. \A v \in Thread \ X : WaitOK(S2, p2, v)
  BY <1>1, <1>5, SoonerWaits
<1>7. Calm(S2, p2, a2, e2)
  BY <1>1, <1>4, <1>6, OwnCalm
<1>8. ASSUME NEW v \in Thread
      PROVE  OverNow(S2, p2, a2, v)
  <2>1. CASE v \in X
    BY <2>1
  <2>2. CASE v \notin X
    <3>1. OverNow(sys, pc, arg, v)
      BY DEF Beyond
    <3>2. /\ S2.wchan[v] = sys.wchan[v] /\ S2.due[v] = sys.due[v]
          /\ p2[v] = pc[v] /\ a2[v] = arg[v]
      BY <2>2 DEF Elsewhere
    <3> QED
      BY <1>1, <1>2, <3>1, <3>2 DEF OverNow, InWait
  <2> QED
    BY <2>1, <2>2
<1> QED
  BY <1>2, <1>7, <1>8 DEF Beyond, AwakeOK, AsleepOK

(* Nothing but the thread t, of which wchan is still null, moves on in the *)
(* library.                                                                *)
Moves(t, p2, a2, e2) ==
  /\ \A v \in Thread \ {t} : p2[v] = pc[v] /\ a2[v] = arg[v] /\ e2[v] = ended[v]
  /\ p2[t] \notin {"join2", "wait2", "yield", "joined", "waited"}
  /\ p2[t] = "join" /\ a2[t] \in Thread \ On(sys.next) => e2[t]

(* A thread that moves on keeps what is known of all. *)
LEMMA MovesBeyond ==
  ASSUME Typed, Beyond(sys, pc, arg, ended), NEW t \in Thread, Running(t), pc[t] # "yield",
         NEW p2, NEW a2, NEW e2, Moves(t, p2, a2, e2)
  PROVE  Beyond(sys, p2, a2, e2)
<1>1. sys.wchan[t] = None /\ sys.nt # t /\ sys \in Systems
  BY AwakeIs, RunningOn
<1>2. Elsewhere(sys, pc, arg, ended, {t}, sys, p2, a2, e2)
  BY DEF Moves, Elsewhere
<1>3. Local(sys, p2, a2, e2, t) /\ OverNow(sys, p2, a2, t)
  BY <1>1, Apart DEF Moves, Local, RestOK, JoinOK, WaitOK, OverNow, InWait
<1>4. SameLists(sys, sys) /\ SameTurn(sys, sys)
  BY DEF SameLists, SameTurn
<1> QED
  BY <1>1, <1>2, <1>3, <1>4, OwnBeyond

(* The clock goes on. *)
LEMMA AdvancedCalm ==
  ASSUME NEW S \in Systems, NEW p, NEW a, NEW e, Calm(S, p, a, e), NEW n \in Int,
         NEW R, Advanced(S, n, R)
  PROVE  Calm(R, p, a, e)
<1>1. /\ R.next = S.next /\ R.wchan = S.wchan /\ R.wclk = S.wclk /\ R.nt = S.nt
      /\ R.due = Shifted(S.due, n)
  BY DEF Advanced, SameLists, SameWaits
<1>2. S.due \in [Thread -> Deadlines]
  BY DEF Systems
<1>3. ASSUME NEW t \in Thread
      PROVE  RestOK(R, p, a, t) /\ JoinOK(R, p, a, e, t) /\ WaitOK(R, p, t)
  <2>1. RestOK(S, p, a, t) /\ JoinOK(S, p, a, e, t) /\ WaitOK(S, p, t)
    BY DEF Calm
  <2>2. On(R.next) = On(S.next)
    BY <1>1
  <2>3. RestOK(R, p, a, t) /\ JoinOK(R, p, a, e, t)
    BY <1>1, <2>1, <2>2 DEF RestOK, JoinOK
  <2>4. WaitOK(R, p, t)
    <3> SUFFICES ASSUME t \in On(R.next), p[t] = "waited", R.wchan[t] = Ones
                 PROVE  R.nt # None /\ R.due[R.nt] <= R.due[t]
      BY DEF WaitOK
    <3>1. S.nt # None /\ S.due[S.nt] <= S.due[t]
      BY <1>1, <2>1, <2>2 DEF WaitOK
    <3>2. S.nt \in Thread
      BY <3>1 DEF Systems
    <3> QED
      BY <1>1, <1>2, <3>1, <3>2, ShiftedOrder
  <2> QED
    BY <2>3, <2>4
<1>4. WatchOK(R)
  BY <1>1 DEF Calm, WatchOK
<1> QED
  BY <1>3, <1>4 DEF Calm

(* What the deadline of a thread that is over becomes when the scheduler   *)
(* brings its clock to the present.                                        *)
LEMMA ShiftedOver ==
  ASSUME NEW S \in Systems, NEW t \in Thread, S.due[t] + S.left <= 0
  PROVE  Shifted(S.due, - S.left)[t] <= 0 /\ S.due[t] <= 0
<1>1. S.due[t] \in Int /\ S.left \in Int /\ S.left >= 1
  BY Numbers DEF Systems, Deadlines
<1>2. Past <= 0
  BY Numbers
<1>3. S.due[t] - (- S.left) = S.due[t] + S.left
  BY <1>1
<1>4. Shifted(S.due, - S.left)[t] \in {Past, S.due[t] + S.left}
  BY <1>3 DEF Shifted
<1> QED
  BY <1>1, <1>2, <1>4

(* The state in which a thread enters the scheduler. *)
LEMMA PresentBefore ==
  ASSUME Typed, Beyond(sys, pc, arg, ended), NEW t \in Thread, Running(t),
         NEW P, P = Present(sys)
  PROVE  Before(P, pc, arg, ended) /\ Advanced(sys, - sys.left, P)
<1>1. /\ sys \in Systems /\ ~ sys.wild /\ Ringed(sys.next)
      /\ Calm(sys, pc, arg, ended)
  BY RunningOn DEF Beyond
<1>2. Advanced(sys, - sys.left, P)
  BY <1>1, PresentIs
<1>3. - sys.left \in Int
  BY <1>1, Numbers DEF Systems
<1>4. Calm(P, pc, arg, ended)
  BY <1>1, <1>2, <1>3, AdvancedCalm
<1>5. /\ P \in Systems /\ P.next = sys.next /\ P.wild = sys.wild /\ P.wchan = sys.wchan
      /\ P.late = sys.late /\ P.due = Shifted(sys.due, - sys.left)
  BY <1>2 DEF Advanced, SameLists, SameWaits, SameTurn
<1>6. ASSUME NEW v \in Thread
      PROVE  Over(P, pc, arg, v)
  <2>1. OverNow(sys, pc, arg, v)
    BY DEF Beyond
  <2>2. sys.due[v] + sys.left <= 0 => Shifted(sys.due, - sys.left)[v] <= 0
    BY <1>1, ShiftedOver
  <2> QED
    BY <1>5, <2>1, <2>2 DEF Over, OverNow
<1> QED
  BY <1>1, <1>2, <1>4, <1>5, <1>6 DEF Before

(* The step passes through the scheduler, which is entered in a state that *)
(* the invariant allows, with the deadlines there were or fewer.           *)
Enters(p, a, e) ==
  \E S, b : \E g \in Garbage :
    /\ Before(S, p, a, e) /\ S.late = sys.late
    /\ \A v \in Thread : S.wclk[v] => sys.wclk[v]
    /\ sys' = Irq(S, b, g)

(* What the passage leaves is again what the invariant allows. *)
LEMMA EntersBeyond ==
  ASSUME NEW p, NEW a, NEW e, Enters(p, a, e)
  PROVE  Beyond(sys', p, a, e)
<1>1. PICK S, b : \E g \in Garbage : Before(S, p, a, e) /\ sys' = Irq(S, b, g)
  BY DEF Enters
<1>2. PICK g \in Garbage : Before(S, p, a, e) /\ sys' = Irq(S, b, g)
  BY <1>1
<1>3. PICK R : R = sys'
  OBVIOUS
<1>4. Beyond(R, p, a, e)
  BY <1>2, <1>3, GarbageInt, IrqCalm
<1> QED
  BY <1>3, <1>4

(* Frames pass. *)
LEMMA TickEnters ==
  ASSUME Typed, Beyond(sys, pc, arg, ended), Tick
  PROVE  \/ Enters(pc, arg, ended)
         \/ /\ Beyond(sys', pc, arg, ended)
            /\ sys'.late = sys.late /\ sys'.wclk = sys.wclk
<1>1. /\ sys \in Systems /\ ~ sys.wild /\ Ringed(sys.next)
      /\ Calm(sys, pc, arg, ended)
  BY DEF Tick, Typed, SchedulerOK, Settled, Beyond
<1>2. PICK R : R = sys'
  OBVIOUS
<1>3. CASE sys.idle
  <2>1. PICK A : A = Advance(sys, 1)
    OBVIOUS
  <2>2. PICK g \in Garbage : R = Irq(A, byte, g)
    BY <1>2, <1>3, <2>1 DEF Tick, Sched
  <2>3. Advanced(sys, 1, A)
    BY <1>1, <2>1, AdvanceIs
  <2>4. Calm(A, pc, arg, ended)
    BY <1>1, <2>3, AdvancedCalm
  <2>5. /\ A \in Systems /\ A.next = sys.next /\ A.wild = sys.wild /\ A.wchan = sys.wchan
    BY <2>3 DEF Advanced, SameLists, SameWaits
  <2>6. \A v \in On(A.next) : A.wchan[v] # None
    BY <1>3, <2>5 DEF Beyond, AsleepOK
  <2>7. \A v \in Thread : Over(A, pc, arg, v)
    BY <2>6 DEF Over
  <2>8. Before(A, pc, arg, ended)
    BY <1>1, <2>4, <2>5, <2>7 DEF Before
  <2>9. A.late = sys.late /\ A.wclk = sys.wclk
    BY <2>3 DEF Advanced, SameTurn, SameWaits
  <2>10. sys' = Irq(A, byte, g)
    BY <1>2, <2>2
  <2> QED
    BY <2>8, <2>9, <2>10 DEF Enters
<1>4. CASE ~ sys.idle /\ sys.left = 1
  <2>1. PICK g \in Garbage : R = Irq(sys, byte, g)
    BY <1>2, <1>4 DEF Tick, Sched
  <2>2. ASSUME NEW v \in Thread
        PROVE  Over(sys, pc, arg, v)
    <3>1. OverNow(sys, pc, arg, v)
      BY DEF Beyond
    <3>2. sys.due[v] + sys.left <= 0 => sys.due[v] <= 0
      BY <1>1, ShiftedOver
    <3> QED
      BY <3>1, <3>2 DEF Over, OverNow
  <2>3. Before(sys, pc, arg, ended)
    BY <1>1, <2>2 DEF Before
  <2>4. sys' = Irq(sys, byte, g)
    BY <1>2, <2>1
  <2> QED
    BY <2>3, <2>4 DEF Enters
<1>5. CASE ~ sys.idle /\ sys.left # 1
  <2>1. R = [sys EXCEPT !.left = @ - 1]
    BY <1>2, <1>5 DEF Tick
  <2>2. /\ R.next = sys.next /\ R.wild = sys.wild /\ R.wchan = sys.wchan
        /\ R.wclk = sys.wclk /\ R.due = sys.due /\ R.nt = sys.nt /\ R.ct = sys.ct
        /\ R.idle = sys.idle /\ R.late = sys.late /\ R.left = sys.left - 1
    BY <1>1, <2>1 DEF Systems
  <2>3. On(R.next) = On(sys.next)
    BY <2>2
  <2>4. WatchOK(R)
    BY <1>1, <2>2 DEF Calm, WatchOK
  <2>5. ASSUME NEW v \in Thread
        PROVE  /\ RestOK(R, pc, arg, v) /\ JoinOK(R, pc, arg, ended, v) /\ WaitOK(R, pc, v)
               /\ OverNow(R, pc, arg, v)
    <3>1. /\ RestOK(sys, pc, arg, v) /\ JoinOK(sys, pc, arg, ended, v)
          /\ WaitOK(sys, pc, v) /\ OverNow(sys, pc, arg, v)
      BY DEF Beyond, Calm
    <3>2. RestOK(R, pc, arg, v) /\ JoinOK(R, pc, arg, ended, v) /\ WaitOK(R, pc, v)
      BY <2>2, <2>3, <3>1 DEF RestOK, JoinOK, WaitOK
    <3>3. sys.due[v] + sys.left <= 0 => sys.due[v] + (sys.left - 1) <= 0
      <4>1. sys.due[v] \in Int /\ sys.left \in Int
        BY <1>1, Numbers DEF Systems, Deadlines
      <4> QED
        BY <4>1
    <3>4. OverNow(R, pc, arg, v)
      BY <2>2, <2>3, <3>1, <3>3 DEF OverNow
    <3> QED
      BY <3>2, <3>4
  <2>6. AwakeOK(R, pc) /\ AsleepOK(R) /\ ~ R.wild
    BY <1>1, <1>5, <2>2 DEF Beyond, AwakeOK, AsleepOK
  <2>7. Beyond(R, pc, arg, ended)
    BY <2>4, <2>5, <2>6 DEF Beyond, Calm
  <2> QED
    BY <1>2, <2>2, <2>7
<1> QED
  BY <1>3, <1>4, <1>5

(* The current thread yields without a deadline, or with one that the      *)
(* scheduler now watches if it is the nearest.                             *)
LEMMA YieldEnters ==
  ASSUME Typed, Beyond(sys, pc, arg, ended), NEW t \in Thread, Running(t), Yield(t),
         NEW p2, \A v \in Thread \ {t} : p2[v] = pc[v],
         \/ pc[t] # "yield" /\ p2[t] = pc[t] /\ pc[t] \notin {"joined", "waited"}
         \/ /\ pc[t] = "yield"
            /\ \/ p2[t] = "lock" /\ arg[t] # None
               \/ p2[t] = "joined" /\ arg[t] \in Thread
               \/ p2[t] = "waited" /\ arg[t] = None
  PROVE  Enters(p2, arg, ended)
<1>1. PICK P : P = Present(sys)
  OBVIOUS
<1>2. Before(P, pc, arg, ended) /\ Advanced(sys, - sys.left, P)
  BY <1>1, PresentBefore
<1>3. PICK g \in Garbage : sys' = Irq(ChkNt(P, g, t), byte, g)
  BY <1>1 DEF Yield
<1>4. PICK S : S = ChkNt(P, g, t)
  OBVIOUS
<1>5. P \in Systems /\ ~ P.wild /\ Ringed(P.next) /\ Calm(P, pc, arg, ended)
  BY <1>2 DEF Before
<1>6. PICK nt : nt = IF Urgent(P, g, t) THEN t ELSE P.nt
  OBVIOUS
<1>7. Watched(P, nt, S)
  BY <1>4, <1>5, <1>6, ChkNtIs
<1>8. /\ S \in Systems /\ S.next = P.next /\ S.wild = P.wild /\ S.wchan = P.wchan
      /\ S.wclk = P.wclk /\ S.late = P.late /\ S.due = P.due /\ S.nt = nt
  BY <1>7 DEF Watched, SameLists, SameWaits, SameTurn
<1>9. t \in On(P.next)
  <2>1. P.next = sys.next
    BY <1>2 DEF Advanced, SameLists
  <2> QED
    BY <2>1, RunningOn
<1>10. /\ RestOK(P, pc, arg, t) /\ JoinOK(P, pc, arg, ended, t) /\ WaitOK(P, pc, t)
       /\ Over(P, pc, arg, t) /\ WatchOK(P)
  BY <1>2 DEF Before, Calm
<1>11. P.nt # None => Deadline(P, g, P.nt) = P.due[P.nt] /\ P.due[P.nt] \in Int
  BY <1>5, <1>10 DEF WatchOK, Deadline, Systems, Deadlines
<1>12. P.due[t] \in Int
  BY <1>5 DEF Systems, Deadlines
<1>13. WatchOK(S)
  <2>1. CASE Urgent(P, g, t)
    <3>1. P.wclk[t] /\ P.wchan[t] = Ones /\ nt = t
      BY <1>6, <1>10, <2>1 DEF Urgent, RestOK
    <3> QED
      BY <1>8, <1>9, <3>1 DEF WatchOK
  <2>2. CASE ~ Urgent(P, g, t)
    BY <1>6, <1>8, <1>10, <2>2 DEF WatchOK
  <2> QED
    BY <2>1, <2>2
<1>14. Sooner(P, S)
  <2>1. CASE Urgent(P, g, t)
    BY <1>6, <1>8, <1>11, <1>12, <2>1, Apart DEF Urgent, Sooner
  <2>2. CASE ~ Urgent(P, g, t)
    BY <1>6, <1>8, <1>11, <2>2 DEF Sooner
  <2> QED
    BY <2>1, <2>2
<1>15. Elsewhere(P, pc, arg, ended, {t}, S, p2, arg, ended)
  BY <1>8 DEF Elsewhere
<1>16. \A v \in Thread \ {t} : WaitOK(S, p2, v)
  BY <1>5, <1>8, <1>14, <1>15, SoonerWaits
<1>17. RestOK(S, p2, arg, t)
  BY <1>8, <1>10, Apart DEF RestOK, InWait
<1>18. JoinOK(S, p2, arg, ended, t)
  BY <1>8, <1>10, Apart DEF JoinOK
<1>19. WaitOK(S, p2, t)
  <2> SUFFICES ASSUME p2[t] = "waited", S.wchan[t] = Ones
               PROVE  S.nt # None /\ S.due[S.nt] <= S.due[t]
    BY DEF WaitOK
  <2>1. pc[t] = "yield" /\ P.wclk[t] /\ P.wchan[t] # None
    BY <1>8, <1>10, Apart DEF RestOK
  <2>2. CASE Urgent(P, g, t)
    BY <1>6, <1>8, <1>12, <2>2, Apart
  <2>3. CASE ~ Urgent(P, g, t)
    <3>1. P.nt # None /\ ~(P.due[t] < P.due[P.nt])
      BY <1>11, <2>1, <2>3 DEF Urgent
    <3> QED
      BY <1>6, <1>8, <1>11, <1>12, <2>3, <3>1
  <2> QED
    BY <2>2, <2>3
<1>20. Over(S, p2, arg, t)
  BY <1>8, <1>10 DEF Over, InWait
<1>21. Local(S, p2, arg, ended, t)
  BY <1>17, <1>18, <1>19 DEF Local
<1>22. Before(S, p2, arg, ended)
  BY <1>2, <1>5, <1>8, <1>13, <1>15, <1>16, <1>20, <1>21, OwnBefore
<1>23. S.late = sys.late /\ S.wclk = sys.wclk
  BY <1>2, <1>8 DEF Advanced, SameTurn, SameWaits
<1>24. sys' = Irq(S, byte, g)
  BY <1>3, <1>4
<1> QED
  BY <1>22, <1>23, <1>24 DEF Enters

(* A step of t alone, outside of the scheduler, that may change what it    *)
(* waits for.                                                              *)
Own(t, S, p2) ==
  /\ S \in Systems /\ SameLists(sys, S) /\ SameTurn(sys, S)
  /\ S.left = sys.left /\ S.nt = sys.nt
  /\ \A v \in Thread \ {t} :
       /\ S.wchan[v] = sys.wchan[v] /\ S.wclk[v] = sys.wclk[v] /\ S.due[v] = sys.due[v]
       /\ p2[v] = pc[v]

(* The invariant survives such a step. *)
LEMMA OwnStep ==
  ASSUME Typed, Beyond(sys, pc, arg, ended), NEW t \in Thread, Running(t), pc[t] # "yield",
         NEW S, NEW p2, Own(t, S, p2),
         RestOK(S, p2, arg, t), JoinOK(S, p2, arg, ended, t),
         p2[t] # "waited", ~ InWait(p2, arg, t) \/ S.wchan[t] # None,
         p2[t] # "yield" => S.wchan[t] = None
  PROVE  Beyond(S, p2, arg, ended)
<1>1. S \in Systems /\ S.late = sys.late /\ S.next = sys.next
  BY DEF Own, SameTurn, SameLists
<1>2. On(S.next) = On(sys.next)
  BY <1>1
<1>3. Elsewhere(sys, pc, arg, ended, {t}, S, p2, arg, ended)
  BY <1>1, <1>2 DEF Own, Elsewhere
<1>4. Local(S, p2, arg, ended, t) /\ OverNow(S, p2, arg, t)
  BY DEF Local, WaitOK, OverNow
<1>5. sys.nt # t
  BY AwakeIs
<1>6. SameLists(sys, S) /\ SameTurn(sys, S) /\ S.left = sys.left /\ S.nt = sys.nt
  BY DEF Own
<1> QED
  BY <1>1, <1>3, <1>4, <1>5, <1>6, OwnBeyond

(* What the arguments of calls are when one thread moves on in the library *)
(* without starting another one.                                           *)
LEMMA CallsMove ==
  ASSUME Typed, CallsOK, NEW t \in Thread, Running(t),
         \A v \in Thread \ {t} : pc'[v] = pc[v] /\ arg'[v] = arg[v],
         ArgOK(pc', arg', t), pc'[t] # "start"
  PROVE  CallsOK'
<1>1. t \in On(sys.next) /\ LinksOK
  BY RunningOn
<1>2. ASSUME NEW v \in Thread
      PROVE  ArgOK(pc', arg', v) /\ (pc'[v] = "start" => pc'[arg'[v]] = "run")
  <2>1. CASE v = t
    BY <2>1
  <2>2. CASE v # t
    <3>1. pc'[v] = pc[v] /\ arg'[v] = arg[v]
      BY <2>2
    <3>2. ArgOK(pc', arg', v)
      BY <3>1 DEF CallsOK, ArgOK
    <3>3. ASSUME pc[v] = "start"
          PROVE  pc'[arg[v]] = "run"
      <4>1. arg[v] \in Thread \ On(sys.next)
        BY <1>1, <3>3 DEF LinksOK
      <4>2. arg[v] \in Thread \ {t}
        BY <1>1, <4>1
      <4>3. pc[arg[v]] = "run"
        BY <3>3 DEF CallsOK
      <4> QED
        BY <4>2, <4>3
    <3> QED
      BY <3>1, <3>2, <3>3
  <2> QED
    BY <2>1, <2>2
<1> QED
  BY <1>2 DEF CallsOK

(* What is known of a thread that runs. *)
LEMMA Known ==
  ASSUME Timely, NEW t \in Thread, Running(t)
  PROVE  /\ RestOK(sys, pc, arg, t) /\ JoinOK(sys, pc, arg, ended, t)
         /\ ArgOK(pc, arg, t) /\ pc[t] # "timed"
         /\ pc[t] # "yield" => sys.wchan[t] = None /\ sys.nt # t
         /\ sys \in Systems /\ ~ sys.wild /\ Ringed(sys.next) /\ t \in On(sys.next)
         /\ pc \in [Thread -> Places] /\ arg \in [Thread -> Thread \cup Mutex \cup {None}]
         /\ cv \in [Thread -> Cond \cup {None}] /\ ended \in [Thread -> BOOLEAN]
<1>1. Typed /\ CallsOK /\ Beyond(sys, pc, arg, ended)
  BY DEF Timely
<1>2. RestOK(sys, pc, arg, t) /\ JoinOK(sys, pc, arg, ended, t)
  BY <1>1 DEF Beyond, Calm
<1>3. ArgOK(pc, arg, t) /\ pc[t] # "timed"
  BY <1>1 DEF CallsOK, ArgOK
<1>4. pc[t] # "yield" => sys.wchan[t] = None /\ sys.nt # t
  BY <1>1, AwakeIs
<1>5. sys \in Systems /\ ~ sys.wild /\ Ringed(sys.next) /\ t \in On(sys.next)
  BY <1>1, RunningOn
<1>6. /\ pc \in [Thread -> Places] /\ arg \in [Thread -> Thread \cup Mutex \cup {None}]
      /\ cv \in [Thread -> Cond \cup {None}] /\ ended \in [Thread -> BOOLEAN]
  BY <1>1 DEF Typed, Inv, ObjectsOK, SchedulerOK
<1> QED
  BY <1>2, <1>3, <1>4, <1>5, <1>6

(* The steps of gt_join and of gt_wait before they yield. *)
LEMMA WaitsTimely ==
  ASSUME Timely, NEW t \in Thread,
         \/ JoinClearsWclk(t) \/ JoinSetsWchan(t)
         \/ WaitSetsWclk(t) \/ WaitSetsWchan(t)
  PROVE  CallsOK' /\ Beyond(sys', pc', arg', ended')
<1>1. Running(t) /\ UNCHANGED <<arg, ended>>
  BY DEF JoinClearsWclk, JoinSetsWchan, WaitSetsWclk, WaitSetsWchan, At
<1>2. /\ RestOK(sys, pc, arg, t) /\ JoinOK(sys, pc, arg, ended, t)
      /\ ArgOK(pc, arg, t) /\ sys \in Systems
      /\ pc[t] # "yield" => sys.wchan[t] = None
      /\ pc \in [Thread -> Places] /\ arg \in [Thread -> Thread \cup Mutex \cup {None}]
  BY <1>1, Known
<1>3. Typed /\ CallsOK /\ Beyond(sys, pc, arg, ended)
  BY DEF Timely
<1>4. PICK S, p2 : S = sys' /\ p2 = pc'
  OBVIOUS
<1>5. CASE JoinClearsWclk(t)
  <2>1. pc[t] = "join" /\ S = [sys EXCEPT !.wclk[t] = FALSE] /\ p2 = [pc EXCEPT ![t] = "join2"]
    BY <1>4, <1>5 DEF JoinClearsWclk, At, Go
  <2>2. Own(t, S, p2) /\ p2[t] = "join2" /\ ~ S.wclk[t] /\ S.wchan[t] = None /\ S.next = sys.next
    BY <1>2, <2>1 DEF Own, Systems, SameLists, SameTurn
  <2>3. On(S.next) = On(sys.next)
    BY <2>2
  <2>4. RestOK(S, p2, arg, t) /\ ~ InWait(p2, arg, t)
    BY <2>2, Apart DEF RestOK, InWait
  <2>5. JoinOK(S, p2, arg, ended, t)
    BY <1>2, <2>1, <2>2, <2>3 DEF JoinOK
  <2>6. Beyond(S, p2, arg, ended)
    BY <1>1, <1>3, <2>1, <2>2, <2>4, <2>5, OwnStep
  <2>7. ArgOK(p2, arg, t)
    BY <1>2, <2>1, <2>2 DEF ArgOK
  <2>8. \A v \in Thread \ {t} : p2[v] = pc[v]
    BY <2>2 DEF Own
  <2>9. CallsOK'
    BY <1>1, <1>3, <1>4, <2>2, <2>7, <2>8, CallsMove
  <2> QED
    BY <1>1, <1>4, <2>6, <2>9
<1>6. CASE JoinSetsWchan(t)
  <2>1. /\ pc[t] = "join2" /\ S = [sys EXCEPT !.wchan[t] = arg[t]]
        /\ p2 = [pc EXCEPT ![t] = "yield"]
    BY <1>4, <1>6 DEF JoinSetsWchan, At, Go
  <2>2. arg[t] # None /\ arg[t] \in Channels /\ arg[t] # Ones
    BY <1>2, <2>1, Apart DEF ArgOK, Channels
  <2>3. /\ Own(t, S, p2) /\ p2[t] = "yield" /\ S.wclk[t] = sys.wclk[t] /\ S.wchan[t] = arg[t]
        /\ S.next = sys.next
    BY <1>2, <2>1, <2>2 DEF Own, Systems, SameLists, SameTurn
  <2>4. On(S.next) = On(sys.next)
    BY <2>3
  <2>5. ~ sys.wclk[t]
    BY <1>2, <2>1 DEF RestOK
  <2>6. RestOK(S, p2, arg, t) /\ ~ InWait(p2, arg, t)
    BY <2>2, <2>3, <2>5 DEF RestOK, InWait
  <2>7. JoinOK(S, p2, arg, ended, t)
    BY <1>2, <2>1, <2>3, <2>4 DEF JoinOK
  <2>8. Beyond(S, p2, arg, ended)
    BY <1>1, <1>3, <2>1, <2>3, <2>6, <2>7, OwnStep
  <2>9. ArgOK(p2, arg, t)
    BY <2>3 DEF ArgOK
  <2>10. \A v \in Thread \ {t} : p2[v] = pc[v]
    BY <2>3 DEF Own
  <2>11. CallsOK'
    BY <1>1, <1>3, <1>4, <2>3, <2>9, <2>10, CallsMove
  <2> QED
    BY <1>1, <1>4, <2>8, <2>11
<1>7. CASE WaitSetsWclk(t)
  <2>1. pc[t] = "wait" /\ S = [sys EXCEPT !.wclk[t] = TRUE] /\ p2 = [pc EXCEPT ![t] = "wait2"]
    BY <1>4, <1>7 DEF WaitSetsWclk, At, Go
  <2>2. Own(t, S, p2) /\ p2[t] = "wait2" /\ S.wclk[t] /\ S.wchan[t] = None
    BY <1>2, <2>1 DEF Own, Systems, SameLists, SameTurn
  <2>3. RestOK(S, p2, arg, t) /\ ~ InWait(p2, arg, t)
    BY <2>2, Apart DEF RestOK, InWait
  <2>4. JoinOK(S, p2, arg, ended, t)
    BY <2>2 DEF JoinOK
  <2>5. Beyond(S, p2, arg, ended)
    BY <1>1, <1>3, <2>1, <2>2, <2>3, <2>4, OwnStep
  <2>6. ArgOK(p2, arg, t)
    BY <1>2, <2>1, <2>2 DEF ArgOK
  <2>7. \A v \in Thread \ {t} : p2[v] = pc[v]
    BY <2>2 DEF Own
  <2>8. CallsOK'
    BY <1>1, <1>3, <1>4, <2>2, <2>6, <2>7, CallsMove
  <2> QED
    BY <1>1, <1>4, <2>5, <2>8
<1>8. CASE WaitSetsWchan(t)
  <2>1. /\ pc[t] = "wait2" /\ S = [sys EXCEPT !.wchan[t] = Ones]
        /\ p2 = [pc EXCEPT ![t] = "yield"]
    BY <1>4, <1>8 DEF WaitSetsWchan, At, Go
  <2>2. Own(t, S, p2) /\ p2[t] = "yield" /\ S.wclk[t] = sys.wclk[t] /\ S.wchan[t] = Ones
    BY <1>2, <2>1 DEF Own, Systems, Channels, SameLists, SameTurn
  <2>3. sys.wclk[t] /\ arg[t] = None
    BY <1>2, <2>1 DEF RestOK, ArgOK
  <2>4. RestOK(S, p2, arg, t) /\ S.wchan[t] # None
    BY <2>2, <2>3, Apart DEF RestOK, InWait
  <2>5. JoinOK(S, p2, arg, ended, t)
    BY <2>3, Apart DEF JoinOK
  <2>6. Beyond(S, p2, arg, ended)
    BY <1>1, <1>3, <2>1, <2>2, <2>4, <2>5, OwnStep
  <2>7. ArgOK(p2, arg, t)
    BY <2>2 DEF ArgOK
  <2>8. \A v \in Thread \ {t} : p2[v] = pc[v]
    BY <2>2 DEF Own
  <2>9. CallsOK'
    BY <1>1, <1>3, <1>4, <2>2, <2>7, <2>8, CallsMove
  <2> QED
    BY <1>1, <1>4, <2>6, <2>9
<1> QED
  BY <1>5, <1>6, <1>7, <1>8

(* A step of t alone that leaves the scheduler alone. *)
LEMMA MovesTimely ==
  ASSUME Timely, NEW t \in Thread, Running(t), pc[t] # "yield", UNCHANGED sys,
         \A v \in Thread \ {t} : pc'[v] = pc[v] /\ arg'[v] = arg[v] /\ ended'[v] = ended[v],
         pc'[t] \notin {"join2", "wait2", "yield", "joined", "waited", "start"},
         pc'[t] = "join" /\ arg'[t] \in Thread \ On(sys.next) => ended'[t],
         ArgOK(pc', arg', t)
  PROVE  CallsOK' /\ Beyond(sys', pc', arg', ended')
<1>1. Typed /\ CallsOK /\ Beyond(sys, pc, arg, ended)
  BY DEF Timely
<1>2. CallsOK'
  BY <1>1, CallsMove
<1>3. PICK p2, a2, e2 : p2 = pc' /\ a2 = arg' /\ e2 = ended'
  OBVIOUS
<1>4. Moves(t, p2, a2, e2)
  BY <1>3 DEF Moves
<1>5. Beyond(sys, p2, a2, e2)
  BY <1>1, <1>4, MovesBeyond
<1> QED
  BY <1>2, <1>3, <1>5

(* The returns of gt_join, of gt_wait and of gt_mutex_lock, and the        *)
(* iterations of the latter.                                               *)
LEMMA ReturnsTimely ==
  ASSUME Timely, NEW t \in Thread,
         WaitReturns(t) \/ LockTakes(t) \/ LockWaits(t) \/ CondRearms(t)
  PROVE  CallsOK' /\ Beyond(sys', pc', arg', ended')
<1>1. Running(t) /\ UNCHANGED sys
  BY DEF WaitReturns, LockTakes, LockWaits, CondRearms, At
<1>2. /\ pc \in [Thread -> Places] /\ arg \in [Thread -> Thread \cup Mutex \cup {None}]
      /\ ended \in [Thread -> BOOLEAN] /\ ArgOK(pc, arg, t)
  BY <1>1, Known
<1>3. CASE WaitReturns(t)
  <2>1. /\ pc[t] # "yield" /\ pc' = [pc EXCEPT ![t] = "run"]
        /\ arg' = [arg EXCEPT ![t] = None] /\ ended' = [ended EXCEPT ![t] = FALSE]
    BY <1>3 DEF WaitReturns, Go
  <2>2. /\ pc'[t] = "run" /\ arg'[t] = None
        /\ \A v \in Thread \ {t} :
             pc'[v] = pc[v] /\ arg'[v] = arg[v] /\ ended'[v] = ended[v]
    BY <1>2, <2>1
  <2>3. ArgOK(pc', arg', t)
    BY <2>2 DEF ArgOK
  <2> QED
    BY <1>1, <2>1, <2>2, <2>3, MovesTimely
<1>4. CASE LockTakes(t)
  <2>1. /\ pc[t] = "lock"
        /\ pc' = [pc EXCEPT ![t] = IF cv[t] = None THEN "run" ELSE "rearm"]
        /\ arg' = [arg EXCEPT ![t] = None] /\ UNCHANGED ended
    BY <1>4 DEF LockTakes, At, Go
  <2>2. /\ pc'[t] \in {"run", "rearm"} /\ arg'[t] = None
        /\ \A v \in Thread \ {t} :
             pc'[v] = pc[v] /\ arg'[v] = arg[v] /\ ended'[v] = ended[v]
    BY <1>2, <2>1
  <2>3. ArgOK(pc', arg', t)
    BY <2>2 DEF ArgOK
  <2> QED
    BY <1>1, <2>1, <2>2, <2>3, MovesTimely
<1>5. CASE LockWaits(t)
  <2>1. pc[t] = "lock" /\ pc' = [pc EXCEPT ![t] = "join"] /\ UNCHANGED <<arg, ended>>
    BY <1>5 DEF LockWaits, At, Go
  <2>2. arg[t] \in Mutex
    BY <2>1 DEF Timely, Typed, Inv, PlacesOK
  <2>3. arg[t] \notin Thread /\ arg[t] # None
    BY <2>2, Apart
  <2>4. /\ pc'[t] = "join" /\ arg'[t] = arg[t]
        /\ \A v \in Thread \ {t} :
             pc'[v] = pc[v] /\ arg'[v] = arg[v] /\ ended'[v] = ended[v]
    BY <1>2, <2>1
  <2>5. ArgOK(pc', arg', t)
    BY <2>3, <2>4 DEF ArgOK
  <2> QED
    BY <1>1, <2>1, <2>3, <2>4, <2>5, MovesTimely
<1>6. CASE CondRearms(t)
  <2>1. pc[t] = "rearm" /\ pc' = [pc EXCEPT ![t] = "run"] /\ UNCHANGED <<arg, ended>>
    BY <1>6 DEF CondRearms, At, Go
  <2>2. /\ pc'[t] = "run" /\ arg'[t] = arg[t]
        /\ \A v \in Thread \ {t} :
             pc'[v] = pc[v] /\ arg'[v] = arg[v] /\ ended'[v] = ended[v]
    BY <1>2, <2>1
  <2>3. ArgOK(pc', arg', t)
    BY <1>2, <2>1, <2>2 DEF ArgOK
  <2> QED
    BY <1>1, <2>1, <2>2, <2>3, MovesTimely
<1> QED
  BY <1>3, <1>4, <1>5, <1>6

(* The yield that ends gt_join and gt_wait. *)
LEMMA YieldsTimely ==
  ASSUME Timely, NEW t \in Thread, WaitYields(t)
  PROVE  CallsOK' /\ Enters(pc', arg', ended')
<1> DEFINE place == CASE arg[t] \in Mutex -> "lock"
                      [] arg[t] \in Thread -> "joined"
                      [] OTHER -> "waited"
<1>1. /\ Running(t) /\ pc[t] = "yield" /\ Yield(t) /\ UNCHANGED <<arg, ended>>
      /\ pc' = [pc EXCEPT ![t] = place]
  BY DEF WaitYields, At, Go
<1>2. pc \in [Thread -> Places] /\ arg \in [Thread -> Thread \cup Mutex \cup {None}]
  BY <1>1, Known
<1>3. \/ place = "lock" /\ arg[t] # None
      \/ place = "joined" /\ arg[t] \in Thread
      \/ place = "waited" /\ arg[t] = None
  <2>1. CASE arg[t] \in Mutex
    BY <2>1, Apart
  <2>2. CASE arg[t] \in Thread
    BY <2>2, Apart
  <2>3. CASE arg[t] = None
    BY <2>3, Apart
  <2> QED
    BY <1>2, <2>1, <2>2, <2>3
<1> HIDE DEF place
<1>4. PICK p2 : p2 = pc'
  OBVIOUS
<1>5. p2[t] = place /\ \A v \in Thread \ {t} : p2[v] = pc[v]
  BY <1>1, <1>2, <1>4
<1>6. Typed /\ CallsOK /\ Beyond(sys, pc, arg, ended)
  BY DEF Timely
<1>7. Enters(p2, arg, ended)
  BY <1>1, <1>3, <1>5, <1>6, YieldEnters
<1>8. ArgOK(p2, arg, t) /\ p2[t] # "start"
  BY <1>3, <1>5 DEF ArgOK
<1>9. CallsOK'
  BY <1>1, <1>4, <1>5, <1>6, <1>8, CallsMove
<1> QED
  BY <1>1, <1>4, <1>7, <1>9

(* gt_cond_wait waits without a deadline. *)
LEMMA CondTimely ==
  ASSUME Timely, NEW t \in Thread, CondWaits(t)
  PROVE  CallsOK' /\ Enters(pc', arg', ended')
<1> DEFINE b == [byte EXCEPT ![arg[t]] = 0, ![cv[t]] = 1]
           S(k) == [Present(sys) EXCEPT !.wclk[t] = k, !.wchan[t] = cv[t]]
<1>1. /\ Running(t) /\ pc[t] \in {"cond", "timed"} /\ UNCHANGED <<arg, ended>>
      /\ pc' = [pc EXCEPT ![t] = "lock"]
      /\ \E g \in Garbage : sys' = Irq(ChkNt(S(pc[t] = "timed"), g, t), b, g)
  BY DEF CondWaits, Go
<1>2. /\ pc[t] = "cond" /\ sys.nt # t /\ sys \in Systems /\ Ringed(sys.next)
      /\ pc \in [Thread -> Places] /\ cv \in [Thread -> Cond \cup {None}]
  BY <1>1, Known
<1>3. (pc[t] = "timed") = FALSE
  BY <1>2
<1>4. PICK g \in Garbage : sys' = Irq(ChkNt(S(FALSE), g, t), b, g)
  BY <1>1, <1>3
<1> HIDE DEF b
<1>5. PICK P, p2 : P = Present(sys) /\ p2 = pc'
  OBVIOUS
<1>6. PICK C : C = [P EXCEPT !.wclk[t] = FALSE, !.wchan[t] = cv[t]]
  OBVIOUS
<1>7. Typed /\ CallsOK /\ Beyond(sys, pc, arg, ended)
  BY DEF Timely
<1>8. Before(P, pc, arg, ended) /\ Advanced(sys, - sys.left, P)
  BY <1>1, <1>5, <1>7, PresentBefore
<1>9. P \in Systems /\ P.nt = sys.nt /\ ~ P.wild /\ Ringed(P.next) /\ Calm(P, pc, arg, ended)
  BY <1>8 DEF Before, Advanced
<1>10. cv[t] \in Cond
  BY <1>2 DEF Timely, Typed, Inv, PlacesOK
<1>11. cv[t] \in Channels /\ cv[t] # Ones
  BY <1>10, Apart DEF Channels
<1>12. /\ C \in Systems /\ C.next = P.next /\ C.wild = P.wild /\ C.nt = P.nt
       /\ C.due = P.due /\ C.late = P.late /\ ~ C.wclk[t]
       /\ \A v \in Thread \ {t} : C.wchan[v] = P.wchan[v] /\ C.wclk[v] = P.wclk[v]
       /\ C.wchan[t] # Ones
  BY <1>6, <1>9, <1>11 DEF Systems
<1>13. ChkNt(C, g, t) = C
  BY <1>12 DEF ChkNt
<1>14. sys' = Irq(C, b, g)
  BY <1>4, <1>5, <1>6, <1>13
<1>15. C.late = sys.late /\ \A v \in Thread : C.wclk[v] => sys.wclk[v]
  BY <1>8, <1>12 DEF Advanced, SameTurn, SameWaits
<1>16. p2[t] = "lock" /\ \A v \in Thread \ {t} : p2[v] = pc[v]
  BY <1>1, <1>2, <1>5
<1>17. On(C.next) = On(P.next)
  BY <1>12
<1>18. Elsewhere(P, pc, arg, ended, {t}, C, p2, arg, ended)
  BY <1>12, <1>16, <1>17 DEF Elsewhere
<1>19. P.nt # None => P.nt \in Thread \ {t} /\ P.due[P.nt] \in Int
  BY <1>2, <1>9 DEF Systems, Deadlines
<1>20. WatchOK(C)
  BY <1>9, <1>12, <1>19 DEF Calm, WatchOK
<1>21. Sooner(P, C)
  BY <1>12, <1>19 DEF Sooner
<1>22. \A v \in Thread \ {t} : WaitOK(C, p2, v)
  BY <1>9, <1>12, <1>18, <1>21, SoonerWaits
<1>23. Local(C, p2, arg, ended, t) /\ Over(C, p2, arg, t)
  BY <1>12, <1>16, Apart DEF Local, RestOK, JoinOK, WaitOK, Over, InWait
<1>24. ~ C.wild /\ Ringed(C.next)
  BY <1>9, <1>12
<1>25. Before(C, p2, arg, ended)
  BY <1>8, <1>12, <1>18, <1>20, <1>22, <1>23, <1>24, OwnBefore
<1>26. Enters(p2, arg, ended)
  BY <1>14, <1>15, <1>25 DEF Enters
<1>27. ArgOK(p2, arg, t) /\ p2[t] # "start"
  BY <1>16 DEF ArgOK
<1>28. CallsOK'
  BY <1>1, <1>5, <1>7, <1>16, <1>27, CallsMove
<1> QED
  BY <1>1, <1>5, <1>26, <1>28

(* A started thread enters the list. *)
LEMMA StartTimely ==
  ASSUME Timely, NEW t \in Thread, StartLinks(t)
  PROVE  CallsOK' /\ Enters(pc', arg', ended')
<1>1. /\ Running(t) /\ pc[t] = "start" /\ UNCHANGED ended
      /\ pc' = [pc EXCEPT ![t] = "run"] /\ arg' = [arg EXCEPT ![t] = None]
  BY DEF StartLinks, At, Go
<1>2. /\ sys \in Systems /\ ~ sys.wild /\ Ringed(sys.next) /\ t \in On(sys.next)
      /\ sys.wchan[t] = None /\ sys.nt # t
      /\ pc \in [Thread -> Places] /\ arg \in [Thread -> Thread \cup Mutex \cup {None}]
  BY <1>1, Known
<1>3. Typed /\ CallsOK /\ Beyond(sys, pc, arg, ended)
  BY DEF Timely
<1>4. PICK P, p2, a2 : P = Present(sys) /\ p2 = pc' /\ a2 = arg'
  OBVIOUS
<1>5. Before(P, pc, arg, ended) /\ Advanced(sys, - sys.left, P)
  BY <1>1, <1>3, <1>4, PresentBefore
<1>6. /\ P \in Systems /\ P.next = sys.next /\ ~ P.wild /\ P.nt = sys.nt
      /\ P.wchan = sys.wchan /\ Calm(P, pc, arg, ended)
  BY <1>5 DEF Before, Advanced, SameLists, SameWaits
<1>7. PICK u : u = arg[t]
  OBVIOUS
<1>8. PICK nx : nx = [P.next EXCEPT ![u] = P.next[t], ![t] = u]
  OBVIOUS
<1>9. PICK S : S = [P EXCEPT !.next = nx]
  OBVIOUS
<1>10. PICK g \in Garbage : sys' = Irq(S, byte, g)
  BY <1>4, <1>7, <1>8, <1>9 DEF StartLinks, Sched
<1>11. u \in Thread \ On(sys.next) /\ Links(sys.next)
  <2>1. LinksOK
    BY <1>1, <1>3, RunningOn
  <2> QED
    BY <1>1, <1>2, <1>7, <2>1 DEF LinksOK, Systems, Links
<1>12. Links(nx) /\ Ringed(nx) /\ On(nx) = On(sys.next) \cup {u}
  BY <1>2, <1>6, <1>8, <1>11, RingStarts
<1>13. /\ S \in Systems /\ S.next = nx /\ ~ S.wild /\ S.wchan = P.wchan /\ S.wclk = P.wclk
       /\ S.due = P.due /\ S.nt = P.nt /\ S.late = P.late
  BY <1>6, <1>9, <1>12 DEF Systems, Links
<1>14. On(S.next) = On(P.next) \cup {u}
  BY <1>6, <1>12, <1>13
<1>15. /\ p2[t] = "run" /\ a2[t] = None
       /\ \A v \in Thread \ {t} : p2[v] = pc[v] /\ a2[v] = arg[v]
  BY <1>1, <1>2, <1>4
<1>16. t # u /\ p2[u] = "run" /\ pc[u] = "run"
  <2>1. t # u
    BY <1>2, <1>11
  <2>2. pc[u] = "run"
    BY <1>1, <1>3, <1>7 DEF CallsOK
  <2> QED
    BY <1>11, <1>15, <2>1, <2>2
<1>17. Elsewhere(P, pc, arg, ended, {t, u}, S, p2, a2, ended)
  BY <1>13, <1>14, <1>15 DEF Elsewhere
<1>18. P.nt # None => P.nt \in Thread /\ P.due[P.nt] \in Int
  BY <1>6 DEF Systems, Deadlines
<1>19. WatchOK(S)
  BY <1>6, <1>13, <1>14 DEF Calm, WatchOK
<1>20. Sooner(P, S)
  BY <1>13, <1>18 DEF Sooner
<1>21. \A v \in Thread \ {t, u} : WaitOK(S, p2, v)
  BY <1>6, <1>13, <1>17, <1>20, SoonerWaits
<1>22. S.wchan[t] = None /\ S.wchan[u] = None
  <2>1. RestOK(P, pc, arg, u)
    BY <1>6, <1>11 DEF Calm
  <2> QED
    BY <1>2, <1>6, <1>13, <1>16, <2>1 DEF RestOK
<1>23. \A x \in {t, u} : Local(S, p2, a2, ended, x) /\ Over(S, p2, a2, x)
  BY <1>15, <1>16, <1>22, Apart DEF Local, RestOK, JoinOK, WaitOK, Over, InWait
<1>24. ~ S.wild /\ Ringed(S.next)
  BY <1>12, <1>13
<1>25. Before(S, p2, a2, ended)
  BY <1>5, <1>13, <1>17, <1>19, <1>21, <1>23, <1>24, OwnBefore
<1>26. Enters(p2, a2, ended)
  <2>1. S.late = sys.late /\ S.wclk = sys.wclk
    BY <1>5, <1>13 DEF Advanced, SameTurn, SameWaits
  <2>2. sys' = Irq(S, byte, g)
    BY <1>10
  <2> QED
    BY <1>25, <2>1, <2>2 DEF Enters
<1>27. ArgOK(p2, a2, t) /\ p2[t] # "start"
  BY <1>15 DEF ArgOK
<1>28. CallsOK'
  BY <1>1, <1>3, <1>4, <1>15, <1>27, CallsMove
<1> QED
  BY <1>1, <1>4, <1>26, <1>28

(* A thread that is killed leaves the list, and the scheduler watches the  *)
(* next deadline if it watched that of the thread.                         *)
LEMMA KillTimely ==
  ASSUME Timely, NEW t \in Thread, KillUnlinks(t)
  PROVE  CallsOK' /\ Enters(pc', arg', ended')
<1>1. /\ Running(t) /\ pc[t] = "kill"
      /\ pc' = [pc EXCEPT ![t] = "run"] /\ arg' = [arg EXCEPT ![t] = None]
      /\ ended' = [v \in Thread |-> ended[v] \/ arg[v] = arg[t]]
  BY DEF KillUnlinks, At, Go
<1>2. /\ sys \in Systems /\ ~ sys.wild /\ Ringed(sys.next) /\ t \in On(sys.next)
      /\ sys.wchan[t] = None /\ sys.nt # t
      /\ pc \in [Thread -> Places] /\ arg \in [Thread -> Thread \cup Mutex \cup {None}]
  BY <1>1, Known
<1>3. Typed /\ CallsOK /\ Beyond(sys, pc, arg, ended)
  BY DEF Timely
<1>4. PICK P, p2, a2, e2 :
        P = Present(sys) /\ p2 = pc' /\ a2 = arg' /\ e2 = ended'
  OBVIOUS
<1>5. Before(P, pc, arg, ended) /\ Advanced(sys, - sys.left, P)
  BY <1>1, <1>3, <1>4, PresentBefore
<1>6. /\ P \in Systems /\ P.next = sys.next /\ ~ P.wild /\ P.nt = sys.nt
      /\ P.wchan = sys.wchan /\ Ringed(P.next) /\ Calm(P, pc, arg, ended)
  BY <1>5 DEF Before, Advanced, SameLists, SameWaits
<1>7. PICK u : u = arg[t]
  OBVIOUS
<1>8. PICK S : S = Killed(P, t, u)
  OBVIOUS
<1>9. PICK g \in Garbage : sys' = Irq(S, byte, g)
  BY <1>4, <1>7, <1>8 DEF KillUnlinks, Sched
<1>10. u \in Thread \ {Main} /\ Links(P.next)
  <2>1. LinksOK
    BY <1>1, <1>3, RunningOn
  <2> QED
    BY <1>1, <1>2, <1>6, <1>7, <2>1 DEF LinksOK, Systems, Links
<1>11. Unlinks(P, t, u, S)
  BY <1>6, <1>8, <1>10, KilledIs
<1>12. /\ p2[t] = "run" /\ a2[t] = None
       /\ \A v \in Thread \ {t} : p2[v] = pc[v] /\ a2[v] = arg[v]
       /\ \A v \in Thread : e2[v] = (ended[v] \/ arg[v] = u)
  BY <1>1, <1>2, <1>4, <1>7
<1>13. ASSUME NEW Q, Q.wchan = P.wchan
       PROVE  Local(Q, p2, a2, e2, t) /\ Over(Q, p2, a2, t)
  <2>1. Q.wchan[t] = None
    BY <1>2, <1>6, <1>13
  <2> QED
    BY <1>12, <2>1, Apart DEF Local, RestOK, JoinOK, WaitOK, Over, InWait
<1>14. P.nt # None => P.nt \in Thread /\ P.due[P.nt] \in Int
  BY <1>6 DEF Systems, Deadlines
<1>15. ASSUME u \notin On(P.next), S = P
       PROVE  Before(S, p2, a2, e2) /\ S.late = P.late /\ S.wclk = P.wclk
  <2>1. Elsewhere(P, pc, arg, ended, {t}, P, p2, a2, e2)
    BY <1>12 DEF Elsewhere
  <2>2. Sooner(P, P)
    BY <1>14 DEF Sooner
  <2>3. WatchOK(P)
    BY <1>6 DEF Calm
  <2>4. \A v \in Thread \ {t} : WaitOK(P, p2, v)
    BY <1>6, <2>1, <2>2, SoonerWaits
  <2> QED
    BY <1>5, <1>6, <1>13, <1>15, <2>1, <2>3, <2>4, OwnBefore
<1>16. ASSUME u \in On(P.next), NEW K, Unlinked(P, u, K),
              NEW Q \in Systems, SameLists(K, Q), SameWaits(K, Q), SameTurn(K, Q),
              Q.due = K.due
       PROVE  /\ Elsewhere(P, pc, arg, ended, {t}, Q, p2, a2, e2)
              /\ On(Q.next) = On(P.next) \ {u} /\ ~ Q.wild /\ Ringed(Q.next)
              /\ Q.wchan = P.wchan /\ Q.wclk = P.wclk /\ Q.due = P.due /\ Q.late = P.late
  <2>1. /\ Q.next = Without(P.next, u) /\ Q.wild = P.wild /\ Q.wchan = P.wchan
        /\ Q.wclk = P.wclk /\ Q.due = P.due /\ Q.late = P.late
    BY <1>16 DEF Unlinked, SameLists, SameWaits, SameTurn
  <2>2. PICK nx : nx = Q.next
    OBVIOUS
  <2>3. Ringed(nx) /\ On(nx) = On(P.next) \ {u}
    BY <1>6, <1>10, <1>16, <2>1, <2>2, RingKills
  <2>4. Ringed(Q.next) /\ On(Q.next) = On(P.next) \ {u} /\ ~ Q.wild
    BY <1>6, <2>1, <2>2, <2>3
  <2>5. Elsewhere(P, pc, arg, ended, {t}, Q, p2, a2, e2)
    BY <1>12, <2>1, <2>4 DEF Elsewhere
  <2> QED
    BY <2>1, <2>4, <2>5
<1>17. ASSUME u \in On(P.next), NEW K, Unlinked(P, u, K), P.nt # u, S = K
       PROVE  Before(S, p2, a2, e2) /\ S.late = P.late /\ S.wclk = P.wclk
  <2>1. K \in Systems /\ K.nt = P.nt
    BY <1>17 DEF Unlinked
  <2>2. SameLists(K, K) /\ SameWaits(K, K) /\ SameTurn(K, K)
    BY DEF SameLists, SameWaits, SameTurn
  <2>3. /\ Elsewhere(P, pc, arg, ended, {t}, K, p2, a2, e2)
        /\ On(K.next) = On(P.next) \ {u} /\ ~ K.wild /\ Ringed(K.next)
        /\ K.wchan = P.wchan /\ K.wclk = P.wclk /\ K.due = P.due /\ K.late = P.late
    BY <1>16, <1>17, <2>1, <2>2
  <2>4. Sooner(P, K)
    BY <1>14, <2>1, <2>3 DEF Sooner
  <2>5. WatchOK(K)
    BY <1>6, <1>17, <2>1, <2>3 DEF Calm, WatchOK
  <2>6. \A v \in Thread \ {t} : WaitOK(K, p2, v)
    BY <1>6, <2>1, <2>3, <2>4, SoonerWaits
  <2> QED
    BY <1>5, <1>13, <1>17, <2>1, <2>3, <2>5, <2>6, OwnBefore
<1>18. ASSUME u \in On(P.next), NEW K, Unlinked(P, u, K), P.nt = u, Fixed(K, S)
       PROVE  Before(S, p2, a2, e2) /\ S.late = P.late /\ S.wclk = P.wclk
  <2>1. PICK nt : Earliest(K, nt) /\ Watched(K, nt, S)
    BY <1>18 DEF Fixed
  <2>2. /\ S \in Systems /\ S.nt = nt
        /\ SameLists(K, S) /\ SameWaits(K, S) /\ SameTurn(K, S) /\ S.due = K.due
    BY <2>1 DEF Watched
  <2>3. /\ Elsewhere(P, pc, arg, ended, {t}, S, p2, a2, e2)
        /\ On(S.next) = On(P.next) \ {u} /\ ~ S.wild /\ Ringed(S.next)
        /\ S.wchan = P.wchan /\ S.wclk = P.wclk /\ S.due = P.due /\ S.late = P.late
    BY <1>16, <1>18, <2>2
  <2>4. K.next = S.next /\ K.wchan = S.wchan /\ K.wclk = S.wclk
    BY <2>2 DEF SameLists, SameWaits
  <2>5. \A v \in Thread : S.wclk[v] /\ S.wchan[v] # None => S.wchan[v] = Ones
    BY <1>6, <2>3 DEF Calm, RestOK
  <2>6. WatchOK(S)
    <3> SUFFICES ASSUME nt # None
                 PROVE  nt \in On(S.next) /\ S.wclk[nt] /\ S.wchan[nt] = Ones
      BY <2>2 DEF WatchOK
    <3>1. nt \in Timed(K)
      BY <2>1 DEF Earliest
    <3>2. nt \in Thread /\ S.next[nt] # None /\ S.wchan[nt] # None /\ S.wclk[nt]
      BY <2>4, <3>1 DEF Timed
    <3> QED
      BY <2>5, <3>2 DEF On
  <2>7. ASSUME NEW v \in Thread \ {t}
        PROVE  WaitOK(S, p2, v)
    <3> SUFFICES ASSUME v \in On(S.next), p2[v] = "waited", S.wchan[v] = Ones
                 PROVE  S.nt # None /\ S.due[S.nt] <= S.due[v]
      BY DEF WaitOK
    <3>1. RestOK(P, pc, arg, v) /\ pc[v] = "waited"
      BY <1>6, <1>12 DEF Calm
    <3>2. S.wclk[v]
      BY <2>3, <3>1 DEF RestOK
    <3>3. v \in Timed(K)
      BY <2>4, <3>2, Apart DEF Timed, On
    <3>4. nt \in Timed(K) /\ K.due[nt] <= K.due[v]
      BY <2>1, <3>3 DEF Earliest
    <3>5. nt # None
      BY <3>4, Apart DEF Timed
    <3> QED
      BY <2>2, <3>4, <3>5
  <2> QED
    BY <1>5, <1>13, <2>2, <2>3, <2>6, <2>7, OwnBefore
<1>19. Before(S, p2, a2, e2) /\ S.late = P.late /\ S.wclk = P.wclk
  <2>1. CASE u \notin On(P.next) /\ S = P
    BY <1>15, <2>1
  <2>2. CASE /\ u \in On(P.next)
             /\ \E K : /\ Unlinked(P, u, K)
                       /\ \/ P.nt # u /\ S = K
                          \/ P.nt = u /\ t \notin On(K.next) /\ S \in Systems /\ S.wild
                          \/ P.nt = u /\ t \in On(K.next) /\ Fixed(K, S)
    <3>1. PICK K : /\ Unlinked(P, u, K)
                   /\ \/ P.nt # u /\ S = K
                      \/ P.nt = u /\ t \notin On(K.next) /\ S \in Systems /\ S.wild
                      \/ P.nt = u /\ t \in On(K.next) /\ Fixed(K, S)
      BY <2>2
    <3>2. CASE P.nt # u /\ S = K
      BY <1>17, <2>2, <3>1, <3>2
    <3>3. CASE P.nt = u /\ t \notin On(K.next)
      <4>1. t # u /\ t \in On(P.next)
        BY <1>2, <1>6, <3>3
      <4>2. K \in Systems /\ SameLists(K, K) /\ SameWaits(K, K) /\ SameTurn(K, K)
        BY <3>1 DEF Unlinked, SameLists, SameWaits, SameTurn
      <4>3. On(K.next) = On(P.next) \ {u}
        BY <1>16, <2>2, <3>1, <4>2
      <4> QED
        BY <3>3, <4>1, <4>3
    <3>4. CASE P.nt = u /\ Fixed(K, S)
      BY <1>18, <2>2, <3>1, <3>4
    <3> QED
      BY <3>1, <3>2, <3>3, <3>4
  <2> QED
    BY <1>11, <2>1, <2>2 DEF Unlinks
<1>20. Enters(p2, a2, e2)
  <2>1. P.late = sys.late /\ P.wclk = sys.wclk
    BY <1>5 DEF Advanced, SameTurn, SameWaits
  <2> QED
    BY <1>9, <1>19, <2>1 DEF Enters
<1>21. ArgOK(p2, a2, t) /\ p2[t] # "start"
  BY <1>12 DEF ArgOK
<1>22. CallsOK'
  BY <1>1, <1>3, <1>4, <1>12, <1>21, CallsMove
<1> QED
  BY <1>4, <1>20, <1>22

(* gt_start, before the scheduler links the thread. *)
LEMMA CallStartTimely ==
  ASSUME Timely, NEW t \in Thread, NEW u \in Thread, CallStart(t, u)
  PROVE  CallsOK' /\ Beyond(sys', pc', arg', ended')
<1>1. /\ Running(t) /\ pc[t] = "run" /\ sys.next[u] = None
      /\ \A v \in Thread : pc[v] = "start" => arg[v] # u
      /\ sys' = [sys EXCEPT !.wchan[u] = None, !.wclk[u] = FALSE]
      /\ pc' = [pc EXCEPT ![t] = "start", ![u] = "run"]
      /\ arg' = [arg EXCEPT ![t] = u, ![u] = None]
      /\ UNCHANGED ended
  BY DEF CallStart, Call, At
<1>2. /\ sys \in Systems /\ t \in On(sys.next) /\ sys.wchan[t] = None /\ sys.nt # t
      /\ pc \in [Thread -> Places] /\ arg \in [Thread -> Thread \cup Mutex \cup {None}]
  BY <1>1, Known
<1>3. Typed /\ CallsOK /\ Beyond(sys, pc, arg, ended) /\ LinksOK
  BY <1>1, RunningOn DEF Timely
<1>4. PICK S, p2, a2 : S = sys' /\ p2 = pc' /\ a2 = arg'
  OBVIOUS
<1>5. u \notin On(sys.next) /\ t # u /\ None \in Channels
  BY <1>1, <1>2 DEF On, Channels
<1>6. /\ S \in Systems /\ SameLists(sys, S) /\ SameTurn(sys, S) /\ S.left = sys.left
      /\ S.nt = sys.nt /\ S.next = sys.next /\ S.due = sys.due /\ S.late = sys.late
      /\ S.wchan[u] = None /\ ~ S.wclk[u] /\ S.wchan[t] = None
      /\ \A v \in Thread \ {t, u} : S.wchan[v] = sys.wchan[v] /\ S.wclk[v] = sys.wclk[v]
  BY <1>1, <1>2, <1>4, <1>5 DEF Systems, SameLists, SameTurn
<1>7. /\ p2[t] = "start" /\ a2[t] = u /\ p2[u] = "run" /\ a2[u] = None
      /\ \A v \in Thread \ {t, u} : p2[v] = pc[v] /\ a2[v] = arg[v]
  BY <1>1, <1>2, <1>4, <1>5
<1>8. On(S.next) = On(sys.next)
  BY <1>6
<1>9. Elsewhere(sys, pc, arg, ended, {t, u}, S, p2, a2, ended)
  BY <1>6, <1>7, <1>8 DEF Elsewhere
<1>10. \A x \in {t, u} : Local(S, p2, a2, ended, x) /\ OverNow(S, p2, a2, x)
  BY <1>6, <1>7, Apart DEF Local, RestOK, JoinOK, WaitOK, OverNow, InWait
<1>11. sys.nt # u
  BY <1>3, <1>5, Apart DEF Beyond, Calm, WatchOK
<1>12. Beyond(S, p2, a2, ended)
  BY <1>1, <1>2, <1>3, <1>6, <1>7, <1>9, <1>10, <1>11, OwnBeyond
<1>13. ASSUME NEW v \in Thread
       PROVE  ArgOK(p2, a2, v) /\ (p2[v] = "start" => p2[a2[v]] = "run")
  <2>1. CASE v = t \/ v = u
    BY <1>7, <2>1 DEF ArgOK
  <2>2. CASE v \notin {t, u}
    <3>1. p2[v] = pc[v] /\ a2[v] = arg[v]
      BY <1>7, <2>2
    <3>2. ArgOK(p2, a2, v)
      BY <1>3, <3>1 DEF CallsOK, ArgOK
    <3>3. ASSUME pc[v] = "start"
          PROVE  p2[arg[v]] = "run"
      <4>1. arg[v] \in Thread \ On(sys.next) /\ arg[v] # u
        BY <1>1, <1>3, <3>3 DEF LinksOK
      <4>2. arg[v] \in Thread \ {t, u}
        BY <1>2, <4>1
      <4>3. pc[arg[v]] = "run"
        BY <1>3, <3>3 DEF CallsOK
      <4> QED
        BY <1>7, <4>2, <4>3
    <3> QED
      BY <3>1, <3>2, <3>3
  <2> QED
    BY <2>1, <2>2
<1>14. CallsOK'
  BY <1>4, <1>13 DEF CallsOK
<1> QED
  BY <1>1, <1>4, <1>12, <1>14

(* gt_wait stores its deadline, and the stack is used again after one. *)
LEMMA DeadlineTimely ==
  ASSUME Timely, NEW t \in Thread,
         StackReused(t) \/ \E d \in Delays : CallWait(t, d)
  PROVE  CallsOK' /\ Beyond(sys', pc', arg', ended')
<1>1. Running(t) /\ pc[t] = "run" /\ UNCHANGED <<arg, ended>>
  BY DEF StackReused, CallWait, Call, At
<1>2. /\ sys \in Systems /\ sys.wchan[t] = None /\ ArgOK(pc, arg, t)
      /\ pc \in [Thread -> Places]
  BY <1>1, Known
<1>3. Typed /\ CallsOK /\ Beyond(sys, pc, arg, ended)
  BY DEF Timely
<1>4. /\ pc' = pc \/ pc' = [pc EXCEPT ![t] = "wait"]
      /\ \E d \in Deadlines : sys' = [sys EXCEPT !.due[t] = d]
  <2>1. CASE StackReused(t)
    <3>1. Garbage \subseteq Deadlines
      BY Numbers DEF Garbage, Deadlines
    <3> QED
      BY <2>1, <3>1 DEF StackReused
  <2>2. ASSUME NEW d \in Delays, CallWait(t, d)
        PROVE  /\ pc' = [pc EXCEPT ![t] = "wait"]
               /\ \E x \in Deadlines : sys' = [sys EXCEPT !.due[t] = x]
    <3>1. d - sys.left \in Deadlines
      <4>1. d \in Nat
        BY ThreadsAssumption
      <4>2. sys.left \in 1 .. Wrap
        BY <1>2 DEF Systems
      <4> QED
        BY <4>1, <4>2, Numbers DEF Deadlines
    <3> QED
      BY <2>2, <3>1 DEF CallWait, Go
  <2> QED
    BY <2>1, <2>2
<1>5. PICK d \in Deadlines : sys' = [sys EXCEPT !.due[t] = d]
  BY <1>4
<1>6. PICK S, p2 : S = sys' /\ p2 = pc'
  OBVIOUS
<1>7. p2[t] \in {"run", "wait"} /\ \A v \in Thread \ {t} : p2[v] = pc[v]
  BY <1>1, <1>2, <1>4, <1>6
<1>8. Own(t, S, p2) /\ S.wchan[t] = None
  BY <1>2, <1>5, <1>6, <1>7 DEF Own, Systems, SameLists, SameTurn
<1>9. RestOK(S, p2, arg, t) /\ JoinOK(S, p2, arg, ended, t) /\ ~ InWait(p2, arg, t)
  BY <1>7, <1>8, Apart DEF RestOK, JoinOK, InWait
<1>10. Beyond(S, p2, arg, ended)
  BY <1>1, <1>3, <1>7, <1>8, <1>9, OwnStep
<1>11. ArgOK(p2, arg, t)
  BY <1>1, <1>2, <1>7 DEF ArgOK
<1>12. CallsOK'
  BY <1>1, <1>3, <1>6, <1>7, <1>11, CallsMove
<1> QED
  BY <1>1, <1>6, <1>10, <1>12

(* The calls that only move the thread on. *)
LEMMA CallsTimely ==
  ASSUME Timely, NEW t \in Thread,
         \/ \E u \in Thread : CallJoin(t, u) \/ CallKill(t, u)
         \/ \E m \in Mutex : CallLock(t, m) \/ CallTryLock(t, m) \/ CallUnlock(t, m)
         \/ \E c \in Cond : CallSignal(t, c)
         \/ \E c \in Cond, m \in Mutex : CallCondWait(t, c, m)
  PROVE  CallsOK' /\ Beyond(sys', pc', arg', ended')
<1>1. Running(t) /\ pc[t] = "run" /\ UNCHANGED sys
  BY DEF CallJoin, CallKill, CallLock, CallTryLock, CallUnlock, CallSignal,
         CallCondWait, Call, At
<1>2. /\ pc \in [Thread -> Places] /\ arg \in [Thread -> Thread \cup Mutex \cup {None}]
      /\ ended \in [Thread -> BOOLEAN] /\ ArgOK(pc, arg, t)
  BY <1>1, Known
<1>3. ASSUME NEW u \in Thread, CallJoin(t, u)
      PROVE  CallsOK' /\ Beyond(sys', pc', arg', ended')
  <2>1. /\ pc' = [pc EXCEPT ![t] = "join"] /\ arg' = [arg EXCEPT ![t] = u]
        /\ ended' = [ended EXCEPT ![t] = sys.next[u] = None]
    BY <1>3 DEF CallJoin, Go
  <2>2. /\ pc'[t] = "join" /\ arg'[t] = u /\ ended'[t] = (sys.next[u] = None)
        /\ \A v \in Thread \ {t} :
             pc'[v] = pc[v] /\ arg'[v] = arg[v] /\ ended'[v] = ended[v]
    BY <1>2, <2>1
  <2>3. ArgOK(pc', arg', t)
    BY <2>2, Apart DEF ArgOK
  <2>4. arg'[t] \in Thread \ On(sys.next) => ended'[t]
    BY <2>2 DEF On
  <2> QED
    BY <1>1, <2>2, <2>3, <2>4, MovesTimely
<1>4. ASSUME NEW u, NEW place \in {"kill", "lock", "cond"},
             pc' = [pc EXCEPT ![t] = place], arg' = [arg EXCEPT ![t] = u], UNCHANGED ended
      PROVE  CallsOK' /\ Beyond(sys', pc', arg', ended')
  <2>1. /\ pc'[t] = place
        /\ \A v \in Thread \ {t} :
             pc'[v] = pc[v] /\ arg'[v] = arg[v] /\ ended'[v] = ended[v]
    BY <1>2, <1>4
  <2>2. ArgOK(pc', arg', t)
    BY <1>4, <2>1 DEF ArgOK
  <2> QED
    BY <1>1, <1>4, <2>1, <2>2, MovesTimely
<1>5. ASSUME UNCHANGED <<pc, arg, ended>>
      PROVE  CallsOK' /\ Beyond(sys', pc', arg', ended')
  <2>1. ArgOK(pc', arg', t)
    BY <1>2, <1>5 DEF ArgOK
  <2> QED
    BY <1>1, <1>5, <2>1, MovesTimely
<1>6. ASSUME NEW u \in Thread, CallKill(t, u)
      PROVE  CallsOK' /\ Beyond(sys', pc', arg', ended')
  BY <1>4, <1>6 DEF CallKill, Go
<1>7. ASSUME NEW m \in Mutex, CallLock(t, m)
      PROVE  CallsOK' /\ Beyond(sys', pc', arg', ended')
  BY <1>4, <1>7 DEF CallLock, Go
<1>8. ASSUME NEW c \in Cond, NEW m \in Mutex, CallCondWait(t, c, m)
      PROVE  CallsOK' /\ Beyond(sys', pc', arg', ended')
  BY <1>4, <1>8 DEF CallCondWait, Go
<1>9. ASSUME NEW m \in Mutex, CallTryLock(t, m) \/ CallUnlock(t, m)
      PROVE  CallsOK' /\ Beyond(sys', pc', arg', ended')
  BY <1>5, <1>9 DEF CallTryLock, CallUnlock
<1>10. ASSUME NEW c \in Cond, CallSignal(t, c)
       PROVE  CallsOK' /\ Beyond(sys', pc', arg', ended')
  BY <1>5, <1>10 DEF CallSignal
<1> QED
  BY <1>3, <1>6, <1>7, <1>8, <1>9, <1>10

(* gt_yield. *)
LEMMA CallYieldTimely ==
  ASSUME Timely, NEW t \in Thread, CallYield(t)
  PROVE  CallsOK' /\ Enters(pc', arg', ended')
<1>1. Running(t) /\ pc[t] = "run" /\ Yield(t) /\ UNCHANGED <<pc, arg, ended>>
  BY DEF CallYield, Call, At
<1>2. Typed /\ CallsOK /\ Beyond(sys, pc, arg, ended)
  BY DEF Timely
<1>3. CallsOK'
  BY <1>1, <1>2 DEF CallsOK, ArgOK
<1>4. Enters(pc, arg, ended)
  BY <1>1, <1>2, YieldEnters
<1> QED
  BY <1>1, <1>3, <1>4

(* The step stays outside of the scheduler's loop. *)
Stays ==
  /\ Beyond(sys', pc', arg', ended') /\ sys'.late = sys.late
  /\ \A v \in Thread : sys'.wclk[v] => sys.wclk[v] \/ pc[v] = "wait"

(* Every step of the library keeps the invariant. *)
LEMMA LibraryTimely ==
  ASSUME Timely, NEW t \in Thread, Library(t)
  PROVE  CallsOK' /\ (Enters(pc', arg', ended') \/ Stays)
<1>1. sys \in Systems
  BY DEF Timely, Typed, SchedulerOK, Settled
<1>2. CASE JoinClearsWclk(t) \/ JoinSetsWchan(t) \/ WaitSetsWclk(t) \/ WaitSetsWchan(t)
  <2>1. CallsOK' /\ Beyond(sys', pc', arg', ended')
    BY <1>2, WaitsTimely
  <2>2. PICK S : S = sys'
    OBVIOUS
  <2>3. S.late = sys.late /\ \A v \in Thread : S.wclk[v] => sys.wclk[v] \/ pc[v] = "wait"
    <3>1. CASE JoinClearsWclk(t)
      BY <1>1, <2>2, <3>1 DEF JoinClearsWclk, Systems
    <3>2. CASE JoinSetsWchan(t)
      BY <1>1, <2>2, <3>2 DEF JoinSetsWchan, Systems
    <3>3. CASE WaitSetsWclk(t)
      <4>1. pc[t] = "wait" /\ S = [sys EXCEPT !.wclk[t] = TRUE]
        BY <2>2, <3>3 DEF WaitSetsWclk, At
      <4> QED
        BY <1>1, <4>1 DEF Systems
    <3>4. CASE WaitSetsWchan(t)
      BY <1>1, <2>2, <3>4 DEF WaitSetsWchan, Systems
    <3> QED
      BY <1>2, <3>1, <3>2, <3>3, <3>4
  <2> QED
    BY <2>1, <2>2, <2>3 DEF Stays
<1>3. CASE WaitReturns(t) \/ LockTakes(t) \/ LockWaits(t) \/ CondRearms(t)
  <2>1. CallsOK' /\ Beyond(sys', pc', arg', ended')
    BY <1>3, ReturnsTimely
  <2>2. UNCHANGED sys
    BY <1>3 DEF WaitReturns, LockTakes, LockWaits, CondRearms
  <2> QED
    BY <2>1, <2>2 DEF Stays
<1>4. CASE WaitYields(t)
  BY <1>4, YieldsTimely
<1>5. CASE CondWaits(t)
  BY <1>5, CondTimely
<1>6. CASE StartLinks(t)
  BY <1>6, StartTimely
<1>7. CASE KillUnlinks(t)
  BY <1>7, KillTimely
<1> QED
  BY <1>2, <1>3, <1>4, <1>5, <1>6, <1>7 DEF Library

(* Every call keeps the invariant, but gt_cond_timedwait. *)
LEMMA ProgramTimely ==
  ASSUME Untimed, Timely, NEW t \in Thread, Program(t)
  PROVE  CallsOK' /\ (Enters(pc', arg', ended') \/ Stays)
<1>1. sys \in Systems
  BY DEF Timely, Typed, SchedulerOK, Settled
<1>2. CASE CallYield(t)
  BY <1>2, CallYieldTimely
<1>3. ASSUME NEW u \in Thread, CallStart(t, u)
      PROVE  CallsOK' /\ Stays
  <2>1. CallsOK' /\ Beyond(sys', pc', arg', ended')
    BY <1>3, CallStartTimely
  <2>2. PICK S : S = sys'
    OBVIOUS
  <2>3. S = [sys EXCEPT !.wchan[u] = None, !.wclk[u] = FALSE]
    BY <1>3, <2>2 DEF CallStart
  <2>4. S.late = sys.late /\ \A v \in Thread : S.wclk[v] => sys.wclk[v]
    BY <1>1, <2>3 DEF Systems
  <2> QED
    BY <2>1, <2>2, <2>4 DEF Stays
<1>4. CASE StackReused(t) \/ \E d \in Delays : CallWait(t, d)
  <2>1. CallsOK' /\ Beyond(sys', pc', arg', ended')
    BY <1>4, DeadlineTimely
  <2>2. PICK S : S = sys'
    OBVIOUS
  <2>3. \E d : S = [sys EXCEPT !.due[t] = d]
    BY <1>4, <2>2 DEF StackReused, CallWait
  <2>4. S.late = sys.late /\ S.wclk = sys.wclk
    BY <1>1, <2>3 DEF Systems
  <2> QED
    BY <2>1, <2>2, <2>4 DEF Stays
<1>5. CASE \/ \E u \in Thread : CallJoin(t, u) \/ CallKill(t, u)
           \/ \E m \in Mutex : CallLock(t, m) \/ CallTryLock(t, m) \/ CallUnlock(t, m)
           \/ \E c \in Cond : CallSignal(t, c)
           \/ \E c \in Cond, m \in Mutex : CallCondWait(t, c, m)
  <2>1. CallsOK' /\ Beyond(sys', pc', arg', ended')
    BY <1>5, CallsTimely
  <2>2. UNCHANGED sys
    BY <1>5 DEF CallJoin, CallKill, CallLock, CallTryLock, CallUnlock, CallSignal,
                CallCondWait
  <2> QED
    BY <2>1, <2>2 DEF Stays
<1>6. ~ \E c \in Cond, m \in Mutex, d \in Delays : CallCondTimedWait(t, c, m, d)
  BY DEF Untimed, CallCondTimedWait, Call
<1> QED
  BY <1>2, <1>3, <1>4, <1>5, <1>6 DEF Program

(* Every step keeps the invariant. *)
LEMMA StepTimely ==
  ASSUME Untimed, Timely, [Next]_vars
  PROVE  CallsOK' /\ (Enters(pc', arg', ended') \/ Stays)
<1>1. Typed /\ CallsOK /\ Beyond(sys, pc, arg, ended)
  BY DEF Timely
<1>2. CASE Tick
  <2>1. UNCHANGED <<pc, arg, ended>>
    BY <1>2 DEF Tick
  <2>2. CallsOK'
    BY <1>1, <2>1 DEF CallsOK, ArgOK
  <2>3. \/ Enters(pc, arg, ended)
        \/ /\ Beyond(sys', pc, arg, ended)
           /\ sys'.late = sys.late /\ sys'.wclk = sys.wclk
    BY <1>1, <1>2, TickEnters
  <2> QED
    BY <2>1, <2>2, <2>3 DEF Stays
<1>3. CASE UNCHANGED vars
  <2>1. UNCHANGED <<sys, pc, arg, ended>>
    BY <1>3 DEF vars
  <2>2. CallsOK'
    BY <1>1, <2>1 DEF CallsOK, ArgOK
  <2> QED
    BY <1>1, <2>1, <2>2 DEF Stays
<1> QED
  BY <1>2, <1>3, LibraryTimely, ProgramTimely DEF Next

(* At the start nobody waits. *)
LEMMA TimelyInit == Init => Timely
<1> SUFFICES ASSUME Init PROVE Timely
  OBVIOUS
<1>1. Typed
  BY TypedInit
<1>2. /\ \A t \in Thread : /\ sys.wchan[t] = None /\ ~ sys.wclk[t]
                           /\ pc[t] \in {"run", "new"} /\ arg[t] = None
      /\ sys.nt = None /\ ~ sys.idle /\ ~ sys.wild /\ sys.ct \in Thread
  BY Apart DEF Init
<1>3. CallsOK
  BY <1>2 DEF CallsOK, ArgOK
<1>4. \A t \in Thread : /\ RestOK(sys, pc, arg, t) /\ JoinOK(sys, pc, arg, ended, t)
                        /\ WaitOK(sys, pc, t) /\ OverNow(sys, pc, arg, t)
  BY <1>2, Apart DEF RestOK, JoinOK, WaitOK, OverNow, InWait
<1>5. WatchOK(sys) /\ AwakeOK(sys, pc) /\ AsleepOK(sys)
  BY <1>2 DEF WatchOK, AwakeOK, AsleepOK
<1> QED
  BY <1>1, <1>2, <1>3, <1>4, <1>5 DEF Timely, Beyond, Calm

(* The invariant is inductive ... *)
LEMMA TimelyNext ==
  ASSUME Untimed, Timely, [Next]_vars
  PROVE  Timely'
<1>1. Typed'
  BY TypedNext DEF Timely
<1>2. CallsOK' /\ (Enters(pc', arg', ended') \/ Stays)
  BY StepTimely
<1>3. PICK p2, a2, e2 : p2 = pc' /\ a2 = arg' /\ e2 = ended'
  OBVIOUS
<1>4. CASE Enters(pc', arg', ended')
  <2>1. Beyond(sys', p2, a2, e2)
    BY <1>3, <1>4, EntersBeyond
  <2> QED
    BY <1>1, <1>2, <1>3, <2>1 DEF Timely
<1>5. CASE Stays
  BY <1>1, <1>2, <1>5 DEF Timely, Stays
<1> QED
  BY <1>2, <1>4, <1>5

(* ... and holds for ever. *)
LEMMA TimelyAlways ==
  ASSUME Untimed
  PROVE  Spec => []Timely
<1>1. Init => Timely
  BY TimelyInit
<1>2. Timely /\ [Next]_vars => Timely'
  BY TimelyNext
<1> QED
  BY <1>1, <1>2, PTL DEF Spec

(* The scheduler never follows the links of a dead thread. *)
THEOREM NeverGoesWild ==
  ASSUME Untimed
  PROVE  Spec => []NeverWild
<1>1. Timely => NeverWild
  BY DEF Timely, Beyond, NeverWild
<1> QED
  BY <1>1, TimelyAlways, PTL

(* The thread that the scheduler watches waits for a deadline, and no      *)
(* thread in gt_wait for an earlier one, but one that an interrupt stopped *)
(* between the store of wchan and the yield (NotYetSeen).                  *)
THEOREM EarliestWatched ==
  ASSUME Untimed
  PROVE  Spec => []WatchesEarliest
<1>1. Timely => WatchesEarliest
  <2> SUFFICES ASSUME Timely PROVE WatchesEarliest
    OBVIOUS
  <2>1. Started = On(sys.next)
    BY DEF Started, On
  <2>2. WatchOK(sys) /\ \A t \in Thread : WaitOK(sys, pc, t)
    BY DEF Timely, Beyond, Calm
  <2>3. \A t \in Started : t \in Thread
    BY DEF Started
  <2>4. \A t \in Thread : RestOK(sys, pc, arg, t)
    BY DEF Timely, Beyond, Calm
  <2> QED
    BY <2>1, <2>2, <2>3, <2>4 DEF WatchOK, WaitOK, RestOK, InWait, NotYetSeen, WatchesEarliest
<1> QED
  BY <1>1, TimelyAlways, PTL

(* gt_join returns only after the thread has terminated. *)
THEOREM JoinsWait ==
  ASSUME Untimed
  PROVE  Spec => []JoinWaits
<1>1. Timely => JoinWaits
  <2> SUFFICES ASSUME Timely, NEW t \in Thread, At(t, "joined")
               PROVE  ended[t]
    BY DEF JoinWaits
  <2>1. Running(t) /\ pc[t] = "joined"
    BY DEF At
  <2>2. sys.wchan[t] = None /\ JoinOK(sys, pc, arg, ended, t) /\ ArgOK(pc, arg, t)
    BY <2>1, Known
  <2>3. arg[t] \in Thread /\ arg[t] # None
    BY <2>1, <2>2, Apart DEF ArgOK
  <2> QED
    BY <2>1, <2>2, <2>3 DEF JoinOK
<1> QED
  BY <1>1, TimelyAlways, PTL

(* gt_wait does not return early while the clock is exact. *)
THEOREM WaitsLongEnough ==
  ASSUME Untimed
  PROVE  Spec => [](ClockExact => NeverEarly)
<1>1. Timely => (ClockExact => NeverEarly)
  <2> SUFFICES ASSUME Timely, ~ sys.late, NEW t \in Thread, At(t, "waited")
               PROVE  sys.due[t] + sys.left <= 0
    BY DEF ClockExact, NeverEarly
  <2>1. Running(t) /\ pc[t] = "waited"
    BY DEF At
  <2>2. sys.wchan[t] = None /\ t \in On(sys.next)
    BY <2>1, Known
  <2>3. OverNow(sys, pc, arg, t)
    BY DEF Timely, Beyond
  <2> QED
    BY <2>1, <2>2, <2>3 DEF OverNow, InWait
<1> QED
  BY <1>1, TimelyAlways, PTL

-----------------------------------------------------------------------------
(* Programs in which one thread at most waits for the clock. *)

(* Only who calls gt_wait ever has a deadline, and no interrupt was late.  *)
Alone ==
  /\ ~ sys.late
  /\ \A t \in Thread : sys.wclk[t] \/ pc[t] = "wait" => "wait" \in Calls[t]

(* No slice is empty when there are not two deadlines. *)
LEMMA EntersExact ==
  ASSUME SingleWaiter, Alone, NEW p, NEW a, NEW e, Enters(p, a, e)
  PROVE  ~ sys'.late /\ \A t \in Thread : sys'.wclk[t] => sys.wclk[t]
<1>1. PICK S, b : \E g \in Garbage :
        /\ Before(S, p, a, e) /\ S.late = sys.late
        /\ \A v \in Thread : S.wclk[v] => sys.wclk[v]
        /\ sys' = Irq(S, b, g)
  BY DEF Enters
<1>2. PICK g \in Garbage :
        /\ Before(S, p, a, e) /\ S.late = sys.late
        /\ \A v \in Thread : S.wclk[v] => sys.wclk[v]
        /\ sys' = Irq(S, b, g)
  BY <1>1
<1>3. PICK R : R = sys'
  OBVIOUS
<1>4. g \in Int /\ S \in Systems /\ ~ S.wild /\ Ringed(S.next) /\ WatchOK(S) /\ ~ S.late
  BY <1>2, GarbageInt DEF Before, Calm, Alone
<1>5. Irqed(S, b, g, R)
  BY <1>2, <1>3, <1>4, IrqIs
<1>6. \A t, u \in Thread : S.wclk[t] /\ S.wclk[u] => t = u
  BY <1>2 DEF SingleWaiter, Alone
<1>7. CASE Idled(S, b, R)
  BY <1>2, <1>3, <1>4, <1>7 DEF Idled, SameWaits
<1>8. CASE NonePast(S, g) /\ Resumed(S, b, g, R)
  <2>1. PICK u \in On(S.next) : Switched(S, Slice(S, g), u, R)
    BY <1>8 DEF Resumed
  <2>2. Slice(S, g) # 0
    BY <1>4, <1>8, SliceIs
  <2>3. ~ R.late /\ R.wclk = S.wclk
    BY <1>4, <2>1, <2>2 DEF Switched
  <2> QED
    BY <1>2, <1>3, <2>3
<1>9. CASE TimedOut(S, g, R)
  <2>1. S.nt \in Thread /\ S.wclk[S.nt] /\ S.nt \in On(S.next)
    BY <1>4, <1>9, Apart DEF TimedOut, WatchOK
  <2>2. PICK C, F : /\ Cleared(S, S.nt, C) /\ Fixed(C, F)
                    /\ Switched(F, Slice(F, g), S.nt, R)
    BY <1>9, <2>1 DEF TimedOut
  <2>3. \A t \in Thread : C.wclk[t] = IF t = S.nt THEN FALSE ELSE S.wclk[t]
    BY <1>4, <2>1, <2>2 DEF Cleared, Systems
  <2>4. Timed(C) = {}
    BY <1>6, <2>1, <2>3 DEF Timed
  <2>5. F.nt = None /\ F.wclk = C.wclk /\ F.late = S.late /\ F \in Systems
    BY <2>2, <2>4 DEF Fixed, Earliest, Watched, Cleared, SameWaits, SameTurn
  <2>6. Slice(F, g) # 0
    BY <1>4, <2>5, SliceIs DEF NonePast
  <2>7. ~ R.late /\ R.wclk = C.wclk
    BY <1>4, <2>2, <2>5, <2>6 DEF Switched
  <2> QED
    BY <1>2, <1>3, <2>3, <2>7
<1> QED
  BY <1>4, <1>5, <1>7, <1>8, <1>9 DEF Irqed

(* Only the threads that may call gt_wait are in it. *)
LEMMA WaitCalled ==
  ASSUME Typed, [Next]_vars, NEW v \in Thread, pc'[v] = "wait", pc[v] # "wait"
  PROVE  "wait" \in Calls[v]
<1>1. pc \in [Thread -> Places]
  BY DEF Typed, Inv, ObjectsOK
<1>2. \A t \in Thread : ~ Library(t)
  <2> SUFFICES ASSUME NEW t \in Thread, Library(t) PROVE FALSE
    OBVIOUS
  <2>1. \E place \in {"join2", "yield", "lock", "joined", "waited", "run", "rearm", "join",
                      "wait2"} : pc' = [pc EXCEPT ![t] = place]
    <3>1. CASE WaitYields(t)
      <4>1. (CASE arg[t] \in Mutex -> "lock"
               [] arg[t] \in Thread -> "joined"
               [] OTHER -> "waited") \in {"lock", "joined", "waited"}
        OBVIOUS
      <4> QED
        BY <3>1, <4>1 DEF WaitYields, Go
    <3>2. CASE LockTakes(t)
      BY <3>2 DEF LockTakes, Go
    <3>3. CASE ~ WaitYields(t) /\ ~ LockTakes(t)
      BY <3>3 DEF Library, JoinClearsWclk, JoinSetsWchan, WaitReturns,
                  LockWaits, CondWaits, CondRearms, WaitSetsWclk, WaitSetsWchan, StartLinks,
                  KillUnlinks, Go
    <3> QED
      BY <3>1, <3>2, <3>3
  <2> QED
    BY <1>1, <2>1
<1>3. ~ Tick /\ ~ UNCHANGED vars
  BY DEF Tick, vars
<1>4. PICK t \in Thread : Program(t)
  BY <1>2, <1>3 DEF Next
<1>5. PICK d \in Delays : CallWait(t, d)
  <2>1. ASSUME NEW u \in Thread, CallStart(t, u)
        PROVE  FALSE
    BY <1>1, <2>1 DEF CallStart
  <2>2. ASSUME NEW place \in {"join", "kill", "lock", "cond", "timed"},
               pc' = [pc EXCEPT ![t] = place]
        PROVE  FALSE
    BY <1>1, <2>2
  <2>3. pc' # pc
    OBVIOUS
  <2> QED
    BY <1>4, <2>1, <2>2, <2>3
    DEF Program, CallYield, StackReused, CallJoin, CallKill, CallLock, CallTryLock,
        CallUnlock, CallSignal, CallCondWait, CallCondTimedWait, Go
<1>6. pc' = [pc EXCEPT ![t] = "wait"] /\ "wait" \in Calls[t]
  BY <1>5 DEF CallWait, Call, Go
<1> QED
  BY <1>1, <1>6

(* At the start there is no deadline. *)
LEMMA AloneInit == Init => Alone
BY DEF Init, Alone

(* Nobody else ever gets a deadline, and no slice is empty. *)
LEMMA AloneNext ==
  ASSUME Untimed, SingleWaiter, Timely, Alone, [Next]_vars
  PROVE  Alone'
<1>1. Enters(pc', arg', ended') \/ Stays
  BY StepTimely
<1>2. ~ sys'.late /\ \A t \in Thread : sys'.wclk[t] => sys.wclk[t] \/ pc[t] = "wait"
  <2>1. CASE Stays
    BY <2>1 DEF Stays, Alone
  <2>2. CASE Enters(pc', arg', ended')
    <3>1. PICK p2, a2, e2 : p2 = pc' /\ a2 = arg' /\ e2 = ended'
      OBVIOUS
    <3>2. Enters(p2, a2, e2)
      BY <2>2, <3>1
    <3> QED
      BY <3>2, EntersExact
  <2> QED
    BY <1>1, <2>1, <2>2
<1>3. \A t \in Thread : pc'[t] = "wait" => "wait" \in Calls[t]
  <2>1. Typed
    BY DEF Timely
  <2> QED
    BY <2>1, WaitCalled DEF Alone
<1> QED
  BY <1>2, <1>3 DEF Alone

(* The clock of the threads is exact. *)
THEOREM ClockStaysExact ==
  ASSUME Untimed, SingleWaiter
  PROVE  Spec => [](ClockExact /\ NeverEarly)
<1>1. Init => Alone
  BY AloneInit
<1>2. Timely /\ Alone /\ [Next]_vars => Alone'
  BY AloneNext
<1>3. Spec => []Timely
  BY TimelyAlways
<1>4. Spec => [](ClockExact => NeverEarly)
  BY WaitsLongEnough
<1>5. Alone => ClockExact
  BY DEF Alone, ClockExact
<1> QED
  BY <1>1, <1>2, <1>3, <1>4, <1>5, PTL DEF Spec

=============================================================================
