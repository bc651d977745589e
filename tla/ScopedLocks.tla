---------------------------- MODULE ScopedLocks ----------------------------
(***************************************************************************)
(* ScopedLockMultiple of Threads.cpp: three mutexes are taken in rounds, in *)
(* each of which one is waited for and the others are tried; what a thread  *)
(* has in its state array, and what it must give back, is part of the       *)
(* model.  A thread may come with one of the mutexes locked, as the owner   *)
(* bits say.  The mutexes are recursive, but nothing here takes one twice.  *)
(***************************************************************************)
EXTENDS Integers

CONSTANTS
  Lockers,
  Nobody

ASSUME LockerAssumption == Nobody \notin Lockers

VARIABLES
  holder,   \* thread that each mutex is locked by
  locks     \* the ScopedLockMultiple of each thread, and where it is

lockVars == <<holder, locks>>

Mutexes == 0 .. 2

NoLocks == [pc |-> "out", round |-> 1, state |-> {}, own |-> {}]

LockState ==
  [pc : {"out", "owner", "lock", "try1", "try2", "undo1", "undo2", "locked", "restore"},
   round : 1 .. 3, state : SUBSET Mutexes, own : SUBSET Mutexes]

LocksInit ==
  holder = [m \in Mutexes |-> Nobody] /\ locks = [t \in Lockers |-> NoLocks]

-----------------------------------------------------------------------------
\* The rounds of _lockAll: the mutex that is waited for, the two that are
\* tried, and those that are unlocked when one of them is not free.
Waited == [r \in 1 .. 3 |-> r - 1]
Tried == [r \in 1 .. 3 |-> CASE r = 1 -> <<1, 2>> [] r = 2 -> <<0, 2>> [] OTHER -> <<0, 1>>]

\* Fault: the mutex that was waited for stays locked for the next round.
UndoneOne == [r \in 1 .. 3 |-> CASE r = 1 -> <<1, 1>> [] r = 2 -> <<0, 1>> [] OTHER -> <<0, 2>>]

Undone == [r \in 1 .. 3 |-> CASE r = 1 -> <<1, 0>> [] r = 2 -> <<0, 1>> [] OTHER -> <<0, 2>>]

NextRound(r) == IF r = 3 THEN 1 ELSE r + 1

At(t, pc) == locks[t].pc = pc
Free(m) == holder[m] = Nobody
Go(t, pc) == [locks[t] EXCEPT !.pc = pc]
Becomes(t, lock) == locks' = [locks EXCEPT ![t] = lock]

\* The thread takes or gives back a mutex, and notes it.
Takes(t, m, pc) ==
  /\ Free(m)
  /\ holder' = [holder EXCEPT ![m] = t]
  /\ Becomes(t, [Go(t, pc) EXCEPT !.state = @ \cup {m}])

Keeps(t, pc) == Becomes(t, Go(t, pc)) /\ UNCHANGED holder

-----------------------------------------------------------------------------
\* The caller decides which mutex it locks first by itself, if any.
Call(t) ==
  /\ At(t, "out")
  /\ \/ Becomes(t, [NoLocks EXCEPT !.pc = "lock"]) /\ UNCHANGED holder
     \/ \E m \in Mutexes :
          /\ Becomes(t, [pc |-> "owner", round |-> 1, state |-> {}, own |-> {m}])
          /\ UNCHANGED holder

\* The caller's own lock; _init saves it as the state.
LockOwn(t) ==
  /\ At(t, "owner")
  /\ \E m \in locks[t].own : Takes(t, m, "lock")

\* _lock: wait, unless it is ours already.
LockFirst(t) ==
  LET m == Waited[locks[t].round]
  IN /\ At(t, "lock")
     /\ IF m \in locks[t].state THEN Keeps(t, "try1") ELSE Takes(t, m, "try1")

\* _trylock of the other two; the first that is not free ends the round.
Try(t, pc, n, then) ==
  LET m == Tried[locks[t].round][n]
  IN /\ At(t, pc)
     /\ CASE m \in locks[t].state -> Keeps(t, then)
          [] m \notin locks[t].state /\ Free(m) -> Takes(t, m, then)
          [] OTHER -> Keeps(t, "undo1")

\* _unlock of what the round took, the caller's own mutex included.
GiveBack(t, m, lock) ==
  /\ holder' = IF m \in locks[t].state THEN [holder EXCEPT ![m] = Nobody] ELSE holder
  /\ Becomes(t, [lock EXCEPT !.state = @ \ {m}])

UndoFirst(t) == At(t, "undo1") /\ GiveBack(t, Undone[locks[t].round][1], Go(t, "undo2"))

UndoSecond(t) ==
  /\ At(t, "undo2")
  /\ GiveBack(t, Undone[locks[t].round][2],
              [Go(t, "lock") EXCEPT !.round = NextRound(locks[t].round)])

\* The destructor: _restoreState unlocks what the caller did not own, one
\* after the other; it finds nothing to lock again.
Leave(t) == At(t, "locked") /\ Keeps(t, "restore")

Restore(t) ==
  LET others == locks[t].state \ locks[t].own
  IN /\ At(t, "restore")
     /\ \E m \in others : (\A k \in others : m <= k) /\ GiveBack(t, m, locks[t])

\* The caller unlocks what it had locked itself.
UnlockOwn(t) ==
  /\ At(t, "restore") /\ locks[t].state \subseteq locks[t].own
  /\ holder' = [m \in Mutexes |-> IF m \in locks[t].own THEN Nobody ELSE holder[m]]
  /\ Becomes(t, NoLocks)

LocksNext ==
  \E t \in Lockers :
    \/ Call(t) \/ LockOwn(t) \/ LockFirst(t)
    \/ Try(t, "try1", 1, "try2") \/ Try(t, "try2", 2, "locked")
    \/ UndoFirst(t) \/ UndoSecond(t) \/ Leave(t) \/ Restore(t) \/ UnlockOwn(t)

LocksSpec == LocksInit /\ [][LocksNext]_lockVars

-----------------------------------------------------------------------------
\* The mutex that a thread waits for, as a set of none or one.
WaitsFor(t) ==
  CASE At(t, "owner") -> locks[t].own
    [] At(t, "lock") -> {Waited[locks[t].round]} \ locks[t].state
    [] OTHER -> {}

\* No set of threads waits for each other: each of them for a mutex that
\* another one of them holds.  Lockers that use the same mutexes in the same
\* order do not come to this, whichever of them they hold on entry
\* (ScopedLockMultiple, "the methodology to avoid deadlock", Threads.h).
NoDeadlock ==
  \A D \in SUBSET Lockers :
    (\A t \in D : \E m \in WaitsFor(t) : holder[m] \in D) => D = {}

\* A thread that comes out of _lockAll has locked all three, and its notes
\* say what it holds throughout: it never unlocks another one's mutex.
AllLocked ==
  \A t \in Lockers :
    /\ \A m \in Mutexes : m \in locks[t].state <=> holder[m] = t
    /\ At(t, "locked") => locks[t].state = Mutexes
=============================================================================
