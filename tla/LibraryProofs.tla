---------------------------- MODULE LibraryProofs ----------------------------
(***************************************************************************)
(* What holds of the library parts for every number of threads, objects,    *)
(* keys and nodes: ScopedLocks does not deadlock, memory has one owner in   *)
(* VectorMemory, frame clocks compare as time in GsmTimeWalk, the linked    *)
(* list of PointerFifo is a FIFO, and no wake-up is lost in the containers  *)
(* of Interthread.                                                          *)
(***************************************************************************)
EXTENDS ScopedLocks, VectorMemory, GsmTimeWalk, PointerFifo, Interthread, GsmTimeProofs,
        SequenceTheorems, FiniteSetTheorems

-----------------------------------------------------------------------------
(* ScopedLocks.                                                             *)

LocksTypeOK ==
  /\ holder \in [Mutexes -> Lockers \cup {Nobody}]
  /\ locks \in [Lockers -> LockState]

\* Where a thread is in its rounds says what it may have locked.
Rounds ==
  \A t \in Lockers :
    /\ At(t, "out") \/ At(t, "owner") => locks[t].state = {}
    /\ At(t, "owner") => locks[t].round = 1
    /\ At(t, "lock") => \A m \in locks[t].state : m >= Waited[locks[t].round]
    /\ At(t, "try1") \/ At(t, "try2") => Waited[locks[t].round] \in locks[t].state
    /\ At(t, "try2") => Tried[locks[t].round][1] \in locks[t].state
    /\ At(t, "undo2") => Undone[locks[t].round][1] \notin locks[t].state
    /\ At(t, "restore") => locks[t].own \subseteq locks[t].state

LocksInv == LocksTypeOK /\ AllLocked /\ Rounds

LEMMA RoundTables ==
  \A r \in 1 .. 3 :
    /\ Waited[r] \in Mutexes /\ NextRound(r) \in 1 .. 3
    /\ Tried[r][1] \in Mutexes /\ Tried[r][2] \in Mutexes
    /\ Undone[r][1] \in Mutexes /\ Undone[r][2] \in Mutexes
    /\ \A m \in Mutexes : m \in {Waited[r], Tried[r][1], Tried[r][2]}
    /\ \A m \in Mutexes \ {Undone[r][1], Undone[r][2]} : m >= Waited[NextRound(r)]
<1> SUFFICES ASSUME NEW r \in 1 .. 3
             PROVE  /\ Waited[r] \in Mutexes /\ NextRound(r) \in 1 .. 3
                    /\ Tried[r][1] \in Mutexes /\ Tried[r][2] \in Mutexes
                    /\ Undone[r][1] \in Mutexes /\ Undone[r][2] \in Mutexes
                    /\ \A m \in Mutexes : m \in {Waited[r], Tried[r][1], Tried[r][2]}
                    /\ \A m \in Mutexes \ {Undone[r][1], Undone[r][2]} : m >= Waited[NextRound(r)]
  OBVIOUS
<1> USE DEF Mutexes, NextRound, Waited, Tried, Undone
<1>1. CASE r = 1  BY <1>1
<1>2. CASE r = 2  BY <1>2
<1>3. CASE r = 3  BY <1>3
<1>4. QED  BY <1>1, <1>2, <1>3

LEMMA InitLocksInv == LocksInit => LocksInv
  BY LockerAssumption DEF LocksInit, LocksInv, LocksTypeOK, AllLocked, Rounds, NoLocks, LockState, At,
     Mutexes

\* A step of thread t that leaves it with the notes "lock" keeps the
\* invariant if the notes say what t holds, and t took nothing from others.
LEMMA StepOfOne ==
  ASSUME LocksInv, NEW t \in Lockers, NEW lock \in LockState, Becomes(t, lock),
         holder' \in [Mutexes -> Lockers \cup {Nobody}],
         \A m \in Mutexes : m \in lock.state <=> holder'[m] = t,
         \A m \in Mutexes : \A u \in Lockers \ {t} : holder'[m] = u <=> holder[m] = u,
         lock.pc = "locked" => lock.state = Mutexes,
         lock.pc \in {"out", "owner"} => lock.state = {},
         lock.pc = "owner" => lock.round = 1,
         lock.pc = "lock" => \A m \in lock.state : m >= Waited[lock.round],
         lock.pc \in {"try1", "try2"} => Waited[lock.round] \in lock.state,
         lock.pc = "try2" => Tried[lock.round][1] \in lock.state,
         lock.pc = "undo2" => Undone[lock.round][1] \notin lock.state,
         lock.pc = "restore" => lock.own \subseteq lock.state
  PROVE  LocksInv'
<1>1. locks' = [locks EXCEPT ![t] = lock]  BY DEF Becomes
<1>2. locks \in [Lockers -> LockState]  BY DEF LocksInv, LocksTypeOK
<1>3. \A u \in Lockers : locks'[u] = IF u = t THEN lock ELSE locks[u]  BY <1>1, <1>2
<1>4. LocksTypeOK'  BY <1>1, <1>2 DEF LocksTypeOK
<1>5. AllLocked'  BY <1>3 DEF LocksInv, AllLocked, At
<1>6. Rounds'  BY <1>3 DEF LocksInv, Rounds, At
<1>7. QED  BY <1>4, <1>5, <1>6 DEF LocksInv

\* The two ways in which a thread moves on.
LEMMA StepTakes ==
  ASSUME LocksInv, NEW t \in Lockers, NEW m \in Mutexes,
         NEW pc \in {"lock", "try1", "try2", "locked"}, Takes(t, m, pc),
         LET after == locks[t].state \cup {m}
         IN /\ pc = "locked" => after = Mutexes
            /\ pc = "lock" => \A n \in after : n >= Waited[locks[t].round]
            /\ pc \in {"try1", "try2"} => Waited[locks[t].round] \in after
            /\ pc = "try2" => Tried[locks[t].round][1] \in after
  PROVE  LocksInv'
<1> DEFINE lock == [Go(t, pc) EXCEPT !.state = @ \cup {m}]
<1>1. locks[t] \in LockState  BY DEF LocksInv, LocksTypeOK
<1>2. /\ lock \in LockState /\ lock.pc = pc /\ lock.round = locks[t].round
      /\ lock.state = locks[t].state \cup {m}
  BY <1>1 DEF Go, LockState
<1>3. Becomes(t, lock)  BY DEF Takes
<1>4. /\ holder \in [Mutexes -> Lockers \cup {Nobody}]
      /\ holder' = [holder EXCEPT ![m] = t] /\ holder[m] = Nobody
  BY DEF LocksInv, LocksTypeOK, Takes, Free
<1>5. holder' \in [Mutexes -> Lockers \cup {Nobody}]  BY <1>4
<1>6. \A n \in Mutexes : n \in lock.state <=> holder'[n] = t
  BY <1>2, <1>4 DEF LocksInv, AllLocked
<1>7. \A n \in Mutexes : \A u \in Lockers \ {t} : holder'[n] = u <=> holder[n] = u
  BY <1>4, LockerAssumption
<1> HIDE DEF lock
<1>8. QED  BY <1>2, <1>3, <1>5, <1>6, <1>7, StepOfOne

LEMMA StepKeeps ==
  ASSUME LocksInv, NEW t \in Lockers,
         NEW pc \in {"try1", "try2", "locked", "undo1", "restore"}, Keeps(t, pc),
         LET same == locks[t].state
         IN /\ pc = "locked" => same = Mutexes
            /\ pc \in {"try1", "try2"} => Waited[locks[t].round] \in same
            /\ pc = "try2" => Tried[locks[t].round][1] \in same
            /\ pc = "restore" => locks[t].own \subseteq same
  PROVE  LocksInv'
<1> DEFINE lock == Go(t, pc)
<1>1. locks[t] \in LockState  BY DEF LocksInv, LocksTypeOK
<1>2. /\ lock \in LockState /\ lock.pc = pc /\ lock.round = locks[t].round
      /\ lock.state = locks[t].state /\ lock.own = locks[t].own
  BY <1>1 DEF Go, LockState
<1>3. Becomes(t, lock) /\ holder' = holder  BY DEF Keeps
<1>4. holder' \in [Mutexes -> Lockers \cup {Nobody}]  BY <1>3 DEF LocksInv, LocksTypeOK
<1>5. \A n \in Mutexes : n \in lock.state <=> holder'[n] = t
  BY <1>2, <1>3 DEF LocksInv, AllLocked
<1> HIDE DEF lock
<1>6. QED  BY <1>2, <1>3, <1>4, <1>5, StepOfOne

\* GiveBack leaves the thread with the notes it is given, but for m.
LEMMA StepGivesBack ==
  ASSUME LocksInv, NEW t \in Lockers, NEW m \in Mutexes, NEW lock \in LockState,
         lock.state = locks[t].state, GiveBack(t, m, lock),
         lock.pc \in {"undo2", "lock", "restore"},
         lock.pc = "lock" => \A n \in lock.state \ {m} : n >= Waited[lock.round],
         lock.pc = "undo2" => Undone[lock.round][1] \notin lock.state \ {m},
         lock.pc = "restore" => lock.own \subseteq lock.state \ {m}
  PROVE  LocksInv'
<1> DEFINE after == [lock EXCEPT !.state = @ \ {m}]
<1>1. /\ after \in LockState /\ after.pc = lock.pc /\ after.round = lock.round
      /\ after.state = locks[t].state \ {m} /\ after.own = lock.own
  BY DEF LockState
<1>2. Becomes(t, after)  BY DEF GiveBack
<1>3. /\ holder \in [Mutexes -> Lockers \cup {Nobody}]
      /\ holder' = IF m \in locks[t].state THEN [holder EXCEPT ![m] = Nobody] ELSE holder
  BY DEF LocksInv, LocksTypeOK, GiveBack
<1>4. \A n \in Mutexes : n \in locks[t].state <=> holder[n] = t  BY DEF LocksInv, AllLocked
<1>5. holder' \in [Mutexes -> Lockers \cup {Nobody}]  BY <1>3
<1>6. \A n \in Mutexes : n \in after.state <=> holder'[n] = t
  BY <1>1, <1>3, <1>4, LockerAssumption
<1>7. \A n \in Mutexes : \A u \in Lockers \ {t} : holder'[n] = u <=> holder[n] = u
  BY <1>3, <1>4, LockerAssumption
<1> HIDE DEF after
<1>8. QED  BY <1>1, <1>2, <1>5, <1>6, <1>7, StepOfOne

LEMMA NextLocksInv == LocksInv /\ LocksNext => LocksInv'
<1> SUFFICES ASSUME LocksInv, NEW t \in Lockers,
                    \/ Call(t) \/ LockOwn(t) \/ LockFirst(t)
                    \/ Try(t, "try1", 1, "try2") \/ Try(t, "try2", 2, "locked")
                    \/ UndoFirst(t) \/ UndoSecond(t) \/ Leave(t) \/ Restore(t) \/ UnlockOwn(t)
             PROVE  LocksInv'
  BY DEF LocksNext
<1> DEFINE r == locks[t].round
<1>1. /\ locks[t] \in LockState /\ r \in 1 .. 3
      /\ locks[t].state \subseteq Mutexes /\ locks[t].own \subseteq Mutexes
  BY DEF LocksInv, LocksTypeOK, LockState
<1>2. /\ Waited[r] \in Mutexes /\ NextRound(r) \in 1 .. 3
      /\ Tried[r][1] \in Mutexes /\ Tried[r][2] \in Mutexes
      /\ Undone[r][1] \in Mutexes /\ Undone[r][2] \in Mutexes
  BY <1>1, RoundTables
<1>3. /\ At(t, "out") \/ At(t, "owner") => locks[t].state = {}
      /\ At(t, "owner") => r = 1
      /\ At(t, "lock") => \A m \in locks[t].state : m >= Waited[r]
      /\ At(t, "try1") \/ At(t, "try2") => Waited[r] \in locks[t].state
      /\ At(t, "try2") => Tried[r][1] \in locks[t].state
      /\ At(t, "undo2") => Undone[r][1] \notin locks[t].state
      /\ At(t, "restore") => locks[t].own \subseteq locks[t].state
      /\ At(t, "locked") => locks[t].state = Mutexes
  BY DEF LocksInv, Rounds, AllLocked
<1>4. CASE Call(t)
  <2>1. locks[t].state = {} /\ holder' = holder  BY <1>3, <1>4 DEF Call, Keeps
  <2>2. \A n \in Mutexes : n \in {} <=> holder'[n] = t  BY <2>1 DEF LocksInv, AllLocked
  <2>3. holder' \in [Mutexes -> Lockers \cup {Nobody}]  BY <2>1 DEF LocksInv, LocksTypeOK
  <2>4. PICK lock \in LockState : /\ Becomes(t, lock) /\ lock.pc \in {"lock", "owner"}
                                  /\ lock.state = {} /\ lock.round = 1
    <3>1. CASE Becomes(t, [NoLocks EXCEPT !.pc = "lock"])
      <4>1. [NoLocks EXCEPT !.pc = "lock"] \in LockState  BY DEF NoLocks, LockState
      <4>2. QED  BY <3>1, <4>1 DEF NoLocks
    <3>2. ASSUME NEW m \in Mutexes,
                 Becomes(t, [pc |-> "owner", round |-> 1, state |-> {}, own |-> {m}])
          PROVE  \E lock \in LockState : /\ Becomes(t, lock) /\ lock.pc \in {"lock", "owner"}
                                         /\ lock.state = {} /\ lock.round = 1
      <4> DEFINE lock == [pc |-> "owner", round |-> 1, state |-> {}, own |-> {m}]
      <4>1. lock \in LockState  BY DEF LockState
      <4>2. QED  BY <3>2, <4>1
    <3>3. QED  BY <1>4, <3>1, <3>2 DEF Call
  <2>5. QED  BY <2>1, <2>2, <2>3, <2>4, StepOfOne
<1>5. CASE LockOwn(t)
  <2>1. PICK m \in locks[t].own : Takes(t, m, "lock")  BY <1>5 DEF LockOwn
  <2>2. \A n \in locks[t].state \cup {m} : n >= Waited[r]
    <3>1. r = 1 /\ locks[t].state = {} /\ m \in Mutexes  BY <1>1, <1>3, <1>5, <2>1 DEF LockOwn
    <3>2. QED  BY <3>1 DEF Waited, Mutexes
  <2>3. QED  BY <1>1, <2>1, <2>2, StepTakes
<1>6. CASE LockFirst(t)
  <2>1. CASE Keeps(t, "try1") /\ Waited[r] \in locks[t].state  BY <2>1, StepKeeps
  <2>2. CASE Takes(t, Waited[r], "try1")  BY <1>2, <2>2, StepTakes
  <2>3. QED  BY <1>6, <2>1, <2>2 DEF LockFirst
<1>7. CASE Try(t, "try1", 1, "try2")
  <2>1. At(t, "try1")  BY <1>7 DEF Try
  <2>2. CASE Keeps(t, "try2") /\ Tried[r][1] \in locks[t].state  BY <1>3, <2>1, <2>2, StepKeeps
  <2>3. CASE Takes(t, Tried[r][1], "try2")  BY <1>2, <1>3, <2>1, <2>3, StepTakes
  <2>4. CASE Keeps(t, "undo1")  BY <2>4, StepKeeps
  <2>5. QED  BY <1>7, <2>2, <2>3, <2>4 DEF Try
<1>8. CASE Try(t, "try2", 2, "locked")
  <2>1. At(t, "try2")  BY <1>8 DEF Try
  <2>2. ASSUME Tried[r][2] \in locks[t].state  PROVE locks[t].state = Mutexes
    <3>1. \A m \in Mutexes : m \in locks[t].state  BY <1>1, <1>3, <2>1, <2>2, RoundTables
    <3>2. QED  BY <1>1, <3>1
  <2>3. locks[t].state \cup {Tried[r][2]} = Mutexes
    BY <1>1, <1>2, <1>3, <2>1, RoundTables
  <2>4. CASE Keeps(t, "locked") /\ Tried[r][2] \in locks[t].state  BY <2>2, <2>4, StepKeeps
  <2>5. CASE Takes(t, Tried[r][2], "locked")  BY <1>2, <2>3, <2>5, StepTakes
  <2>6. CASE Keeps(t, "undo1")  BY <2>6, StepKeeps
  <2>7. QED  BY <1>8, <2>4, <2>5, <2>6 DEF Try
<1>9. CASE UndoFirst(t)
  <2> DEFINE lock == Go(t, "undo2")
  <2>1. /\ lock \in LockState /\ lock.pc = "undo2" /\ lock.round = r
        /\ lock.state = locks[t].state
    BY <1>1 DEF Go, LockState
  <2>2. GiveBack(t, Undone[r][1], lock)  BY <1>9 DEF UndoFirst
  <2> HIDE DEF lock
  <2>3. QED  BY <1>2, <2>1, <2>2, StepGivesBack
<1>10. CASE UndoSecond(t)
  <2> DEFINE lock == [Go(t, "lock") EXCEPT !.round = NextRound(r)]
  <2>1. /\ lock \in LockState /\ lock.pc = "lock" /\ lock.round = NextRound(r)
        /\ lock.state = locks[t].state
    BY <1>1, <1>2 DEF Go, LockState
  <2>2. GiveBack(t, Undone[r][2], lock) /\ At(t, "undo2")  BY <1>10 DEF UndoSecond
  <2>3. \A n \in locks[t].state \ {Undone[r][2]} : n >= Waited[NextRound(r)]
    BY <1>1, <1>3, <2>2, RoundTables
  <2> HIDE DEF lock
  <2>4. QED  BY <1>2, <2>1, <2>2, <2>3, StepGivesBack
<1>11. CASE Leave(t)  BY <1>1, <1>3, <1>11, StepKeeps DEF Leave
<1>12. CASE Restore(t)
  <2>1. PICK m \in locks[t].state \ locks[t].own : GiveBack(t, m, locks[t])
    BY <1>12 DEF Restore
  <2>2. locks[t].pc = "restore"  BY <1>12 DEF Restore, At
  <2>3. QED  BY <1>1, <1>3, <2>1, <2>2, StepGivesBack DEF At
<1>13. CASE UnlockOwn(t)
  <2>1. locks[t].state = locks[t].own  BY <1>3, <1>13 DEF UnlockOwn
  <2>2. holder' = [m \in Mutexes |-> IF m \in locks[t].own THEN Nobody ELSE holder[m]]
    BY <1>13 DEF UnlockOwn
  <2>3. \A m \in Mutexes : m \in locks[t].state <=> holder[m] = t  BY DEF LocksInv, AllLocked
  <2>4. holder \in [Mutexes -> Lockers \cup {Nobody}]  BY DEF LocksInv, LocksTypeOK
  <2>5. holder' \in [Mutexes -> Lockers \cup {Nobody}]  BY <2>2, <2>4
  <2>6. \A m \in Mutexes : m \in {} <=> holder'[m] = t
    BY <2>1, <2>2, <2>3, LockerAssumption
  <2>7. \A m \in Mutexes : \A u \in Lockers \ {t} : holder'[m] = u <=> holder[m] = u
    BY <2>1, <2>2, <2>3, LockerAssumption
  <2>8. NoLocks \in LockState /\ NoLocks.pc = "out" /\ NoLocks.state = {}
    BY DEF NoLocks, LockState
  <2>9. QED  BY <1>13, <2>5, <2>6, <2>7, <2>8, StepOfOne DEF UnlockOwn
<1>14. QED  BY <1>4, <1>5, <1>6, <1>7, <1>8, <1>9, <1>10, <1>11, <1>12, <1>13

\* Threads that wait for each other would do so for ever smaller mutexes:
\* what a waiting thread holds comes after what it waits for.
LEMMA WaitingDescends ==
  ASSUME LocksInv, NEW D \in SUBSET Lockers,
         \A t \in D : \E m \in WaitsFor(t) : holder[m] \in D,
         NEW m \in Mutexes, holder[m] \in D
  PROVE  \E n \in Mutexes : n < m /\ holder[n] \in D
<1> DEFINE u == holder[m]
<1>1. u \in Lockers /\ m \in locks[u].state /\ locks[u] \in LockState
  BY DEF LocksInv, AllLocked, LocksTypeOK
<1>2. PICK n \in WaitsFor(u) : holder[n] \in D  OBVIOUS
<1>3. ~At(u, "owner")  BY <1>1 DEF LocksInv, Rounds
<1>4. At(u, "lock") /\ n = Waited[locks[u].round] /\ n \notin locks[u].state
  BY <1>2, <1>3 DEF WaitsFor
<1>5. m >= n  BY <1>1, <1>4 DEF LocksInv, Rounds
<1>6. n \in Mutexes  BY <1>1, <1>4, RoundTables DEF LockState
<1>7. QED  BY <1>1, <1>2, <1>4, <1>5, <1>6 DEF Mutexes

LEMMA InvGivesNoDeadlock == LocksInv => NoDeadlock
<1> SUFFICES ASSUME LocksInv, NEW D \in SUBSET Lockers,
                    \A t \in D : \E m \in WaitsFor(t) : holder[m] \in D
             PROVE  D = {}
  BY DEF NoDeadlock
<1>1. \A m \in Mutexes : holder[m] \in D => \E n \in Mutexes : n < m /\ holder[n] \in D
  BY WaitingDescends
<1>2. holder[0] \notin D  BY <1>1 DEF Mutexes
<1>3. holder[1] \notin D  BY <1>1, <1>2 DEF Mutexes
<1>4. holder[2] \notin D  BY <1>1, <1>2, <1>3 DEF Mutexes
<1>5. \A t \in D : WaitsFor(t) \subseteq Mutexes
  BY RoundTables DEF LocksInv, LocksTypeOK, LockState, WaitsFor
<1>6. QED  BY <1>2, <1>3, <1>4, <1>5 DEF Mutexes

\* ScopedLockMultiple: threads that take the same three mutexes never wait
\* for each other, however many they are and whichever they hold on entry.
THEOREM LocksNeverDeadlock == LocksSpec => []NoDeadlock
<1>1. LocksInv /\ [LocksNext]_lockVars => LocksInv'
  <2>1. LocksInv /\ UNCHANGED lockVars => LocksInv'
    BY DEF LocksInv, LocksTypeOK, AllLocked, Rounds, At, lockVars
  <2>2. QED  BY <2>1, NextLocksInv
<1>2. QED  BY InitLocksInv, <1>1, InvGivesNoDeadlock, PTL DEF LocksSpec

-----------------------------------------------------------------------------
(* VectorMemory.                                                            *)

VectorTypeOK == heap \subseteq Blocks /\ vec \in [Vectors -> Vec]

\* An object that does not exist owns nothing.
NoneOwnsNothing == \A v \in Vectors : vec[v].kind = "none" => ~Owns(v)

MemoryInv == VectorTypeOK /\ NoneOwnsNothing /\ OneOwner

LEMMA InitMemoryInv == VectorInit => MemoryInv
  BY DEF VectorInit, MemoryInv, VectorTypeOK, NoneOwnsNothing, OneOwner, Owns, Outside, Vec

\* v lets go of its block, if it has one, and is an alias or empty.
LEMMA LettingGo ==
  ASSUME MemoryInv, NEW v \in Vectors, NEW new \in Vec, new.mData = Nowhere,
         heap' = AfterFree(v), vec' = [vec EXCEPT ![v] = new]
  PROVE  MemoryInv'
<1> USE DEF MemoryInv
<1>1. \A w \in Vectors : vec'[w] = IF w = v THEN new ELSE vec[w]  BY DEF VectorTypeOK
<1>2. VectorTypeOK'  BY DEF VectorTypeOK, AfterFree
<1>3. NoneOwnsNothing'  BY <1>1 DEF NoneOwnsNothing, Owns
<1>4. OneOwner'  BY <1>1, MemoryAssumption DEF OneOwner, Owns, AfterFree, VectorTypeOK
<1>5. QED  BY <1>2, <1>3, <1>4

\* v has a block b that is not used by another one.
LEMMA Allocating ==
  ASSUME MemoryInv, NEW v \in Vectors, NEW b \in Blocks \ AfterFree(v), NEW kind \in Both,
         heap' = AfterFree(v) \cup {b},
         vec' = [vec EXCEPT ![v] = [mData |-> b, mStart |-> b, kind |-> kind]]
  PROVE  MemoryInv'
<1> USE DEF MemoryInv
<1>1. \A w \in Vectors : vec'[w] = IF w = v THEN [mData |-> b, mStart |-> b, kind |-> kind]
                                              ELSE vec[w]
  BY DEF VectorTypeOK
<1>2. VectorTypeOK'  BY DEF VectorTypeOK, AfterFree, Vec, Both
<1>3. NoneOwnsNothing'  BY <1>1 DEF NoneOwnsNothing, Owns, Both
<1>4. OneOwner'  BY <1>1, MemoryAssumption DEF OneOwner, Owns, AfterFree, VectorTypeOK
<1>5. QED  BY <1>2, <1>3, <1>4

\* v, which owns nothing that is still allocated, takes over what w has.
LEMMA Taking ==
  ASSUME MemoryInv, NEW v \in Vectors, NEW w \in Vectors, v # w, heap' = AfterFree(v),
         vec' = TakenFrom(v, "Vector", w), vec[w].kind # "none"
  PROVE  MemoryInv'
<1> USE DEF MemoryInv
<1>1. \A u \in Vectors : vec[u] \in Vec  BY DEF VectorTypeOK
<1>2. /\ vec'[v] = [vec[w] EXCEPT !.kind = "Vector"]
      /\ vec'[w] = [vec[w] EXCEPT !.mData = Nowhere]
      /\ \A u \in Vectors \ {v, w} : vec'[u] = vec[u]
  BY DEF TakenFrom, VectorTypeOK
<1>3. /\ vec'[v].mData = vec[w].mData /\ vec'[v].mStart = vec[w].mStart
      /\ vec'[v].kind = "Vector" /\ vec'[v] \in Vec
      /\ vec'[w].mData = Nowhere /\ vec'[w].kind = vec[w].kind /\ vec'[w] \in Vec
  BY <1>1, <1>2 DEF Vec
<1>4. DOMAIN vec' = Vectors /\ vec' = [u \in DOMAIN vec' |-> vec'[u]]
  BY DEF TakenFrom, VectorTypeOK
<1>5. VectorTypeOK'
  <2>1. \A u \in Vectors : vec'[u] \in Vec  BY <1>1, <1>2, <1>3
  <2>2. QED  BY <1>4, <2>1 DEF VectorTypeOK, AfterFree
<1>6. NoneOwnsNothing'  BY <1>2, <1>3 DEF NoneOwnsNothing, Owns
<1>7. OneOwner'
  BY <1>2, <1>3, MemoryAssumption DEF OneOwner, Owns, AfterFree, VectorTypeOK
<1>8. QED  BY <1>5, <1>6, <1>7

LEMMA Resizing ==
  ASSUME MemoryInv, NEW v \in Vectors, NEW kind \in Both \cup {"none"}, NEW empty \in BOOLEAN,
         kind = "none" => empty, resize(v, kind, empty)
  PROVE  MemoryInv'
<1>1. CASE empty
  <2>1. [Outside EXCEPT !.kind = kind] \in Vec /\ [Outside EXCEPT !.kind = kind].mData = Nowhere
    BY DEF Outside, Vec, Both
  <2>2. QED  BY <1>1, <2>1, LettingGo DEF resize
<1>2. CASE ~empty  BY <1>2, Allocating DEF resize
<1>3. QED  BY <1>1, <1>2

LEMMA Aliasing ==
  ASSUME MemoryInv, NEW v \in Vectors, NEW w \in Vectors, NEW kind \in Both,
         makeAlias(v, kind, w)
  PROVE  MemoryInv'
<1>1. [mData |-> Nowhere, mStart |-> vec[w].mStart, kind |-> kind] \in Vec
  BY DEF MemoryInv, VectorTypeOK, Vec, Both
<1>2. QED  BY <1>1, LettingGo DEF makeAlias

LEMMA NextMemoryInv == MemoryInv /\ VectorNext => MemoryInv'
<1> SUFFICES ASSUME MemoryInv, VectorNext PROVE MemoryInv'
  OBVIOUS
<1> USE DEF Alive, Both
<1>1. ASSUME NEW v \in Vectors, Construct(v) \/ Resize(v) \/ Destroy(v) PROVE MemoryInv'
  BY <1>1, Resizing DEF Construct, Resize, Destroy
<1>2. ASSUME NEW v \in Vectors, NEW w \in Vectors, CopyShift(v, w) PROVE MemoryInv'
  <2>1. AfterFree(v) = heap
    BY <1>2, MemoryAssumption DEF CopyShift, AfterFree, MemoryInv, VectorTypeOK,
       NoneOwnsNothing, Owns
  <2>2. QED  BY <1>2, <2>1, Taking DEF CopyShift
<1>3. ASSUME NEW v \in Vectors, NEW w \in Vectors, shiftMem(v, w) PROVE MemoryInv'
  <2>1. CASE v = w
    <3>1. resize(v, "Vector", TRUE)  BY <1>3, <2>1 DEF shiftMem, resize
    <3>2. QED  BY <3>1, Resizing
  <2>2. CASE v # w  BY <1>3, <2>2, Taking DEF shiftMem
  <2>3. QED  BY <2>1, <2>2
<1>4. ASSUME NEW v \in Vectors, NEW w \in Vectors, CopyClone(v, w) PROVE MemoryInv'
  BY <1>4, Resizing DEF CopyClone, clone
<1>5. ASSUME NEW v \in Vectors, NEW w \in Vectors, CopyOrAlias(v, w) PROVE MemoryInv'
  BY <1>5, Resizing, Aliasing DEF CopyOrAlias, clone
<1>6. ASSUME NEW v \in Vectors, NEW w \in Vectors, Segment(v, w) \/ dup(v, w) PROVE MemoryInv'
  BY <1>6, Aliasing DEF Segment, dup
<1>7. ASSUME NEW v \in Vectors, NEW w1 \in Vectors, NEW w2 \in Vectors, vConcat(v, w1, w2)
      PROVE  MemoryInv'
  BY <1>7, Resizing DEF vConcat
<1>8. QED  BY <1>1, <1>2, <1>3, <1>4, <1>5, <1>6, <1>7 DEF VectorNext

\* "Only one Vector owns the memory at a time": after any sequence of
\* constructors, copies, shifts, aliases and assignments no block has leaked
\* and none is freed twice, for any number of vectors and blocks (Vector.h).
THEOREM MemoryHasOneOwner == VectorSpec => []OneOwner
<1>1. MemoryInv /\ [VectorNext]_vectorVars => MemoryInv'
  <2>1. MemoryInv /\ UNCHANGED vectorVars => MemoryInv'
    BY DEF MemoryInv, VectorTypeOK, NoneOwnsNothing, OneOwner, Owns, vectorVars
  <2>2. QED  BY <2>1, NextMemoryInv
<1>2. MemoryInv => OneOwner  BY DEF MemoryInv
<1>3. QED  BY InitMemoryInv, <1>1, <1>2, PTL DEF VectorSpec

-----------------------------------------------------------------------------
(* GsmTimeWalk: the order of the clocks is the distance walked.             *)

\* Both clocks show times of the standard, and the walked distance is their
\* difference: what makes OrderIsDistance inductive.
WalkInv ==
  /\ base \in Times /\ later \in Times
  /\ distance \in -Window .. Window
  /\ distance = SlotsBetween(later, base)

LEMMA WindowIsNear == ASSUME NEW n \in -Window .. Window PROVE n \in Near
<1>1. (HalfModulus - 1) * GMaxTimeslots \in Int  BY Halves, GsmTimeAssumption
<1>2. QED  BY <1>1, WindowAssumption DEF Near

LEMMA ItselfIsNear == ASSUME NEW t \in Times PROVE SlotsBetween(t, t) = 0
  BY FNDeltaRange, TimesAreInts, Halves DEF SlotsBetween

LEMMA InitWalkInv == Init => WalkInv
  BY ItselfIsNear, WindowAssumption DEF Init, WalkInv

\* One clock moves, and the distance with it.
LEMMA LaterWalks ==
  ASSUME WalkInv, NEW n \in Int, Moves(later, later', n), Moved(n), UNCHANGED base
  PROVE  WalkInv'
<1>1. SlotsBetween(later, base) + n \in Near  BY WindowIsNear DEF WalkInv, Moved
<1>2. later' \in Times /\ SlotsBetween(later', base) = SlotsBetween(later, base) + n
  BY <1>1, MovesAway DEF WalkInv
<1>3. QED  BY <1>2 DEF WalkInv, Moved

LEMMA BaseWalks ==
  ASSUME WalkInv, NEW n \in Int, Moves(base, base', n), Moved(-n), UNCHANGED later
  PROVE  WalkInv'
<1>1. distance + (-n) = distance - n /\ distance - n \in -Window .. Window
  BY WindowAssumption DEF WalkInv, Moved
<1>2. SlotsBetween(later, base) - n \in Near  BY <1>1, WindowIsNear DEF WalkInv
<1>3. base' \in Times /\ SlotsBetween(later, base') = SlotsBetween(later, base) - n
  BY <1>2, MovesCloser DEF WalkInv
<1>4. QED  BY <1>1, <1>3 DEF WalkInv, Moved

\* rollForward finds a frame: the multiframes are at most three frames long
\* here, and the hyperframe at least four.
LEMMA RollForwardMoves ==
  ASSUME NEW t \in Times, NEW modulus \in 1 .. 3, NEW fn \in 0 .. modulus - 1
  PROVE  LET v == RollForward(t, fn, modulus)
         IN Moves(t, v, ((v.fn - t.fn) % GMaxFrames) * GMaxTimeslots)
<1> DEFINE G == GMaxFrames  T == GMaxTimeslots
           hits == {k \in Frames : ((t.fn + k) % G) % modulus = fn}
           wait == CHOOSE k \in hits : \A j \in hits : k <= j
           v == RollForward(t, fn, modulus)
<1>1. G \in Nat /\ G >= 4 /\ t.fn \in Int /\ 0 <= t.fn /\ t.fn < G /\ T \in Nat /\ t.tn \in Int
  <2>1. (HalfModulus - 1) * T > 0  BY WindowAssumption, Halves, GsmTimeAssumption
  <2>2. HalfModulus - 1 > 0  BY <2>1, Halves, GsmTimeAssumption
  <2>3. QED  BY <2>2, Halves, TimesAreInts DEF Frames
<1>2. hits # {} /\ hits \subseteq Nat
  <2>1. PICK k \in Int : k = IF fn >= t.fn THEN fn - t.fn ELSE fn - t.fn + G  BY <1>1
  <2>2. k \in Frames  BY <1>1, <2>1 DEF Frames
  <2>3. (t.fn + k) % G = fn  BY <1>1, <2>1
  <2>4. fn % modulus = fn  OBVIOUS
  <2>5. k \in hits  BY <2>2, <2>3, <2>4
  <2>6. QED  BY <1>1, <2>5 DEF Frames
<1>3. wait \in Frames  BY <1>2, LeastNatural
<1> HIDE DEF wait
<1>4. v = Time((t.fn + wait) % G, t.tn)  BY DEF RollForward, wait
<1>5. v.fn \in Frames /\ v.tn = t.tn /\ v \in Times /\ wait \in Int
  BY <1>1, <1>3, <1>4, FramesWrap DEF Time, Times, Frames
<1>6. v.fn = (t.fn + ((v.fn - t.fn) % G)) % G
  <2>1. PICK x \in Int : x = v.fn /\ 0 <= x /\ x < G  BY <1>1, <1>5 DEF Frames
  <2>2. CASE x >= t.fn
    <3>1. (x - t.fn) % G = x - t.fn  BY <1>1, <2>1, <2>2
    <3>2. (t.fn + (x - t.fn)) % G = x  BY <1>1, <2>1
    <3>3. QED  BY <2>1, <3>1, <3>2
  <2>3. CASE x < t.fn
    <3>1. (x - t.fn) % G = x - t.fn + G  BY <1>1, <2>1, <2>3
    <3>2. (t.fn + (x - t.fn + G)) % G = x  BY <1>1, <2>1
    <3>3. QED  BY <2>1, <3>1, <3>2
  <2>4. QED  BY <1>1, <2>1, <2>2, <2>3
<1>7. (v.fn - t.fn) % G \in Int /\ ((v.fn - t.fn) % G) * T \in Int  BY <1>1, <1>5 DEF Frames
<1> DEFINE k == (v.fn - t.fn) % G
<1>8. k * T = k * T + v.tn - t.tn  BY <1>1, <1>5, <1>7
<1>9. Moves(t, v, k * T)  BY <1>5, <1>6, <1>7, <1>8 DEF Moves, Shifts
<1>10. QED  BY <1>9

LEMMA DecTNMoves ==
  ASSUME NEW t \in Times, NEW step \in Nat, step <= t.tn
  PROVE  Moves(t, DecTN(t, step), -step)
<1>1. /\ t.fn \in Frames /\ t.tn \in Int /\ 0 <= t.tn /\ t.tn < GMaxTimeslots /\ t.fn \in Int
      /\ GMaxTimeslots \in Nat /\ TNWord \in Nat /\ TNWord >= 2 * GMaxTimeslots
  BY TimesAreInts, GsmTimeAssumption DEF Frames
<1>2. (t.tn - step) % TNWord = t.tn - step  BY <1>1
<1>3. DecTN(t, step) = Time(t.fn, t.tn - step)  BY <1>2 DEF DecTN
<1>4. DecTN(t, step) \in Times  BY <1>1, <1>3 DEF Time, Times, Timeslots
<1>5. t.fn + 0 = t.fn /\ 0 * GMaxTimeslots = 0  BY <1>1
<1>6. DecTN(t, step).fn = (t.fn + 0) % GMaxFrames
  BY <1>1, <1>3, <1>5, FrameIsItself DEF Time
<1>7. -step = 0 * GMaxTimeslots + DecTN(t, step).tn - t.tn  BY <1>1, <1>3, <1>5 DEF Time
<1>8. QED  BY <1>4, <1>6, <1>7 DEF Moves, Shifts

LEMMA NextWalkInv == WalkInv /\ [Next]_vars => WalkInv'
<1> SUFFICES ASSUME WalkInv, [Next]_vars PROVE WalkInv'
  OBVIOUS
<1>1. base \in Times /\ later \in Times /\ GMaxTimeslots \in Nat /\ GMaxTimeslots >= 1
      /\ GMaxFrames \in Nat /\ GMaxFrames >= 2
  BY GsmTimeAssumption DEF WalkInv
<1>2. CASE AdvanceLater
  <2>1. PICK step \in 1 .. GMaxTimeslots :
          later' = IncTN(later, step) /\ Moved(step) /\ UNCHANGED base
    BY <1>2 DEF AdvanceLater
  <2>2. Moves(later, later', step)  BY <1>1, <2>1, IncTNMoves
  <2>3. QED  BY <2>1, <2>2, LaterWalks
<1>3. CASE AdvanceBase
  <2>1. PICK step \in 1 .. GMaxTimeslots :
          base' = IncTN(base, step) /\ Moved(-step) /\ UNCHANGED later
    BY <1>3 DEF AdvanceBase
  <2>2. Moves(base, base', step)  BY <1>1, <2>1, IncTNMoves
  <2>3. QED  BY <2>1, <2>2, BaseWalks
<1>4. CASE PassFrame
  <2>1. Moves(later, later', GMaxTimeslots)  BY <1>1, <1>4, IncFNMoves DEF PassFrame
  <2>2. QED  BY <1>1, <1>4, <2>1, LaterWalks DEF PassFrame
<1>5. CASE SkipFrames
  <2>1. PICK step \in 1 .. 2 : /\ later' = AddFrames(later, step)
                               /\ Moved(step * GMaxTimeslots) /\ UNCHANGED base
    BY <1>5 DEF SkipFrames
  <2>2. step \in Nat /\ step <= GMaxFrames /\ step * GMaxTimeslots \in Int  BY <1>1
  <2>3. Moves(later, later', step * GMaxTimeslots)  BY <1>1, <2>1, <2>2, AddFramesMoves
  <2>4. QED  BY <2>1, <2>2, <2>3, LaterWalks
<1>6. CASE AddLatency
  <2>1. PICK latency \in [fn : 0 .. 1, tn : Timeslots] :
          /\ later' = AddTime(later, latency)
          /\ Moved(latency.fn * GMaxTimeslots + latency.tn) /\ UNCHANGED base
    BY <1>6 DEF AddLatency
  <2>2. latency \in RawTimes  BY GsmTimeAssumption DEF RawTimes, Frames, Timeslots
  <2>3. latency.fn * GMaxTimeslots + latency.tn \in Int  BY <1>1, <2>1 DEF Timeslots
  <2>4. Moves(later, later', latency.fn * GMaxTimeslots + latency.tn)
    BY <1>1, <2>1, <2>2, AddTimeMoves
  <2>5. QED  BY <2>1, <2>3, <2>4, LaterWalks
<1>7. CASE RollLater
  <2>1. PICK modulus \in 1 .. 3 : \E fn \in 0 .. modulus - 1 :
          LET rolled == RollForward(later, fn, modulus)
          IN /\ later' = rolled
             /\ Moved(((rolled.fn - later.fn) % GMaxFrames) * GMaxTimeslots)
             /\ UNCHANGED base
    BY <1>7 DEF RollLater
  <2>2. PICK fn \in 0 .. modulus - 1 :
          /\ later' = RollForward(later, fn, modulus)
          /\ Moved(((later'.fn - later.fn) % GMaxFrames) * GMaxTimeslots)
          /\ UNCHANGED base
    BY <2>1
  <2>3. Moves(later, later', ((later'.fn - later.fn) % GMaxFrames) * GMaxTimeslots)
    BY <1>1, <2>2, RollForwardMoves
  <2>4. ((later'.fn - later.fn) % GMaxFrames) * GMaxTimeslots \in Int
    <3>1. later'.fn \in Int /\ later.fn \in Int
      BY <1>1, <2>3 DEF Moves, Shifts, Times, Frames
    <3>2. QED  BY <1>1, <3>1
  <2>5. QED  BY <2>2, <2>3, <2>4, LaterWalks
<1>8. CASE RetreatInFrame
  <2>1. PICK step \in 1 .. GMaxTimeslots - 1 :
          step <= later.tn /\ later' = DecTN(later, step) /\ Moved(-step) /\ UNCHANGED base
    BY <1>8 DEF RetreatInFrame
  <2>2. step \in Nat /\ -step \in Int  BY <1>1
  <2>3. Moves(later, later', -step)  BY <1>1, <2>1, <2>2, DecTNMoves
  <2>4. QED  BY <2>1, <2>2, <2>3, LaterWalks
<1>9. CASE SubtractFrames
  <2>1. PICK step \in 1 .. 2 :
          /\ step <= later.fn /\ later' = SubFrames(later, step)
          /\ Moved(-step * GMaxTimeslots) /\ UNCHANGED base
    BY <1>9 DEF SubtractFrames
  <2>2. (-step) * GMaxTimeslots \in Int /\ (-step) * GMaxTimeslots = -step * GMaxTimeslots  BY <1>1
  <2>3. Moves(later, later', (-step) * GMaxTimeslots)  BY <1>1, <2>1, SubFramesMoves
  <2>4. QED  BY <2>1, <2>2, <2>3, LaterWalks
<1>10. CASE UNCHANGED vars
  BY <1>10 DEF WalkInv, vars
<1>11. QED
  BY <1>2, <1>3, <1>4, <1>5, <1>6, <1>7, <1>8, <1>9, <1>10 DEF Next

\* The comparisons of two frame clocks, and their difference in frames, are
\* those of the plain number of timeslots between them, however often the
\* hyperframe has wrapped (gsmtime.h).
THEOREM ClocksCompareAsTime == Spec => []OrderIsDistance
<1>1. Spec => []WalkInv  BY InitWalkInv, NextWalkInv, PTL DEF Spec
<1>2. WalkInv => OrderIsDistance
  <2> SUFFICES ASSUME WalkInv PROVE OrderIsDistance
    OBVIOUS
  <2>1. base \in Times /\ later \in Times /\ distance = SlotsBetween(later, base)
        /\ distance \in Near /\ distance \in Int
    BY WindowIsNear, WindowAssumption DEF WalkInv
  <2>2. SlotsBetween(base, later) = -distance  BY <2>1, SlotsOrder
  <2>3. -distance \in Near
    <3>1. (HalfModulus - 1) * GMaxTimeslots \in Int  BY Halves, GsmTimeAssumption
    <3>2. QED  BY <2>1, <3>1 DEF Near
  <2>4. /\ Gt(base, later) <=> -distance > 0
        /\ Lt(base, later) <=> -distance < 0
        /\ Ge(base, later) <=> -distance >= 0
        /\ Le(base, later) <=> -distance <= 0
        /\ base = later <=> -distance = 0
    BY <2>1, <2>2, <2>3, SlotsOrder
  <2>5. FNDelta(later.fn, base.fn) = (base.tn + distance) \div GMaxTimeslots
    BY <2>1, SlotsOrder
  <2>6. QED  BY <2>1, <2>4, <2>5 DEF OrderIsDistance
<1>3. QED  BY <1>1, <1>2, PTL

-----------------------------------------------------------------------------
(***************************************************************************)
(* PointerFifo: the linked list is a FIFO.  A list of nodes is determined   *)
(* by its first node and the links, so the contents are what the invariant  *)
(* says of some list; the invariant splits the nodes into that list and the *)
(* free list, and counts them.                                              *)
(***************************************************************************)
Items == Values \cup {NULL}

ListTypeOK ==
  /\ nodes \in 0 .. MaxNodes /\ mSize \in 0 .. nodes
  /\ next \in [Nodes -> 0 .. MaxNodes] /\ data \in [Nodes -> Items]
  /\ mHead \in 0 .. MaxNodes /\ mFreeList \in 0 .. MaxNodes

Divided(list, free) ==
  /\ Linked(next, mHead, list) /\ IsInjective(list)
  /\ mTail = IF list = <<>> THEN None ELSE list[mSize]
  /\ Linked(next, mFreeList, free) /\ IsInjective(free)
  /\ Range(list) \cap Range(free) = {}
  /\ Range(list) \cup Range(free) = 1 .. nodes

FifoInv ==
  /\ ListTypeOK
  /\ \E list \in NodeLists(mSize), free \in NodeLists(nodes - mSize) : Divided(list, free)

\* A list of nodes as a sequence.
LEMMA NodeListIsSeq ==
  ASSUME NEW len \in Nat, NEW list \in NodeLists(len)
  PROVE  /\ list \in Seq(Nodes) /\ Len(list) = len /\ DOMAIN list = 1 .. len
         /\ \A i \in 1 .. len : list[i] \in Nodes /\ list[i] # None
         /\ list = <<>> <=> len = 0
<1>1. list \in [1 .. len -> Nodes]  BY DEF NodeLists
<1>2. list \in Seq(Nodes)  BY <1>1, SeqDef
<1>3. Len(list) = len /\ DOMAIN list = 1 .. len  BY <1>1, <1>2, LenProperties
<1>4. list = <<>> <=> len = 0  BY <1>2, <1>3, EmptySeq
<1>5. \A i \in 1 .. len : list[i] \in Nodes /\ list[i] # None
  BY <1>1, FifoAssumption DEF Nodes, None
<1>6. QED  BY <1>2, <1>3, <1>4, <1>5

\* The same links, from the same node on, give the same list.
LEMMA LinkedIsUnique ==
  ASSUME NEW links, NEW n, NEW len \in Nat, NEW a \in NodeLists(len), NEW b \in NodeLists(len),
         Linked(links, n, a), Linked(links, n, b)
  PROVE  a = b
<1> DEFINE Differ == {i \in Nat : i \in 1 .. len /\ a[i] # b[i]}
<1>1. ASSUME Differ # {} PROVE FALSE
  <2>1. Differ \subseteq Nat  OBVIOUS
  <2>2. PICK i \in Differ : \A j \in Differ : i <= j
    <3> HIDE DEF Differ
    <3>1. QED  BY <1>1, <2>1, LeastNatural
  <2>3. i \in 1 .. len /\ a[i] # b[i]  BY <2>2
  <2>4. CASE i = 1
    BY <2>3, <2>4, NodeListIsSeq DEF Linked
  <2>5. CASE i > 1
    <3>1. i - 1 \in 1 .. len /\ i - 1 \in Nat /\ i - 1 < i /\ i - 1 # len  BY <2>3, <2>5
    <3>2. a[i - 1] = b[i - 1]  BY <2>2, <3>1
    <3>3. links[a[i - 1]] = a[(i - 1) + 1] /\ links[b[i - 1]] = b[(i - 1) + 1]
      BY <3>1, NodeListIsSeq DEF Linked
    <3>4. (i - 1) + 1 = i  BY <2>3
    <3>5. QED  BY <2>3, <3>2, <3>3, <3>4
  <2>6. QED  BY <2>3, <2>4, <2>5
<1>2. \A i \in 1 .. len : a[i] = b[i]  BY <1>1
<1>3. QED  BY <1>2 DEF NodeLists

\* Links that differ elsewhere do not matter.
LEMMA LinkedElsewhere ==
  ASSUME NEW links, NEW other, NEW n, NEW len \in Nat, NEW list \in NodeLists(len),
         Linked(links, n, list), \A m \in Range(list) : other[m] = links[m]
  PROVE  Linked(other, n, list)
  BY NodeListIsSeq DEF Linked, Range

\* What a divided list stands for, now and after a step.
LEMMA Represents ==
  ASSUME ListTypeOK, NEW list \in NodeLists(mSize), NEW free \in NodeLists(nodes - mSize),
         Divided(list, free)
  PROVE  /\ Represented = [i \in 1 .. mSize |-> data[list[i]]]
         /\ Represented \in Seq(Items) /\ Len(Represented) = mSize
<1>1. NodesInOneList  BY DEF Divided, NodesInOneList
<1>2. mSize \in Nat /\ DOMAIN list = 1 .. mSize  BY NodeListIsSeq DEF ListTypeOK
<1> DEFINE found == CHOOSE nodeList \in NodeLists(mSize) : Linked(next, mHead, nodeList)
<1>3. found = list  BY <1>2, LinkedIsUnique DEF Divided
<1>a. Contents = [i \in DOMAIN found |-> data[found[i]]]  BY Zenon DEF Contents
<1> HIDE DEF found
<1>4. Represented = [i \in 1 .. mSize |-> data[list[i]]]
  <2>1. Represented = Contents  BY <1>1 DEF Represented
  <2>2. Contents = [i \in DOMAIN list |-> data[list[i]]]  BY <1>3, <1>a
  <2>3. QED  BY <1>2, <2>1, <2>2
<1>5. Represented \in [1 .. mSize -> Items]
  BY <1>2, <1>4, NodeListIsSeq DEF ListTypeOK
<1>6. Represented \in Seq(Items)  BY <1>2, <1>5, SeqDef
<1>7. QED  BY <1>2, <1>4, <1>5, <1>6, LenProperties

LEMMA RepresentsNext ==
  ASSUME ListTypeOK', NEW list \in NodeLists(mSize'), NEW free \in NodeLists(nodes' - mSize'),
         Divided(list, free)'
  PROVE  /\ Represented' = [i \in 1 .. mSize' |-> data'[list[i]]]
         /\ Represented' \in Seq(Items) /\ Len(Represented') = mSize'
<1>1. NodesInOneList'  BY DEF Divided, NodesInOneList
<1>2. mSize' \in Nat /\ DOMAIN list = 1 .. mSize'  BY NodeListIsSeq DEF ListTypeOK
<1> DEFINE found == CHOOSE nodeList \in NodeLists(mSize') : Linked(next', mHead', nodeList)
<1>3. found = list  BY <1>2, LinkedIsUnique DEF Divided
<1>a. Contents' = [i \in DOMAIN found |-> data'[found[i]]]  BY Zenon DEF Contents
<1> HIDE DEF found
<1>4. Represented' = [i \in 1 .. mSize' |-> data'[list[i]]]
  <2>1. Represented' = Contents'  BY <1>1 DEF Represented
  <2>2. Contents' = [i \in DOMAIN list |-> data'[list[i]]]  BY <1>3, <1>a
  <2>3. QED  BY <1>2, <2>1, <2>2
<1>5. Represented' \in [1 .. mSize' -> Items]
  BY <1>2, <1>4, NodeListIsSeq DEF ListTypeOK
<1>6. Represented' \in Seq(Items)  BY <1>2, <1>5, SeqDef
<1>7. QED  BY <1>2, <1>4, <1>5, <1>6, LenProperties

LEMMA InitFifo == ListInit => FifoInv /\ Order!FifoInit
<1> SUFFICES ASSUME ListInit PROVE FifoInv /\ Order!FifoInit
  OBVIOUS
<1>1. ListTypeOK  BY FifoAssumption DEF ListInit, ListTypeOK, Items, None
<1>2. <<>> \in NodeLists(0) /\ nodes - mSize = 0 /\ mSize = 0
  BY DEF ListInit, NodeLists
<1>3. Divided(<<>>, <<>>)
  BY DEF ListInit, Divided, Linked, IsInjective, Range
<1>4. Represented = <<>>
  <2>1. Represented \in Seq(Items) /\ Len(Represented) = 0
    BY <1>1, <1>2, <1>3, Represents
  <2>2. QED  BY <2>1, EmptySeq
<1>5. QED  BY <1>1, <1>2, <1>3, <1>4 DEF FifoInv, Order!FifoInit, ListInit

\* The list without its first node.
LEMMA ListShrinks ==
  ASSUME NEW len \in Nat, len # 0, NEW list \in NodeLists(len), IsInjective(list), NEW rest,
         rest = [i \in 1 .. len - 1 |-> list[i + 1]]
  PROVE  /\ rest \in NodeLists(len - 1) /\ IsInjective(rest)
         /\ Range(list) = Range(rest) \cup {list[1]} /\ list[1] \notin Range(rest)
         /\ \A links : Linked(links, list[1], list) => Linked(links, links[list[1]], rest)
<1>1. /\ DOMAIN list = 1 .. len /\ Len(list) = len /\ 1 \in 1 .. len /\ len - 1 \in Nat
      /\ \A i \in 1 .. len : list[i] \in Nodes
  BY NodeListIsSeq
<1>2. \A i \in 1 .. len - 1 : i + 1 \in 1 .. len /\ rest[i] = list[i + 1]
  BY <1>1
<1>3. rest \in NodeLists(len - 1)  BY <1>1, <1>2 DEF NodeLists
<1>4. DOMAIN rest = 1 .. len - 1 /\ Len(rest) = len - 1 /\ (rest = <<>> <=> len - 1 = 0)
  BY <1>1, <1>3, NodeListIsSeq
<1>5. \A i, j \in 1 .. len : list[i] = list[j] => i = j  BY <1>1 DEF IsInjective
<1>6. IsInjective(rest)
  <2>1. ASSUME NEW i \in 1 .. len - 1, NEW j \in 1 .. len - 1, rest[i] = rest[j]
        PROVE  i = j
    <3>1. i + 1 \in 1 .. len /\ j + 1 \in 1 .. len /\ list[i + 1] = list[j + 1]
      BY <1>2, <2>1
    <3>2. i + 1 = j + 1  BY <1>5, <3>1
    <3>3. QED  BY <3>2
  <2>2. QED  BY <1>4, <2>1 DEF IsInjective
<1>7. Range(list) = Range(rest) \cup {list[1]} /\ list[1] \notin Range(rest)
  <2>1. \A i \in 1 .. len : i = 1 \/ (i - 1 \in 1 .. len - 1 /\ rest[i - 1] = list[i])
    <3>1. TAKE i \in 1 .. len
    <3>2. i = 1 \/ (i - 1 \in 1 .. len - 1 /\ (i - 1) + 1 = i)  OBVIOUS
    <3>3. QED  BY <1>2, <3>2
  <2>2. Range(list) = {list[i] : i \in 1 .. len}  BY <1>1 DEF Range
  <2>3. Range(rest) = {rest[i] : i \in 1 .. len - 1}  BY <1>4 DEF Range
  <2>4. \A i \in 1 .. len - 1 : rest[i] # list[1]
    <3>1. TAKE i \in 1 .. len - 1
    <3>2. i + 1 # 1  OBVIOUS
    <3>3. QED  BY <1>1, <1>2, <1>5, <3>2
  <2>5. PICK first : first = list[1]  OBVIOUS
  <2>6. \A m : m \in Range(list) <=> m \in Range(rest) \/ m = first
    <3>1. first \in Range(list)  BY <1>1, <2>2, <2>5
    <3>2. \A i \in 1 .. len - 1 : rest[i] \in Range(list)  BY <1>2, <2>2
    <3>3. \A i \in 1 .. len : list[i] \in Range(rest) \/ list[i] = first  BY <2>1, <2>3, <2>5
    <3>4. QED  BY <2>2, <2>3, <3>1, <3>2, <3>3
  <2>7. first \notin Range(rest)  BY <2>3, <2>4, <2>5
  <2>8. Range(list) = Range(rest) \cup {first}  BY <2>6
  <2>9. QED  BY <2>5, <2>7, <2>8
<1>8. ASSUME NEW links, Linked(links, list[1], list) PROVE Linked(links, links[list[1]], rest)
  <2>1. \A i \in 1 .. len : links[list[i]] = IF i = len THEN None ELSE list[i + 1]
    BY <1>1, <1>8 DEF Linked
  <2>2. links[list[1]] = IF rest = <<>> THEN None ELSE rest[1]
    <3>1. links[list[1]] = IF 1 = len THEN None ELSE list[1 + 1]  BY <1>1, <2>1
    <3>2. len # 1 => 1 \in 1 .. len - 1  OBVIOUS
    <3>3. len # 1 => rest[1] = list[1 + 1]  BY <1>2, <3>2
    <3>4. rest = <<>> <=> len = 1  BY <1>4
    <3>5. QED  BY <3>1, <3>3, <3>4
  <2>3. ASSUME NEW i \in 1 .. len - 1
        PROVE  links[rest[i]] = IF i = len - 1 THEN None ELSE rest[i + 1]
    <3>1. i + 1 \in 1 .. len /\ rest[i] = list[i + 1]  BY <1>2
    <3>2. links[rest[i]] = IF i + 1 = len THEN None ELSE list[(i + 1) + 1]
      BY <2>1, <3>1
    <3>3. i + 1 = len <=> i = len - 1  OBVIOUS
    <3>4. i # len - 1 => i + 1 \in 1 .. len - 1  OBVIOUS
    <3>5. i # len - 1 => rest[i + 1] = list[(i + 1) + 1]  BY <1>2, <3>4
    <3>6. QED  BY <3>2, <3>3, <3>5
  <2>4. QED  BY <1>4, <2>2, <2>3 DEF Linked
<1>9. QED  BY <1>3, <1>6, <1>7, <1>8

\* allocate takes a node that is in neither list.
LEMMA AllocateTakes ==
  ASSUME ListTypeOK, NEW list \in NodeLists(mSize), NEW free \in NodeLists(nodes - mSize),
         Divided(list, free), allocate
  PROVE  /\ nodes' \in 0 .. MaxNodes /\ nodes' - (mSize + 1) \in Nat
         /\ mFreeList' \in 0 .. MaxNodes
         /\ Allocated \in Nodes /\ Allocated \notin Range(list)
         /\ \E rest \in NodeLists(nodes' - (mSize + 1)) :
              /\ Linked(next, mFreeList', rest) /\ IsInjective(rest)
              /\ Allocated \notin Range(rest) /\ Range(list) \cap Range(rest) = {}
              /\ Range(list) \cup Range(rest) \cup {Allocated} = 1 .. nodes'
<1> DEFINE spare == nodes - mSize
<1>1. /\ nodes \in Nat /\ mSize \in Nat /\ mSize <= nodes /\ nodes <= MaxNodes
      /\ MaxNodes \in Nat /\ spare \in Nat
  BY FifoAssumption DEF ListTypeOK
<1>2. /\ DOMAIN free = 1 .. spare /\ Len(free) = spare /\ (free = <<>> <=> spare = 0)
      /\ \A i \in 1 .. spare : free[i] \in Nodes /\ free[i] # None
  BY <1>1, NodeListIsSeq
<1>3. Range(list) \cup Range(free) = 1 .. nodes /\ Range(list) \cap Range(free) = {}
  BY DEF Divided
<1>4. CASE mFreeList = None
  <2>1. spare = 0 /\ free = <<>>
    <3>1. spare # 0 => mFreeList = free[1] /\ 1 \in 1 .. spare
      BY <1>1, <1>2 DEF Divided, Linked
    <3>2. QED  BY <1>2, <1>4, <3>1
  <2>2. nodes' = nodes + 1 /\ mFreeList' = mFreeList /\ Allocated = nodes + 1
        /\ nodes + 1 <= MaxNodes
    BY <1>4 DEF allocate, Allocated
  <2>3. Range(free) = {}  BY <1>2, <2>1 DEF Range
  <2>4. nodes' - (mSize + 1) = spare  BY <1>1, <2>2
  <2>5. free \in NodeLists(nodes' - (mSize + 1))  BY <2>4
  <2>6. Range(list) \cup Range(free) \cup {Allocated} = 1 .. nodes'
    BY <1>1, <1>3, <2>2
  <2>7. Allocated \in Nodes /\ Allocated \notin Range(list)
    BY <1>1, <1>3, <2>2 DEF Nodes
  <2>8. Linked(next, mFreeList', free) /\ IsInjective(free)  BY <2>2 DEF Divided
  <2>9. QED
    BY <1>1, <1>3, <2>2, <2>3, <2>4, <2>5, <2>6, <2>7, <2>8 DEF ListTypeOK
<1>5. CASE mFreeList # None
  <2>1. spare >= 1 /\ mFreeList = free[1] /\ 1 \in 1 .. spare
    <3>1. free # <<>> /\ mFreeList = free[1]  BY <1>5 DEF Divided, Linked
    <3>2. QED  BY <1>1, <1>2, <3>1
  <2>2. nodes' = nodes /\ mFreeList' = next[mFreeList] /\ Allocated = mFreeList
    BY <1>5 DEF allocate, Allocated
  <2>3. PICK rest : rest = [i \in 1 .. spare - 1 |-> free[i + 1]]  OBVIOUS
  <2>4. spare - 1 \in Nat /\ nodes' - (mSize + 1) = spare - 1  BY <1>1, <2>1, <2>2
  <2>5. IsInjective(free) /\ Linked(next, free[1], free)  BY <2>1 DEF Divided
  <2>6. spare # 0  BY <2>1
  <2>7. /\ rest \in NodeLists(spare - 1) /\ IsInjective(rest)
        /\ Range(free) = Range(rest) \cup {Allocated} /\ Allocated \notin Range(rest)
        /\ Linked(next, mFreeList', rest)
    <3> HIDE DEF spare
    <3>1. free \in NodeLists(spare)  BY DEF spare
    <3>2. QED  BY <1>1, <2>1, <2>2, <2>3, <2>5, <2>6, <3>1, ListShrinks
  <2>8. Allocated \in Nodes /\ Allocated \in Range(free)
    BY <1>2, <2>1, <2>2 DEF Range
  <2>9. next[mFreeList] \in 0 .. MaxNodes  BY <2>2, <2>8 DEF ListTypeOK
  <2>10. QED  BY <1>1, <1>3, <2>2, <2>4, <2>7, <2>8, <2>9
<1>6. QED  BY <1>4, <1>5

\* The list with one node more, at the end or at the front.
LEMMA ListGrows ==
  ASSUME NEW len \in Nat, NEW list \in NodeLists(len), IsInjective(list),
         NEW n \in Nodes, n \notin Range(list), NEW longer,
         \/ longer = [i \in 1 .. len + 1 |-> IF i = len + 1 THEN n ELSE list[i]]
         \/ longer = [i \in 1 .. len + 1 |-> IF i = 1 THEN n ELSE list[i - 1]]
  PROVE  longer \in NodeLists(len + 1) /\ IsInjective(longer) /\ Range(longer) = Range(list) \cup {n}
<1>1. /\ DOMAIN list = 1 .. len /\ \A i \in 1 .. len : list[i] \in Nodes
      /\ \A i, j \in 1 .. len : list[i] = list[j] => i = j
      /\ \A i \in 1 .. len : list[i] # n
      /\ Range(list) = {list[i] : i \in 1 .. len}
  BY NodeListIsSeq DEF IsInjective, Range
<1>2. DOMAIN longer = 1 .. len + 1  OBVIOUS
<1>3. CASE longer = [i \in 1 .. len + 1 |-> IF i = len + 1 THEN n ELSE list[i]]
  <2>1. /\ len + 1 \in 1 .. len + 1 /\ longer[len + 1] = n
        /\ \A i \in 1 .. len : i \in 1 .. len + 1 /\ longer[i] = list[i]
        /\ \A i \in 1 .. len + 1 : i = len + 1 \/ i \in 1 .. len
    BY <1>3
  <2>2. longer \in [1 .. len + 1 -> Nodes]  BY <1>1, <1>3, <2>1
  <2>3. \A i, j \in 1 .. len + 1 : longer[i] = longer[j] => i = j  BY <1>1, <2>1
  <2>4. Range(longer) = Range(list) \cup {n}
    <3>1. Range(longer) = {longer[i] : i \in 1 .. len + 1}  BY <1>2 DEF Range
    <3>2. QED  BY <1>1, <2>1, <3>1
  <2>5. QED  BY <1>2, <2>2, <2>3, <2>4 DEF NodeLists, IsInjective
<1>4. CASE longer = [i \in 1 .. len + 1 |-> IF i = 1 THEN n ELSE list[i - 1]]
  <2>1. /\ 1 \in 1 .. len + 1 /\ longer[1] = n
        /\ \A i \in 1 .. len : i + 1 \in 1 .. len + 1 /\ longer[i + 1] = list[i]
        /\ \A i \in 1 .. len + 1 : i = 1 \/ (i - 1 \in 1 .. len /\ longer[i] = list[i - 1])
    <3>1. \A i \in 1 .. len : i + 1 \in 1 .. len + 1 /\ i + 1 # 1 /\ (i + 1) - 1 = i
      OBVIOUS
    <3>2. \A i \in 1 .. len + 1 : i = 1 \/ i - 1 \in 1 .. len  OBVIOUS
    <3>3. QED  BY <1>4, <3>1, <3>2
  <2>2. longer \in [1 .. len + 1 -> Nodes]  BY <1>1, <1>2, <1>4, <2>1
  <2>3. ASSUME NEW i \in 1 .. len + 1, NEW j \in 1 .. len + 1, longer[i] = longer[j]
        PROVE  i = j
    <3>1. CASE i = 1 \/ j = 1  BY <1>1, <2>1, <2>3, <3>1
    <3>2. CASE i # 1 /\ j # 1
      <4>1. i - 1 = j - 1  BY <1>1, <2>1, <2>3, <3>2
      <4>2. QED  BY <4>1
    <3>3. QED  BY <3>1, <3>2
  <2>4. Range(longer) = Range(list) \cup {n}
    <3>1. Range(longer) = {longer[i] : i \in 1 .. len + 1}  BY <1>2 DEF Range
    <3>2. QED  BY <1>1, <2>1, <3>1
  <2>5. QED  BY <1>2, <2>2, <2>3, <2>4 DEF NodeLists, IsInjective
<1>5. QED  BY <1>3, <1>4

\* The links of a list that grows at the front.
LEMMA LinkedGrows ==
  ASSUME NEW len \in Nat, NEW list \in NodeLists(len), NEW n, NEW links, NEW first,
         Linked(links, first, list), links[n] = first, NEW longer \in NodeLists(len + 1),
         longer = [i \in 1 .. len + 1 |-> IF i = 1 THEN n ELSE list[i - 1]]
  PROVE  Linked(links, n, longer)
<1>1. /\ DOMAIN list = 1 .. len /\ Len(list) = len /\ (list = <<>> <=> len = 0)
      /\ DOMAIN longer = 1 .. len + 1 /\ Len(longer) = len + 1 /\ longer # <<>>
  BY NodeListIsSeq
<1>2. /\ 1 \in 1 .. len + 1 /\ longer[1] = n
      /\ \A i \in 1 .. len : i + 1 \in 1 .. len + 1 /\ longer[i + 1] = list[i]
  <2>1. \A i \in 1 .. len : i + 1 \in 1 .. len + 1 /\ i + 1 # 1 /\ (i + 1) - 1 = i  OBVIOUS
  <2>2. QED  BY <2>1
<1>3. links[longer[1]] = IF 1 = len + 1 THEN None ELSE longer[1 + 1]
  <2>1. CASE len = 0  BY <1>1, <1>2, <2>1 DEF Linked
  <2>2. CASE len # 0
    <3>1. 1 \in 1 .. len /\ first = list[1]  BY <1>1, <2>2 DEF Linked
    <3>2. longer[1 + 1] = list[1]  BY <1>2, <3>1
    <3>3. QED  BY <1>2, <2>2, <3>1, <3>2
  <2>3. QED  BY <2>1, <2>2
<1>4. ASSUME NEW i \in 1 .. len
      PROVE  links[longer[i + 1]] = IF i + 1 = len + 1 THEN None ELSE longer[(i + 1) + 1]
  <2>1. links[list[i]] = IF i = len THEN None ELSE list[i + 1]  BY <1>1 DEF Linked
  <2>2. (i = len <=> i + 1 = len + 1) /\ (i # len => i + 1 \in 1 .. len)  OBVIOUS
  <2>3. i # len => longer[(i + 1) + 1] = list[i + 1]  BY <1>2, <2>2
  <2>4. QED  BY <1>2, <2>1, <2>2, <2>3
<1>5. ASSUME NEW i \in 1 .. len + 1
      PROVE  links[longer[i]] = IF i = len + 1 THEN None ELSE longer[i + 1]
  <2>1. CASE i = 1  BY <1>3, <2>1
  <2>2. CASE i # 1
    <3>1. i - 1 \in 1 .. len /\ (i - 1) + 1 = i  BY <2>2
    <3>2. PICK j \in 1 .. len : j + 1 = i  BY <3>1
    <3>3. QED  BY <1>4, <3>2
  <2>3. QED  BY <2>1, <2>2
<1>6. n = IF longer = <<>> THEN None ELSE longer[1]  BY <1>1, <1>2
<1>7. \A i \in DOMAIN longer :
        links[longer[i]] = IF i = Len(longer) THEN None ELSE longer[i + 1]
  BY <1>1, <1>5
<1>8. QED  BY <1>6, <1>7 DEF Linked

\* The first and the last node of a divided list.
LEMMA Ends ==
  ASSUME ListTypeOK, NEW list \in NodeLists(mSize), NEW free \in NodeLists(nodes - mSize),
         Divided(list, free)
  PROVE  /\ mHead = None <=> mSize = 0
         /\ mTail = None <=> mSize = 0
         /\ mSize # 0 => 1 \in 1 .. mSize /\ mHead = list[1]
         /\ mSize # 0 => mSize \in 1 .. mSize /\ mTail = list[mSize]
         /\ mSize \in Nat
         /\ \A i \in 1 .. mSize : next[list[i]] = IF i = mSize THEN None ELSE list[i + 1]
<1>1. mSize \in Nat /\ (mSize # 0 => 1 \in 1 .. mSize /\ mSize \in 1 .. mSize)
  BY DEF ListTypeOK
<1>2. QED  BY <1>1, NodeListIsSeq DEF Divided, Linked

LEMMA PutIsPut ==
  ASSUME FifoInv, NEW v \in Values, put(v) PROVE FifoInv' /\ Order!Put(v)
<1>1. PICK list \in NodeLists(mSize), free \in NodeLists(nodes - mSize) : Divided(list, free)
  BY DEF FifoInv
<1>2. PICK n : n = Allocated  OBVIOUS
<1>3. ListTypeOK /\ allocate  BY DEF FifoInv, put
<1>4. /\ nodes' \in 0 .. MaxNodes /\ nodes' - (mSize + 1) \in Nat /\ mFreeList' \in 0 .. MaxNodes
      /\ n \in Nodes /\ n \notin Range(list)
  BY <1>1, <1>2, <1>3, AllocateTakes
<1>5. PICK rest \in NodeLists(nodes' - (mSize + 1)) :
              /\ Linked(next, mFreeList', rest) /\ IsInjective(rest)
              /\ n \notin Range(rest) /\ Range(list) \cap Range(rest) = {}
              /\ Range(list) \cup Range(rest) \cup {n} = 1 .. nodes'
  BY <1>1, <1>2, <1>3, AllocateTakes
<1>6. /\ data' = [data EXCEPT ![n] = v] /\ next' = PutLinks(n) /\ mTail' = n
      /\ mHead' = (IF mHead = None THEN n ELSE mHead)
      /\ mSize' = mSize + 1 /\ returned' = returned
  BY <1>2 DEF put
<1> DEFINE len == mSize
<1>7. /\ len \in Nat /\ DOMAIN list = 1 .. len
      /\ \A i \in 1 .. len : list[i] \in Nodes /\ list[i] \in Range(list) /\ list[i] # n
      /\ \A i, j \in 1 .. len : list[i] = list[j] => i = j
  <2>1. len \in Nat  BY <1>1, <1>3, Ends
  <2>2. DOMAIN list = 1 .. len /\ \A i \in 1 .. len : list[i] \in Nodes
    BY <2>1, NodeListIsSeq
  <2>3. \A i \in 1 .. len : list[i] \in Range(list)  BY <2>2 DEF Range
  <2>4. IsInjective(list)  BY <1>1 DEF Divided
  <2>5. \A i, j \in 1 .. len : list[i] = list[j] => i = j  BY <2>2, <2>4 DEF IsInjective
  <2>6. QED  BY <1>4, <2>1, <2>2, <2>3, <2>5
<1>8. PICK longer : longer = [i \in 1 .. len + 1 |-> IF i = len + 1 THEN n ELSE list[i]]
  OBVIOUS
<1>9. longer \in NodeLists(len + 1) /\ IsInjective(longer) /\ Range(longer) = Range(list) \cup {n}
  BY <1>1, <1>4, <1>7, <1>8, ListGrows DEF Divided
<1>10. /\ longer[len + 1] = n /\ len + 1 \in 1 .. len + 1
       /\ \A i \in 1 .. len : i \in 1 .. len + 1 /\ longer[i] = list[i]
       /\ DOMAIN longer = 1 .. len + 1 /\ Len(longer) = len + 1 /\ longer # <<>>
  <2>1. DOMAIN longer = 1 .. len + 1 /\ Len(longer) = len + 1 /\ longer # <<>>
    BY <1>7, <1>9, NodeListIsSeq
  <2>2. QED  BY <1>7, <1>8, <2>1
<1>11. /\ next'[n] = None
       /\ len # 0 => next'[list[len]] = n
       /\ \A m \in Nodes : m # n /\ m # mTail => next'[m] = next[m]
       /\ next' \in [Nodes -> 0 .. MaxNodes]
  <2>1. next \in [Nodes -> 0 .. MaxNodes] /\ None \in 0 .. MaxNodes /\ n \in 0 .. MaxNodes
    BY <1>3, <1>4, FifoAssumption DEF ListTypeOK, None, Nodes
  <2>2. CASE len = 0
    <3>1. next' = [next EXCEPT ![n] = None]  BY <1>1, <1>3, <1>6, <2>2, Ends DEF PutLinks
    <3>2. QED  BY <1>4, <2>1, <2>2, <3>1
  <2>3. CASE len # 0
    <3>1. mTail = list[len] /\ mTail # None /\ mTail \in Nodes /\ mTail # n
      BY <1>1, <1>3, <1>7, <2>3, Ends
    <3>2. next' = [next EXCEPT ![n] = None, ![mTail] = n]  BY <1>6, <3>1 DEF PutLinks
    <3>3. QED  BY <1>4, <2>1, <3>1, <3>2
  <2>4. QED  BY <2>2, <2>3
<1>12. Linked(next', mHead', longer)
  <2>1. mHead' = longer[1]
    <3>1. CASE len = 0  BY <1>1, <1>3, <1>6, <1>10, <3>1, Ends
    <3>2. CASE len # 0  BY <1>1, <1>3, <1>6, <1>7, <1>10, <3>2, Ends
    <3>3. QED  BY <3>1, <3>2
  <2>2. ASSUME NEW i \in 1 .. len
        PROVE  next'[longer[i]] = longer[i + 1] /\ i # len + 1
    <3>1. CASE i = len
      BY <1>10, <1>11, <2>2, <3>1
    <3>2. CASE i # len
      <4>1. i + 1 \in 1 .. len /\ len # 0 /\ len \in 1 .. len  BY <1>7, <2>2, <3>2
      <4>2. list[i] # mTail /\ list[i] # n /\ list[i] \in Nodes
        BY <1>1, <1>3, <1>7, <2>2, <3>2, <4>1, Ends
      <4>3. next'[list[i]] = list[i + 1]  BY <1>1, <1>3, <1>11, <2>2, <3>2, <4>2, Ends
      <4>4. QED  BY <1>10, <2>2, <4>1, <4>3
    <3>3. QED  BY <3>1, <3>2
  <2>3. \A i \in 1 .. len + 1 : i = len + 1 \/ i \in 1 .. len  BY <1>7
  <2>4. \A i \in DOMAIN longer :
          next'[longer[i]] = IF i = Len(longer) THEN None ELSE longer[i + 1]
    BY <1>10, <1>11, <2>2, <2>3
  <2>5. QED  BY <1>10, <2>1, <2>4 DEF Linked
<1>13. Linked(next', mFreeList', rest)
  <2>1. mTail = None \/ mTail \in Range(list)  BY <1>1, <1>3, <1>7, Ends
  <2>2. \A m \in Range(rest) : m \in Nodes /\ m # None
    BY <1>4, <1>5, NodeListIsSeq DEF Range
  <2>3. \A m \in Range(rest) : next'[m] = next[m]  BY <1>5, <1>11, <2>1, <2>2
  <2>4. QED  BY <1>4, <1>5, <2>3, LinkedElsewhere
<1>14. ListTypeOK'
  <2>1. data' \in [Nodes -> Items]  BY <1>3, <1>6 DEF ListTypeOK, Items
  <2>2. mHead' \in 0 .. MaxNodes  BY <1>3, <1>4, <1>6 DEF ListTypeOK, Nodes
  <2>3. mSize' \in 0 .. nodes'
    <3>1. mSize + 1 \in Nat  BY <1>7
    <3>2. nodes' \in Int  BY <1>4, FifoAssumption
    <3>3. nodes' - (mSize + 1) \in Nat  BY <1>4
    <3>4. QED  BY <1>6, <3>1, <3>2, <3>3
  <2>4. QED  BY <1>4, <1>11, <2>1, <2>2, <2>3 DEF ListTypeOK
<1>15. longer \in NodeLists(mSize') /\ rest \in NodeLists(nodes' - mSize')
  BY <1>5, <1>6, <1>9
<1>16. Divided(longer, rest)'
  <2>1. Range(longer) \cap Range(rest) = {} /\ Range(longer) \cup Range(rest) = 1 .. nodes'
    BY <1>5, <1>9
  <2>2. mTail' = IF longer = <<>> THEN None ELSE longer[mSize']  BY <1>6, <1>10
  <2>3. QED  BY <1>5, <1>9, <1>12, <1>13, <2>1, <2>2 DEF Divided
<1>17. FifoInv'  BY <1>14, <1>15, <1>16 DEF FifoInv
<1>18. /\ Represented = [i \in 1 .. len |-> data[list[i]]]
       /\ Represented \in Seq(Items) /\ Len(Represented) = len
  BY <1>1, <1>3, Represents
<1>19. /\ Represented' = [i \in 1 .. len + 1 |-> data'[longer[i]]]
       /\ Represented' \in Seq(Items) /\ Len(Represented') = len + 1
  BY <1>6, <1>14, <1>15, <1>16, RepresentsNext
<1>20. /\ data'[n] = v /\ \A m \in Nodes : m # n => data'[m] = data[m]
  BY <1>3, <1>4, <1>6 DEF ListTypeOK
<1>21. Represented' = Append(Represented, v)
  <2>1. v \in Items  BY DEF Items
  <2>2. PICK old : old = Represented  OBVIOUS
  <2>3. old \in Seq(Items) /\ Len(old) = len  BY <1>18, <2>2
  <2>4. /\ Append(old, v) \in Seq(Items) /\ Len(Append(old, v)) = len + 1
        /\ \A i \in 1 .. len : Append(old, v)[i] = old[i]
        /\ Append(old, v)[len + 1] = v
    BY <2>1, <2>3, AppendProperties
  <2>5. \A i \in 1 .. len + 1 : i = len + 1 \/ i \in 1 .. len  BY <1>7
  <2>6. \A i \in 1 .. len : old[i] = data[list[i]]  BY <1>18, <2>2
  <2>7. \A i \in 1 .. len + 1 : Represented'[i] = Append(old, v)[i]
    BY <1>7, <1>10, <1>19, <1>20, <2>4, <2>5, <2>6
  <2>8. Represented' = Append(old, v)  BY <1>19, <2>4, <2>7, SeqEqual
  <2>9. QED  BY <2>2, <2>8
<1>22. QED  BY <1>6, <1>17, <1>21 DEF Order!Put

LEMMA PushFrontIsPushFront ==
  ASSUME FifoInv, NEW v \in Values, push_front(v) PROVE FifoInv' /\ Order!PushFront(v)
<1>1. PICK list \in NodeLists(mSize), free \in NodeLists(nodes - mSize) : Divided(list, free)
  BY DEF FifoInv
<1>2. PICK n : n = Allocated  OBVIOUS
<1>3. ListTypeOK /\ allocate  BY DEF FifoInv, push_front
<1>4. /\ nodes' \in 0 .. MaxNodes /\ nodes' - (mSize + 1) \in Nat /\ mFreeList' \in 0 .. MaxNodes
      /\ n \in Nodes /\ n \notin Range(list)
  BY <1>1, <1>2, <1>3, AllocateTakes
<1>5. PICK rest \in NodeLists(nodes' - (mSize + 1)) :
              /\ Linked(next, mFreeList', rest) /\ IsInjective(rest)
              /\ n \notin Range(rest) /\ Range(list) \cap Range(rest) = {}
              /\ Range(list) \cup Range(rest) \cup {n} = 1 .. nodes'
  BY <1>1, <1>2, <1>3, AllocateTakes
<1>6. /\ data' = [data EXCEPT ![n] = v] /\ next' = [next EXCEPT ![n] = mHead] /\ mHead' = n
      /\ mTail' = (IF mTail = None THEN n ELSE mTail)
      /\ mSize' = mSize + 1 /\ returned' = returned
  BY <1>2 DEF push_front
<1> DEFINE len == mSize
<1>7. /\ len \in Nat /\ DOMAIN list = 1 .. len
      /\ \A i \in 1 .. len : list[i] \in Nodes /\ list[i] # n
  <2>1. len \in Nat  BY <1>1, <1>3, Ends
  <2>2. DOMAIN list = 1 .. len /\ \A i \in 1 .. len : list[i] \in Nodes
    BY <2>1, NodeListIsSeq
  <2>3. \A i \in 1 .. len : list[i] \in Range(list)  BY <2>2 DEF Range
  <2>4. QED  BY <1>4, <2>1, <2>2, <2>3
<1>8. PICK longer : longer = [i \in 1 .. len + 1 |-> IF i = 1 THEN n ELSE list[i - 1]]
  OBVIOUS
<1>9. longer \in NodeLists(len + 1) /\ IsInjective(longer) /\ Range(longer) = Range(list) \cup {n}
  <2>1. list \in NodeLists(len) /\ IsInjective(list)  BY <1>1 DEF Divided
  <2>2. len \in Nat  BY <1>7
  <2>3. n \in Nodes /\ n \notin Range(list)  BY <1>4
  <2> HIDE DEF len
  <2>4. QED  BY <1>8, <2>1, <2>2, <2>3, ListGrows
<1>10. /\ longer[1] = n /\ 1 \in 1 .. len + 1
       /\ \A i \in 1 .. len : i + 1 \in 1 .. len + 1 /\ longer[i + 1] = list[i]
       /\ \A i \in 1 .. len + 1 : i = 1 \/ (i - 1 \in 1 .. len /\ (i - 1) + 1 = i)
       /\ DOMAIN longer = 1 .. len + 1 /\ Len(longer) = len + 1 /\ longer # <<>>
  <2>1. DOMAIN longer = 1 .. len + 1 /\ Len(longer) = len + 1 /\ longer # <<>>
    BY <1>7, <1>9, NodeListIsSeq
  <2>2. \A i \in 1 .. len : i + 1 \in 1 .. len + 1 /\ i + 1 # 1 /\ (i + 1) - 1 = i  BY <1>7
  <2>3. \A i \in 1 .. len + 1 : i = 1 \/ (i - 1 \in 1 .. len /\ (i - 1) + 1 = i)  BY <1>7
  <2>4. QED  BY <1>7, <1>8, <2>1, <2>2, <2>3
<1>11. /\ next'[n] = mHead
       /\ \A m \in Nodes : m # n => next'[m] = next[m]
       /\ next' \in [Nodes -> 0 .. MaxNodes]
  BY <1>3, <1>4, <1>6 DEF ListTypeOK
<1>12. Linked(next', mHead', longer)
  <2>1. Linked(next', mHead, list)
    <3>1. \A m \in Range(list) : next'[m] = next[m]
      <4>1. Range(list) = {list[i] : i \in 1 .. len}  BY <1>7 DEF Range
      <4>2. QED  BY <1>7, <1>11, <4>1
    <3>2. Linked(next, mHead, list) /\ list \in NodeLists(len)  BY <1>1 DEF Divided
    <3>3. len \in Nat  BY <1>7
    <3>4. QED  BY <3>1, <3>2, <3>3, LinkedElsewhere
  <2>2. len \in Nat /\ list \in NodeLists(len) /\ next'[n] = mHead  BY <1>1, <1>7, <1>11
  <2> HIDE DEF len
  <2>3. Linked(next', n, longer)  BY <1>8, <1>9, <2>1, <2>2, LinkedGrows
  <2>4. QED  BY <1>6, <2>3
<1>13. Linked(next', mFreeList', rest)
  <2>1. \A m \in Range(rest) : m \in Nodes  BY <1>4, <1>5, NodeListIsSeq DEF Range
  <2>2. \A m \in Range(rest) : next'[m] = next[m]  BY <1>5, <1>11, <2>1
  <2>3. QED  BY <1>4, <1>5, <2>2, LinkedElsewhere
<1>14. ListTypeOK'
  <2>1. data' \in [Nodes -> Items]  BY <1>3, <1>6 DEF ListTypeOK, Items
  <2>2. mHead' \in 0 .. MaxNodes  BY <1>4, <1>6 DEF Nodes
  <2>3. mSize' \in 0 .. nodes'
    <3>1. mSize + 1 \in Nat  BY <1>7
    <3>2. nodes' \in Int  BY <1>4, FifoAssumption
    <3>3. nodes' - (mSize + 1) \in Nat  BY <1>4
    <3>4. QED  BY <1>6, <3>1, <3>2, <3>3
  <2>4. QED  BY <1>4, <1>11, <2>1, <2>2, <2>3 DEF ListTypeOK
<1>15. longer \in NodeLists(mSize') /\ rest \in NodeLists(nodes' - mSize')
  BY <1>5, <1>6, <1>9
<1>16. Divided(longer, rest)'
  <2>1. Range(longer) \cap Range(rest) = {} /\ Range(longer) \cup Range(rest) = 1 .. nodes'
    BY <1>5, <1>9
  <2>2. mTail' = longer[mSize']
    <3>1. CASE len = 0  BY <1>1, <1>3, <1>6, <1>10, <3>1, Ends
    <3>2. CASE len # 0
      <4>1. len \in 1 .. len /\ mTail = list[len] /\ mTail # None  BY <1>1, <1>3, <3>2, Ends
      <4>2. QED  BY <1>6, <1>10, <4>1
    <3>3. QED  BY <3>1, <3>2
  <2>3. mTail' = IF longer = <<>> THEN None ELSE longer[mSize']  BY <1>10, <2>2
  <2>4. QED  BY <1>5, <1>9, <1>12, <1>13, <2>1, <2>3 DEF Divided
<1>17. FifoInv'  BY <1>14, <1>15, <1>16 DEF FifoInv
<1>18. PICK old : old = Represented  OBVIOUS
<1>19. /\ old = [i \in 1 .. len |-> data[list[i]]]
       /\ old \in Seq(Items) /\ Len(old) = len
  BY <1>1, <1>3, <1>18, Represents
<1>20. /\ Represented' = [i \in 1 .. len + 1 |-> data'[longer[i]]]
       /\ Represented' \in Seq(Items) /\ Len(Represented') = len + 1
  BY <1>6, <1>14, <1>15, <1>16, RepresentsNext
<1>21. /\ data'[n] = v /\ \A m \in Nodes : m # n => data'[m] = data[m]
  BY <1>3, <1>4, <1>6 DEF ListTypeOK
<1>22. Represented' = <<v>> \o old
  <2>1. PICK one : one = <<v>>  OBVIOUS
  <2>2. one \in Seq(Items) /\ Len(one) = 1 /\ one[1] = v  BY <2>1 DEF Items
  <2>3. PICK both : both = one \o old  OBVIOUS
  <2>4. /\ both \in Seq(Items) /\ Len(both) = len + 1
        /\ \A i \in 1 .. len + 1 : both[i] = IF i <= 1 THEN one[i] ELSE old[i - 1]
    <3>1. /\ both \in Seq(Items) /\ Len(both) = Len(one) + Len(old)
          /\ \A i \in 1 .. Len(one) + Len(old) :
               both[i] = IF i <= Len(one) THEN one[i] ELSE old[i - Len(one)]
      BY <1>19, <2>2, <2>3, ConcatProperties
    <3>2. Len(one) + Len(old) = len + 1  BY <1>7, <1>19, <2>2
    <3>3. QED  BY <2>2, <3>1, <3>2
  <2>5. ASSUME NEW i \in 1 .. len + 1 PROVE Represented'[i] = both[i]
    <3>1. CASE i = 1
      <4>1. both[i] = v  BY <2>2, <2>4, <3>1
      <4>2. QED  BY <1>10, <1>20, <1>21, <3>1, <4>1
    <3>2. CASE i # 1
      <4>1. i - 1 \in 1 .. len /\ (i - 1) + 1 = i /\ ~(i <= 1)  BY <1>10, <2>5, <3>2
      <4>2. both[i] = old[i - 1]  BY <2>4, <4>1
      <4>3. longer[i] = list[i - 1]  BY <1>10, <4>1
      <4>4. QED  BY <1>7, <1>19, <1>20, <1>21, <4>1, <4>2, <4>3
    <3>3. QED  BY <3>1, <3>2
  <2>6. Represented' = both  BY <1>20, <2>4, <2>5, SeqEqual
  <2>7. QED  BY <2>1, <2>3, <2>6
<1>23. QED  BY <1>6, <1>17, <1>18, <1>22 DEF Order!PushFront

LEMMA GetIsGet ==
  ASSUME FifoInv, get PROVE FifoInv' /\ Order!Get
<1>1. PICK list \in NodeLists(mSize), free \in NodeLists(nodes - mSize) : Divided(list, free)
  BY DEF FifoInv
<1>2. ListTypeOK  BY DEF FifoInv
<1>3. PICK old : old = Represented  OBVIOUS
<1>4. /\ old = [i \in 1 .. mSize |-> data[list[i]]]
      /\ old \in Seq(Items) /\ Len(old) = mSize
  BY <1>1, <1>2, <1>3, Represents
<1>5. /\ mSize \in Nat /\ nodes - mSize \in Nat /\ nodes \in Nat /\ mSize <= nodes
      /\ nodes <= MaxNodes /\ MaxNodes \in Nat
  BY <1>2, FifoAssumption DEF ListTypeOK
<1>6. old = <<>> <=> mSize = 0  BY <1>4, EmptySeq
<1>7. CASE mHead = None
  <2>1. returned' = NULL /\ UNCHANGED <<nodes, next, data, mHead, mTail, mFreeList, mSize>>
    BY <1>7 DEF get
  <2>2. mSize = 0  BY <1>1, <1>2, <1>7, Ends
  <2>3. Divided(list, free)'  BY <1>1, <2>1 DEF Divided
  <2>4. ListTypeOK'  BY <1>2, <2>1 DEF ListTypeOK
  <2>5. list \in NodeLists(mSize') /\ free \in NodeLists(nodes' - mSize')  BY <1>1, <2>1
  <2>6. Represented' \in Seq(Items) /\ Len(Represented') = 0
    BY <2>1, <2>2, <2>3, <2>4, <2>5, RepresentsNext
  <2>7. Represented' = <<>> /\ old = <<>>  BY <1>6, <2>2, <2>6, EmptySeq
  <2>8. FifoInv'  BY <2>3, <2>4, <2>5 DEF FifoInv
  <2>9. QED  BY <1>3, <2>1, <2>7, <2>8 DEF Order!Get
<1>8. CASE mHead # None
  <2>1. /\ returned' = data[mHead] /\ next' = [next EXCEPT ![mHead] = mFreeList]
        /\ mFreeList' = mHead /\ mHead' = next[mHead]
        /\ mTail' = (IF next[mHead] = None THEN None ELSE mTail)
        /\ mSize' = mSize - 1 /\ nodes' = nodes /\ data' = data
    BY <1>8 DEF get
  <2>2. mSize # 0 /\ 1 \in 1 .. mSize /\ mHead = list[1]  BY <1>1, <1>2, <1>8, Ends
  <2>3. PICK n : n = mHead  OBVIOUS
  <2>4. n \in Nodes /\ n \in Range(list) /\ DOMAIN list = 1 .. mSize /\ list # <<>>
    BY <1>1, <1>5, <2>2, <2>3, NodeListIsSeq DEF Range
  <2>5. PICK len : len = mSize - 1  OBVIOUS
  <2>6. len \in Nat /\ mSize = len + 1 /\ mSize' = len  BY <1>5, <2>1, <2>2, <2>5
  <2>7. PICK rest : rest = [i \in 1 .. mSize - 1 |-> list[i + 1]]  OBVIOUS
  <2>8. /\ rest \in NodeLists(len) /\ IsInjective(rest)
        /\ Range(list) = Range(rest) \cup {n} /\ n \notin Range(rest)
        /\ Linked(next, next[n], rest)
    <3>1. IsInjective(list) /\ Linked(next, list[1], list)  BY <1>1, <2>2 DEF Divided
    <3>2. list[1] = n  BY <2>2, <2>3
    <3>3. QED  BY <1>1, <1>5, <2>2, <2>5, <2>7, <3>1, <3>2, ListShrinks
  <2>9. /\ DOMAIN rest = 1 .. len /\ Len(rest) = len /\ (rest = <<>> <=> len = 0)
        /\ \A i \in 1 .. len : i + 1 \in 1 .. mSize /\ rest[i] = list[i + 1]
    <3>1. DOMAIN rest = 1 .. len /\ Len(rest) = len /\ (rest = <<>> <=> len = 0)
      BY <2>6, <2>8, NodeListIsSeq
    <3>2. \A i \in 1 .. len : i + 1 \in 1 .. mSize  BY <2>6
    <3>3. QED  BY <2>5, <2>7, <3>1, <3>2
  <2>10. PICK spare : spare = nodes - mSize  OBVIOUS
  <2>11. spare \in Nat /\ free \in NodeLists(spare) /\ nodes' - mSize' = spare + 1
    BY <1>1, <1>5, <2>1, <2>10
  <2>12. IsInjective(free) /\ Range(list) \cap Range(free) = {} /\ Linked(next, mFreeList, free)
         /\ Range(list) \cup Range(free) = 1 .. nodes
    BY <1>1 DEF Divided
  <2>13. PICK longer : longer = [i \in 1 .. spare + 1 |-> IF i = 1 THEN n ELSE free[i - 1]]
    OBVIOUS
  <2>14. longer \in NodeLists(spare + 1) /\ IsInjective(longer)
         /\ Range(longer) = Range(free) \cup {n}
    BY <2>4, <2>11, <2>12, <2>13, ListGrows
  <2>15. /\ next'[n] = mFreeList
         /\ \A m \in Nodes : m # n => next'[m] = next[m]
         /\ next' \in [Nodes -> 0 .. MaxNodes] /\ next[n] \in 0 .. MaxNodes
    BY <1>2, <2>1, <2>3, <2>4 DEF ListTypeOK
  <2>16. Linked(next', mHead', rest)
    <3>1. \A m \in Range(rest) : m \in Nodes  BY <2>6, <2>8, NodeListIsSeq DEF Range
    <3>2. \A m \in Range(rest) : next'[m] = next[m]  BY <2>8, <2>15, <3>1
    <3>3. Linked(next', next[n], rest)  BY <2>6, <2>8, <3>2, LinkedElsewhere
    <3>4. QED  BY <2>1, <2>3, <3>3
  <2>17. Linked(next', mFreeList', longer)
    <3>1. \A m \in Range(free) : m \in Nodes  BY <2>11, NodeListIsSeq DEF Range
    <3>2. \A m \in Range(free) : next'[m] = next[m]  BY <2>4, <2>12, <2>15, <3>1
    <3>3. Linked(next', mFreeList, free)  BY <2>11, <2>12, <3>2, LinkedElsewhere
    <3>4. next'[n] = mFreeList /\ mFreeList' = n  BY <2>1, <2>3, <2>15
    <3>5. QED  BY <2>11, <2>13, <2>14, <3>3, <3>4, LinkedGrows
  <2>18. ListTypeOK'
    <3>1. mSize' \in 0 .. nodes'  BY <1>5, <2>1, <2>2
    <3>2. mFreeList' \in 0 .. MaxNodes  BY <1>2, <2>1 DEF ListTypeOK
    <3>3. QED  BY <1>2, <2>1, <2>3, <2>15, <3>1, <3>2 DEF ListTypeOK
  <2>19. Divided(rest, longer)'
    <3>1. Range(rest) \cap Range(longer) = {} /\ Range(rest) \cup Range(longer) = 1 .. nodes'
      BY <2>1, <2>8, <2>12, <2>14
    <3>2. mTail' = IF rest = <<>> THEN None ELSE rest[mSize']
      <4>1. next[list[1]] = IF 1 = mSize THEN None ELSE list[1 + 1]
        BY <1>1, <1>2, <2>2, Ends
      <4>2. CASE len = 0  BY <2>1, <2>2, <2>6, <2>9, <4>1, <4>2
      <4>3. CASE len # 0
        <5>1. 1 + 1 \in 1 .. mSize /\ 1 # mSize /\ len \in 1 .. len  BY <2>6, <4>3
        <5>2. next[mHead] # None  BY <1>1, <1>5, <2>2, <4>1, <5>1, NodeListIsSeq
        <5>3. mTail = list[mSize]  BY <1>1, <1>2, <2>2, Ends
        <5>4. rest[len] = list[len + 1]  BY <2>9, <5>1
        <5>5. QED  BY <2>1, <2>6, <2>9, <4>3, <5>2, <5>3, <5>4
      <4>4. QED  BY <4>2, <4>3
    <3>3. QED  BY <2>8, <2>14, <2>16, <2>17, <3>1, <3>2 DEF Divided
  <2>20. rest \in NodeLists(mSize') /\ longer \in NodeLists(nodes' - mSize')
    BY <2>6, <2>8, <2>11, <2>14
  <2>21. FifoInv'  BY <2>18, <2>19, <2>20 DEF FifoInv
  <2>22. /\ Represented' = [i \in 1 .. len |-> data'[rest[i]]]
         /\ Represented' \in Seq(Items) /\ Len(Represented') = len
    BY <2>6, <2>18, <2>19, <2>20, RepresentsNext
  <2>23. PICK tail : tail = Tail(old)  OBVIOUS
  <2>24. /\ tail \in Seq(Items) /\ Len(tail) = len
         /\ \A i \in 1 .. len : tail[i] = old[i + 1]
    <3>1. old \in Seq(Items) /\ old # <<>>  BY <1>4, <1>6, <2>2
    <3>2. /\ tail \in Seq(Items) /\ Len(tail) = Len(old) - 1
          /\ \A i \in 1 .. Len(tail) : tail[i] = old[i + 1]
      BY <2>23, <3>1, HeadTailProperties
    <3>3. Len(old) - 1 = len  BY <1>4, <2>5
    <3>4. QED  BY <3>2, <3>3
  <2>25. \A i \in 1 .. len : Represented'[i] = tail[i]
    BY <1>4, <2>1, <2>9, <2>22, <2>24
  <2>26. Represented' = Tail(old)
    <3>1. Represented' = tail  BY <2>22, <2>24, <2>25, SeqEqual
    <3>2. QED  BY <2>23, <3>1
  <2>27. returned' = Head(old)  BY <1>4, <2>1, <2>2
  <2>28. old # <<>>  BY <1>6, <2>2
  <2>29. QED  BY <1>3, <2>21, <2>26, <2>27, <2>28 DEF Order!Get
<1>9. QED  BY <1>7, <1>8

LEMMA NextFifo == FifoInv /\ [ListNext]_listVars => FifoInv' /\ [Order!FifoNext]_(Order!fifoVars)
<1> SUFFICES ASSUME FifoInv, [ListNext]_listVars
             PROVE  FifoInv' /\ [Order!FifoNext]_(Order!fifoVars)
  OBVIOUS
<1>1. CASE get  BY <1>1, GetIsGet DEF Order!FifoNext
<1>2. ASSUME NEW v \in Values, put(v)
      PROVE  FifoInv' /\ [Order!FifoNext]_(Order!fifoVars)
  BY <1>2, PutIsPut DEF Order!FifoNext
<1>3. ASSUME NEW v \in Values, push_front(v)
      PROVE  FifoInv' /\ [Order!FifoNext]_(Order!fifoVars)
  BY <1>3, PushFrontIsPushFront DEF Order!FifoNext
<1>4. CASE UNCHANGED listVars
  <2>1. FifoInv'  BY <1>4 DEF FifoInv, ListTypeOK, Divided, listVars
  <2>2. Represented' = Represented /\ returned' = returned
    BY <1>4 DEF Represented, NodesInOneList, Contents, listVars
  <2>3. QED  BY <2>1, <2>2 DEF Order!fifoVars
<1>5. QED  BY <1>1, <1>2, <1>3, <1>4 DEF ListNext

\* The linked list with its free list behaves as a FIFO for any number of
\* nodes and values: nothing is lost, repeated or reordered when nodes come
\* back from the free list or the last item goes (PointerFIFO of
\* LinkedLists.cpp).
THEOREM ListIsFifo == ListSpec => ImplementsFifo
<1>1. ListInit => FifoInv /\ Order!FifoInit  BY InitFifo
<1>2. FifoInv /\ [ListNext]_listVars => FifoInv' /\ [Order!FifoNext]_(Order!fifoVars)
  BY NextFifo
<1>3. QED  BY <1>1, <1>2, PTL DEF ListSpec, ImplementsFifo, Order!FifoSpec

-----------------------------------------------------------------------------
(* Interthread.                                                             *)

InterTypeOK ==
  /\ container \in Kinds \cup {"none"}
  /\ stored \in [Keys -> Nat] /\ call \in [Threads -> CallType]

\* What a call of each method may look like in its container.
Fits(c) ==
  /\ c.op = "none" <=> c.at = "out"
  /\ c.op = "write" <=> c.at = "signal"
  /\ c.op = "none" => c.key = OneKey
  /\ c.timed => c.op \in {"get", "either"}
  /\ c.alone => c.op = "wait"
  /\ c.late => c.timed /\ c.at # "asleep"
  /\ c.op = "either" => container = "connected"
  /\ c.op = "wait" => container = "lowWater"
  /\ c.op = "write" => container \in Queues
  /\ container = "none" => c.op = "none"
  /\ container \notin {"connected", "map"} => c.key = OneKey
  /\ c.keep => c.op = "get" /\ container = "map"

CallsFit == \A t \in Threads : Fits(call[t])

\* The contract of connected queues, of which one thread only is signalled;
\* and who is alone in waiting for the low water mark.
OneBlocks ==
  /\ container = "connected" =>
       \A t, u \in Blocking({"get", "either"}) : t = u
  /\ \A t, u \in Threads : call[t].alone /\ call[u].op = "wait" => t = u

\* The parts of NoWakeupLost, and what makes the first one inductive: in a
\* map an element that is kept is seen by everyone.
Count(k) == Cardinality(Signalling(k)) + Cardinality(Running(k))

HasWake(k) == stored[k] <= Count(k) /\ (container = "map" => stored[k] = 0)

GetsWake ==
  \A k \in Keys : \A t \in Asleep({"get"}) : call[t].key = k => HasWake(k)

EithersWake ==
  \A t \in Asleep({"either"}) : \A k \in Keys : stored[k] > 0 => Signalling(k) # {}

WaitsWake ==
  \A t \in Asleep({"wait"}) : call[t].alone => stored[call[t].key] > call[t].mark

Shaped == InterTypeOK /\ CallsFit /\ OneBlocks
WakeInv == Shaped /\ GetsWake /\ EithersWake /\ WaitsWake

-----------------------------------------------------------------------------
(* Counting.                                                                *)

LEMMA SmallerCount ==
  ASSUME NEW A \in SUBSET Threads, NEW B \in SUBSET Threads
  PROVE  /\ Cardinality(A) \in Nat
         /\ A \subseteq B => Cardinality(A) <= Cardinality(B)
         /\ A # {} => Cardinality(A) > 0
         /\ \A t \in Threads : A \ {t} \subseteq B => Cardinality(A) - 1 <= Cardinality(B)
         /\ \A t \in Threads : A \cup {t} \subseteq B /\ t \notin A
                                => Cardinality(A) + 1 <= Cardinality(B)
<1>1. IsFiniteSet(A) /\ IsFiniteSet(B)  BY FS_Subset, InterthreadAssumption
<1>2. Cardinality(A) \in Nat /\ Cardinality(B) \in Nat  BY <1>1, FS_CardinalityType
<1>3. A \subseteq B => Cardinality(A) <= Cardinality(B)  BY <1>1, FS_Subset
<1>4. A # {} => Cardinality(A) > 0  BY <1>1, <1>2, FS_EmptySet
<1>5. ASSUME NEW t \in Threads, A \ {t} \subseteq B
      PROVE  Cardinality(A) - 1 <= Cardinality(B)
  <2>1. CASE t \in A
    <3>1. Cardinality(A \ {t}) = Cardinality(A) - 1  BY <1>1, <2>1, FS_RemoveElement
    <3>2. Cardinality(A \ {t}) <= Cardinality(B)  BY <1>1, <1>5, FS_Subset
    <3>3. QED  BY <3>1, <3>2
  <2>2. CASE t \notin A
    <3>1. A \subseteq B  BY <1>5, <2>2
    <3>2. QED  BY <3>1, <1>2, <1>3
  <2>3. QED  BY <2>1, <2>2
<1>6. ASSUME NEW t \in Threads, A \cup {t} \subseteq B, t \notin A
      PROVE  Cardinality(A) + 1 <= Cardinality(B)
  <2>1. Cardinality(A \cup {t}) = Cardinality(A) + 1  BY <1>1, <1>6, FS_AddElement
  <2>2. Cardinality(A \cup {t}) <= Cardinality(B)  BY <1>1, <1>6, FS_Subset
  <2>3. QED  BY <2>1, <2>2
<1>7. QED  BY <1>2, <1>3, <1>4, <1>5, <1>6

\* The sets that are counted, and the marks, are of their types.
LEMMA Counted ==
  ASSUME NEW k \in Keys
  PROVE  /\ Signalling(k) \in SUBSET Threads /\ Running(k) \in SUBSET Threads
         /\ Signalling(k)' \in SUBSET Threads /\ Running(k)' \in SUBSET Threads
  BY DEF Signalling, Running

LEMMA MarksAreNumbers == \A m \in Marks \cup {0} : m \in Nat
<1>1. Marks \subseteq Nat  BY InterthreadAssumption
<1>2. 0 \in Nat  OBVIOUS
<1>3. QED  BY <1>1, <1>2, Zenon

LEMMA OneKeyIsKey == OneKey \in Keys
  BY InterthreadAssumption DEF OneKey

-----------------------------------------------------------------------------
(* What a step does to the calls: that of t becomes c, those of "woken"     *)
(* run.                                                                     *)

CallMoved(t, c, woken) ==
  call' = [u \in Threads |-> IF u = t THEN c
                             ELSE IF u \in woken THEN [call[u] EXCEPT !.at = "runs"]
                             ELSE call[u]]

LEMMA BecomesMoved ==
  ASSUME InterTypeOK, NEW t \in Threads, NEW c, call' = [call EXCEPT ![t] = c]
  PROVE  CallMoved(t, c, {})
  BY DEF InterTypeOK, CallMoved

LEMMA WakeMoved ==
  ASSUME InterTypeOK, NEW t \in Threads, NEW c, NEW woken, t \notin woken,
         call' = Wake([call EXCEPT ![t] = c], woken)
  PROVE  CallMoved(t, c, woken)
  BY DEF InterTypeOK, CallMoved, Wake

LEMMA OnlyWakeMoved ==
  ASSUME InterTypeOK, NEW t \in Threads, NEW woken, t \notin woken, call' = Wake(call, woken)
  PROVE  CallMoved(t, call[t], woken)
  BY DEF InterTypeOK, CallMoved, Wake

\* Such a step keeps the shape of the calls, if c has it and the one that
\* blocks alone is not joined by another.
LEMMA ShapeKept ==
  ASSUME Shaped, NEW t \in Threads, NEW c \in CallType, Fits(c), NEW woken,
         CallMoved(t, c, woken), t \notin woken, \A u \in woken : call[u].at = "asleep",
         container' = container, stored' \in [Keys -> Nat],
         container = "connected" /\ c.op \in {"get", "either"} /\ ~c.late
           => Blocking({"get", "either"}) \subseteq {t},
         c.alone => call[t].alone, c.op = "wait" => call[t].op = "wait"
  PROVE  Shaped'
<1> USE DEF Shaped
<1>1. \A u \in Threads : call[u] \in CallType  BY DEF InterTypeOK
<1>2. \A u \in Threads : call'[u] = IF u = t THEN c
                             ELSE IF u \in woken THEN [call[u] EXCEPT !.at = "runs"]
                             ELSE call[u]
  BY DEF CallMoved
<1>3. \A u \in Threads : [call[u] EXCEPT !.at = "runs"] \in CallType
  BY <1>1 DEF CallType
<1>4. InterTypeOK'  BY <1>1, <1>3 DEF InterTypeOK, CallMoved
<1>5. CallsFit'
  <2> SUFFICES ASSUME NEW u \in Threads  PROVE Fits(call[u])'
    BY DEF CallsFit
  <2>1. CASE u = t
    <3>1. Fits(c) /\ call'[u] = c  BY <1>2, <2>1
    <3>2. QED  BY <3>1 DEF Fits
  <2>2. CASE u # t /\ u \in woken
    <3>1. call[u].at = "asleep" /\ Fits(call[u])  BY <2>2 DEF CallsFit
    <3>2. call'[u] = [call[u] EXCEPT !.at = "runs"]  BY <1>2, <2>2
    <3>3. QED  BY <1>1, <3>1, <3>2 DEF Fits, CallType
  <2>3. CASE u # t /\ u \notin woken
    <3>1. Fits(call[u]) /\ call'[u] = call[u]  BY <1>2, <2>3 DEF CallsFit
    <3>2. QED  BY <3>1 DEF Fits
  <2>4. QED  BY <2>1, <2>2, <2>3
<1>6. \A u \in Threads \ {t} : /\ call'[u].op = call[u].op /\ call'[u].late = call[u].late
                             /\ call'[u].alone = call[u].alone
  <2> SUFFICES ASSUME NEW u \in Threads \ {t}
               PROVE  /\ call'[u].op = call[u].op /\ call'[u].late = call[u].late
                      /\ call'[u].alone = call[u].alone
    OBVIOUS
  <2>1. call[u] \in CallType  BY <1>1
  <2>2. CASE u \in woken
    <3>1. call'[u] = [call[u] EXCEPT !.at = "runs"]  BY <1>2, <2>2
    <3>2. QED  BY <2>1, <3>1 DEF CallType
  <2>3. CASE u \notin woken  BY <1>2, <2>3
  <2>4. QED  BY <2>2, <2>3
<1>7. call'[t] = c  BY <1>2
<1>8. (container = "connected" => \A u, w \in Blocking({"get", "either"}) : u = w)'
  BY <1>6, <1>7 DEF OneBlocks, Blocking
<1>9. \A u, w \in Threads : call'[u].alone /\ call'[w].op = "wait" => u = w
  BY <1>6, <1>7 DEF OneBlocks
<1>10. QED  BY <1>4, <1>5, <1>8, <1>9 DEF OneBlocks

\* Who signals, runs and sleeps after it.
LEMMA AfterMove ==
  ASSUME InterTypeOK, NEW t \in Threads, NEW c, NEW woken, CallMoved(t, c, woken), t \notin woken,
         \A u \in woken : call[u].at = "asleep"
  PROVE  /\ call'[t] = c
         /\ \A k \in Keys :
              /\ Signalling(k) \ {t} \subseteq Signalling(k)'
              /\ Running(k) \ {t} \subseteq Running(k)'
              /\ \A u \in woken \cap Threads :
                   call[u].op = "get" /\ call[u].key = k => u \in Running(k)' \ Running(k)
              /\ t \in Signalling(k)' <=> c.at = "signal" /\ c.key = k
              /\ t \in Running(k)' <=> c.op = "get" /\ c.at = "runs" /\ c.key = k
         /\ \A u \in Threads \ {t} : call'[u].at = "asleep" => u \notin woken /\ call'[u] = call[u]
<1>1. \A u \in Threads : call[u] \in CallType  BY DEF InterTypeOK
<1>2. \A u \in Threads : call'[u] = IF u = t THEN c
                             ELSE IF u \in woken THEN [call[u] EXCEPT !.at = "runs"]
                             ELSE call[u]
  BY DEF CallMoved
<1>3. ASSUME NEW u \in woken \cap Threads
      PROVE  /\ call'[u].at = "runs" /\ call[u].at = "asleep"
             /\ call'[u].op = call[u].op /\ call'[u].key = call[u].key
  <2>1. call[u] \in CallType /\ call'[u] = [call[u] EXCEPT !.at = "runs"]  BY <1>1, <1>2
  <2>2. QED  BY <2>1 DEF CallType
<1>4. \A u \in Threads \ {t} : u \notin woken => call'[u] = call[u]  BY <1>2
<1>5. ASSUME NEW k \in Keys
      PROVE  /\ Signalling(k) \ {t} \subseteq Signalling(k)'
             /\ Running(k) \ {t} \subseteq Running(k)'
             /\ \A u \in woken \cap Threads :
                  call[u].op = "get" /\ call[u].key = k => u \in Running(k)' \ Running(k)
             /\ t \in Signalling(k)' <=> c.at = "signal" /\ c.key = k
             /\ t \in Running(k)' <=> c.op = "get" /\ c.at = "runs" /\ c.key = k
  <2>1. Signalling(k) \ {t} \subseteq Signalling(k)'  BY <1>4 DEF Signalling
  <2>2. Running(k) \ {t} \subseteq Running(k)'  BY <1>4 DEF Running
  <2>3. \A u \in woken \cap Threads :
          call[u].op = "get" /\ call[u].key = k => u \in Running(k)' \ Running(k)
    BY <1>3 DEF Running
  <2>4. call'[t] = c  BY <1>2
  <2>5. t \in Signalling(k)' <=> c.at = "signal" /\ c.key = k  BY <2>4 DEF Signalling
  <2>6. t \in Running(k)' <=> c.op = "get" /\ c.at = "runs" /\ c.key = k  BY <2>4 DEF Running
  <2>7. QED  BY <2>1, <2>2, <2>3, <2>5, <2>6
<1>6. QED  BY <1>2, <1>3, <1>4, <1>5

\* A key keeps its wake-ups when nobody else than t stops to signal or run.
LEMMA KeyKeeps ==
  ASSUME NEW k \in Keys, stored \in [Keys -> Nat], stored' \in [Keys -> Nat], HasWake(k),
         stored'[k] <= stored[k], container' = container,
         Signalling(k) \subseteq Signalling(k)', Running(k) \subseteq Running(k)'
  PROVE  HasWake(k)'
<1>1. Cardinality(Signalling(k)) <= Cardinality(Signalling(k)')  BY Counted, SmallerCount
<1>2. Cardinality(Running(k)) <= Cardinality(Running(k)')  BY Counted, SmallerCount
<1>3. /\ Cardinality(Signalling(k)) \in Nat /\ Cardinality(Signalling(k)') \in Nat
      /\ Cardinality(Running(k)) \in Nat /\ Cardinality(Running(k)') \in Nat
  BY Counted, SmallerCount
<1>4. stored[k] \in Nat /\ stored'[k] \in Nat  OBVIOUS
<1>5. QED  BY <1>1, <1>2, <1>3, <1>4 DEF HasWake, Count

\* A key at which nothing is stored needs none.
LEMMA EmptyKeeps ==
  ASSUME NEW k \in Keys, stored'[k] = 0
  PROVE  HasWake(k)'
<1>1. Cardinality(Signalling(k)') \in Nat /\ Cardinality(Running(k)') \in Nat
  BY Counted, SmallerCount
<1>2. QED  BY <1>1 DEF HasWake, Count

\* A call begins, or wakes without a signal.
LEMMA RisingKeeps ==
  ASSUME WakeInv, Shaped', NEW t \in Threads, NEW c, CallMoved(t, c, {}),
         container' = container, stored' = stored, c.at = "runs", call[t].at # "signal",
         call[t].op = "get" => c.op = "get" /\ c.key = call[t].key
  PROVE  WakeInv'
<1> USE DEF WakeInv, Shaped
<1>1. /\ call'[t] = c
      /\ \A u \in Threads \ {t} : call'[u].at = "asleep" => call'[u] = call[u]
      /\ \A k \in Keys :
           /\ Signalling(k) \ {t} \subseteq Signalling(k)'
           /\ Running(k) \ {t} \subseteq Running(k)'
           /\ t \in Running(k)' <=> c.op = "get" /\ c.at = "runs" /\ c.key = k
  BY AfterMove
<1>2. \A u \in Threads : call'[u].at = "asleep" => u # t /\ call[u] = call'[u]  BY <1>1
<1>3. ASSUME NEW k \in Keys
      PROVE  Signalling(k) \subseteq Signalling(k)' /\ Running(k) \subseteq Running(k)'
  <2>1. t \notin Signalling(k)  BY DEF Signalling
  <2>2. t \in Running(k) => t \in Running(k)'  BY <1>1 DEF Running
  <2>3. Signalling(k) \ {t} \subseteq Signalling(k)' /\ Running(k) \ {t} \subseteq Running(k)'
    BY <1>1
  <2>4. QED  BY <2>1, <2>2, <2>3
<1>4. GetsWake'
  <2> SUFFICES ASSUME NEW k \in Keys, NEW u \in Threads,
                      call'[u].op = "get", call'[u].at = "asleep", call'[u].key = k
               PROVE  HasWake(k)'
    BY DEF GetsWake, Asleep
  <2>1. HasWake(k)  BY <1>2 DEF GetsWake, Asleep
  <2>2. stored \in [Keys -> Nat] /\ stored'[k] <= stored[k]  BY DEF InterTypeOK
  <2>3. QED  BY <2>1, <2>2, <1>3, KeyKeeps
<1>5. EithersWake'  BY <1>2, <1>3 DEF EithersWake, Asleep
<1>6. WaitsWake'  BY <1>2 DEF WaitsWake, Asleep
<1>7. QED  BY <1>4, <1>5, <1>6

\* t no longer runs, and takes nothing: its call ends, or it sleeps or spins.
LEMMA StopKeeps ==
  ASSUME WakeInv, Shaped', NEW t \in Threads, NEW c, CallMoved(t, c, {}),
         container' = container, stored' = stored, call[t].at = "runs",
         Met(call[t]) => call[t].op # "get" /\ c.at = "out",
         c.at \in {"out", "spins"} \/ c = [call[t] EXCEPT !.at = "asleep"]
  PROVE  WakeInv'
<1> USE DEF WakeInv, Shaped
<1>1. /\ call'[t] = c
      /\ \A u \in Threads \ {t} : call'[u].at = "asleep" => call'[u] = call[u]
      /\ \A k \in Keys :
           /\ Signalling(k) \ {t} \subseteq Signalling(k)'
           /\ Running(k) \ {t} \subseteq Running(k)'
  BY AfterMove
<1>2. call[t] \in CallType  BY DEF InterTypeOK
<1>3. call'[t].at = "asleep" =>
        /\ ~Met(call[t]) /\ call'[t].op = call[t].op /\ call'[t].key = call[t].key
        /\ call'[t].mark = call[t].mark
  BY <1>1, <1>2 DEF CallType
<1>4. ASSUME NEW k \in Keys
      PROVE  Signalling(k) \subseteq Signalling(k)'
  BY <1>1 DEF Signalling
<1>5. GetsWake'
  <2> SUFFICES ASSUME NEW k \in Keys, NEW u \in Threads,
                      call'[u].op = "get", call'[u].at = "asleep", call'[u].key = k
               PROVE  HasWake(k)'
    BY DEF GetsWake, Asleep
  <2>1. CASE call[t].op = "get" /\ call[t].key = k
    <3>1. stored[k] \in Nat /\ ~(stored[k] > 0)  BY <2>1 DEF Met, InterTypeOK
    <3>2. QED  BY <3>1, EmptyKeeps
  <2>2. CASE ~(call[t].op = "get" /\ call[t].key = k)
    <3>1. u # t  BY <1>3, <2>2
    <3>2. HasWake(k)  BY <1>1, <3>1 DEF GetsWake, Asleep
    <3>3. t \notin Running(k)  BY <2>2 DEF Running
    <3>4. Running(k) \subseteq Running(k)'  BY <1>1, <3>3
    <3>5. stored \in [Keys -> Nat] /\ stored'[k] <= stored[k]  BY DEF InterTypeOK
    <3>6. QED  BY <1>4, <3>2, <3>4, <3>5, KeyKeeps
  <2>3. QED  BY <2>1, <2>2
<1>6. EithersWake'
  <2> SUFFICES ASSUME NEW u \in Threads, call'[u].op = "either", call'[u].at = "asleep",
                      NEW k \in Keys, stored'[k] > 0
               PROVE  Signalling(k)' # {}
    BY DEF EithersWake, Asleep
  <2>1. u # t  BY <1>3 DEF Met
  <2>2. Signalling(k) # {}  BY <1>1, <2>1 DEF EithersWake, Asleep
  <2>3. QED  BY <1>4, <2>2
<1>7. WaitsWake'
  <2> SUFFICES ASSUME NEW u \in Threads, call'[u].op = "wait", call'[u].at = "asleep",
                      call'[u].alone
               PROVE  stored'[call'[u].key] > call'[u].mark
    BY DEF WaitsWake, Asleep
  <2>1. CASE u = t
    <3>1. ~(stored[call[t].key] <= call[t].mark)  BY <1>3, <2>1 DEF Met
    <3>2. stored[call[t].key] \in Nat /\ call[t].mark \in Nat
      BY <1>2, InterthreadAssumption DEF InterTypeOK, CallType
    <3>3. QED  BY <1>3, <2>1, <3>1, <3>2
  <2>2. CASE u # t  BY <1>1, <2>2 DEF WaitsWake, Asleep
  <2>3. QED  BY <2>1, <2>2
<1>8. QED  BY <1>5, <1>6, <1>7

-----------------------------------------------------------------------------
(* The signals that are given.                                              *)

LEMMA ReadWakesWaiter ==
  ASSUME Shaped, NEW woken \in ReadWakes
  PROVE  /\ \A u \in woken : call[u].op = "wait" /\ call[u].at = "asleep"
         /\ \A u \in Asleep({"wait"}) : call[u].alone => u \in woken
<1>1. CASE container = "lowWater"
  <2>1. woken \in OneOf(Asleep({"wait"}))  BY <1>1 DEF ReadWakes
  <2>2. ASSUME NEW u \in Asleep({"wait"}), call[u].alone  PROVE u \in woken
    <3>1. Asleep({"wait"}) = {u}  BY <2>2 DEF Shaped, OneBlocks, Asleep
    <3>2. QED  BY <2>1, <3>1 DEF OneOf
  <2>3. QED  BY <2>1, <2>2 DEF OneOf, Asleep
<1>2. CASE container # "lowWater"
  <2>1. Asleep({"wait"}) = {}  BY <1>2 DEF Shaped, CallsFit, Fits, Asleep
  <2>2. QED  BY <1>2, <2>1 DEF ReadWakes
<1>3. QED  BY <1>1, <1>2

LEMMA SignalWakesBlocked ==
  ASSUME Shaped, container = "connected", NEW woken \in OneOf(Asleep({"get", "either"}))
  PROVE  woken = Asleep({"get", "either"})
<1>1. Asleep({"get", "either"}) \subseteq Blocking({"get", "either"})
  BY DEF Shaped, CallsFit, Fits, Asleep, Blocking
<1>2. QED  BY <1>1 DEF OneOf, Shaped, OneBlocks

LEMMA NoCallFits == NoCall \in CallType /\ Fits(NoCall)
  BY OneKeyIsKey DEF NoCall, CallType, Fits

-----------------------------------------------------------------------------
(* The steps.                                                               *)

LEMMA AsksKeeps ==
  ASSUME WakeInv, NEW t \in Threads, NEW k \in KeysOf(container), NEW timed \in BOOLEAN,
         NEW late \in BOOLEAN, NEW keep \in BOOLEAN, Asks(t, k, timed, late, keep),
         container # "none", keep => container = "map",
         container = "connected" /\ ~late => Blocking({"get", "either"}) = {}
  PROVE  WakeInv'
<1> DEFINE c == [NoCall EXCEPT !.op = "get", !.key = k, !.at = "runs", !.timed = timed,
                              !.late = late, !.keep = keep]
<1>1. /\ call[t].at = "out" /\ (late => timed) /\ call' = [call EXCEPT ![t] = c]
      /\ container' = container /\ stored' = stored
  BY DEF Asks, Out, Starts
<1>2. CallMoved(t, c, {})  BY <1>1, BecomesMoved DEF WakeInv, Shaped
<1>3. k \in Keys  BY OneKeyIsKey DEF KeysOf
<1>4. /\ c \in CallType /\ c.op = "get" /\ c.at = "runs" /\ c.late = late /\ c.key = k
      /\ c.timed = timed /\ c.keep = keep /\ ~c.alone
  BY <1>3, OneKeyIsKey DEF NoCall, CallType
<1> HIDE DEF c
<1>5. Fits(c)  BY <1>1, <1>4 DEF Fits, KeysOf
<1>6. stored' \in [Keys -> Nat]  BY <1>1 DEF WakeInv, Shaped, InterTypeOK
<1>7. Shaped'  BY <1>1, <1>2, <1>4, <1>5, <1>6, ShapeKept DEF WakeInv
<1>8. call[t].op # "get"  BY <1>1 DEF WakeInv, Shaped, CallsFit, Fits
<1>9. QED  BY <1>1, <1>2, <1>4, <1>7, <1>8, RisingKeeps

\* The call that looks at either queue.
LEMMA EitherKeeps ==
  ASSUME WakeInv, NEW t \in Threads, iqWaitForEither(t)
  PROVE  WakeInv'
<1>1. PICK timed \in BOOLEAN :
        Starts(t, [NoCall EXCEPT !.op = "either", !.at = "runs", !.timed = timed])
  BY DEF iqWaitForEither
<1> DEFINE c == [NoCall EXCEPT !.op = "either", !.at = "runs", !.timed = timed]
<1>2. /\ call[t].at = "out" /\ container = "connected" /\ Blocking({"get", "either"}) = {}
      /\ call' = [call EXCEPT ![t] = c] /\ container' = container /\ stored' = stored
  BY <1>1 DEF iqWaitForEither, Out, Starts
<1>3. c \in CallType /\ c.op = "either" /\ c.at = "runs" /\ ~c.alone
  BY OneKeyIsKey DEF NoCall, CallType
<1>4. Fits(c)  BY <1>2 DEF NoCall, Fits
<1> HIDE DEF c
<1>5. CallMoved(t, c, {})  BY <1>2, BecomesMoved DEF WakeInv, Shaped
<1>6. stored' \in [Keys -> Nat]  BY <1>2 DEF WakeInv, Shaped, InterTypeOK
<1>7. Shaped'  BY <1>2, <1>3, <1>4, <1>5, <1>6, ShapeKept DEF WakeInv
<1>8. call[t].op # "get"  BY <1>2 DEF WakeInv, Shaped, CallsFit, Fits
<1>9. QED  BY <1>2, <1>3, <1>5, <1>7, <1>8, RisingKeeps

\* One more waits for the low water mark: at most it is alone.
LEMMA WaitLowWaterKeeps ==
  ASSUME WakeInv, NEW t \in Threads, WaitLowWater(t)
  PROVE  WakeInv'
<1> USE DEF WakeInv, Shaped
<1>1. PICK m \in Marks :
        call' = [u \in Threads |->
                   IF u = t THEN [NoCall EXCEPT !.op = "wait", !.at = "runs", !.mark = m,
                                                !.alone = Blocking({"wait"}) = {}]
                   ELSE [call[u] EXCEPT !.alone = FALSE]]
  BY DEF WaitLowWater
<1> DEFINE c == [NoCall EXCEPT !.op = "wait", !.at = "runs", !.mark = m,
                               !.alone = Blocking({"wait"}) = {}]
<1>2. /\ call[t].at = "out" /\ container = "lowWater" /\ container' = container
      /\ stored' = stored
  BY DEF WaitLowWater, Out
<1>3. /\ c \in CallType /\ c.op = "wait" /\ c.at = "runs"
      /\ c.alone <=> Blocking({"wait"}) = {}
  BY OneKeyIsKey DEF NoCall, CallType
<1>4. Fits(c)  BY <1>2 DEF NoCall, Fits
<1>5. call'[t] = c  BY <1>1
<1> HIDE DEF c
<1>6. ASSUME NEW u \in Threads \ {t}
      PROVE  /\ call'[u] \in CallType /\ Fits(call'[u])
             /\ call'[u].op = call[u].op /\ call'[u].at = call[u].at
             /\ call'[u].key = call[u].key /\ ~call'[u].alone
  <2>1. call'[u] = [call[u] EXCEPT !.alone = FALSE]  BY <1>1
  <2>2. call[u] \in CallType /\ Fits(call[u])  BY DEF InterTypeOK, CallsFit
  <2>3. QED  BY <2>1, <2>2 DEF CallType, Fits
<1>7. InterTypeOK'
  <2>1. \A u \in Threads : call'[u] \in CallType  BY <1>3, <1>5, <1>6
  <2>2. QED  BY <1>1, <1>2, <2>1 DEF InterTypeOK
<1>8. CallsFit'
  BY <1>2, <1>4, <1>5, <1>6 DEF CallsFit, Fits
<1>9. OneBlocks'
  <2> SUFFICES ASSUME NEW u \in Threads, NEW w \in Threads,
                      call'[u].alone, call'[w].op = "wait"
               PROVE  u = w
    BY <1>2 DEF OneBlocks
  <2>1. u = t /\ Blocking({"wait"}) = {}  BY <1>3, <1>5, <1>6
  <2>2. CASE w # t
    <3>1. call[w].op = "wait" /\ ~call[w].late  BY <1>6, <2>2 DEF CallsFit, Fits
    <3>2. QED  BY <2>1, <3>1 DEF Blocking
  <2>3. QED  BY <2>1, <2>2
<1>10. ASSUME NEW k \in Keys
       PROVE  Signalling(k) \subseteq Signalling(k)' /\ Running(k) \subseteq Running(k)'
  BY <1>2, <1>6 DEF Signalling, Running
<1>11. GetsWake'
  <2> SUFFICES ASSUME NEW k \in Keys, NEW u \in Threads,
                      call'[u].op = "get", call'[u].at = "asleep", call'[u].key = k
               PROVE  HasWake(k)'
    BY DEF GetsWake, Asleep
  <2>1. u # t  BY <1>3, <1>5
  <2>2. HasWake(k)  BY <1>6, <2>1 DEF GetsWake, Asleep
  <2>3. stored \in [Keys -> Nat] /\ stored'[k] <= stored[k]  BY <1>2 DEF InterTypeOK
  <2>4. QED  BY <1>2, <1>10, <2>2, <2>3, KeyKeeps
<1>12. EithersWake'
  BY <1>2, <1>3, <1>5, <1>6 DEF EithersWake, Asleep, CallsFit, Fits
<1>13. WaitsWake'  BY <1>3, <1>5, <1>6 DEF WaitsWake, Asleep
<1>14. QED  BY <1>7, <1>8, <1>9, <1>11, <1>12, <1>13

LEMMA CallsKeep ==
  ASSUME WakeInv, NEW t \in Threads, container # "none",
         ReadItem(t) \/ GetKey(t) \/ GetFlag(t) \/ iqWaitForEither(t) \/ WaitLowWater(t)
  PROVE  WakeInv'
<1>1. CASE ReadItem(t)
  <2>1. PICK k \in KeysOf(container), timed \in BOOLEAN, late \in BOOLEAN :
          /\ container = "connected" /\ ~late => Blocking({"get", "either"}) = {}
          /\ Asks(t, k, timed, late, FALSE)
    BY <1>1 DEF ReadItem
  <2>2. QED  BY <2>1, AsksKeeps
<1>2. CASE GetKey(t)
  <2>1. PICK k \in Keys, timed \in BOOLEAN, late \in BOOLEAN, keep \in BOOLEAN :
          Asks(t, k, timed, late, keep)
    BY <1>2 DEF GetKey
  <2>2. container = "map" /\ k \in KeysOf(container)  BY <1>2 DEF GetKey, KeysOf
  <2>3. QED  BY <2>1, <2>2, AsksKeeps
<1>3. CASE GetFlag(t)
  <2>1. PICK try \in BOOLEAN : Asks(t, OneKey, try, try, FALSE)  BY <1>3 DEF GetFlag
  <2>2. container = "semaphore" /\ OneKey \in KeysOf(container)  BY <1>3 DEF GetFlag, KeysOf
  <2>3. QED  BY <2>1, <2>2, AsksKeeps
<1>4. QED  BY <1>1, <1>2, <1>3, EitherKeeps, WaitLowWaterKeeps

LEMMA StutterKeeps ==
  ASSUME WakeInv, UNCHANGED interVars
  PROVE  WakeInv'
  BY DEF WakeInv, Shaped, InterTypeOK, CallsFit, Fits, OneBlocks, Blocking, GetsWake, HasWake, Count,
         Signalling, Running, EithersWake, WaitsWake, Asleep, interVars

LEMMA RousedKeeps ==
  ASSUME WakeInv, NEW t \in Threads, WakeSpuriously(t) \/ Expire(t)
  PROVE  WakeInv'
<1> USE DEF WakeInv, Shaped
<1>1. call[t] \in CallType /\ Fits(call[t])  BY DEF InterTypeOK, CallsFit
<1>2. stored' = stored /\ container' = container /\ stored' \in [Keys -> Nat]
  BY DEF WakeSpuriously, Expire, InterTypeOK
<1>3. CASE WakeSpuriously(t)
  <2> DEFINE c == [call[t] EXCEPT !.at = "runs"]
  <2>1. call[t].at = "asleep" /\ call' = [call EXCEPT ![t] = c]
    BY <1>3 DEF WakeSpuriously, InterTypeOK
  <2>2. /\ c \in CallType /\ c.at = "runs" /\ c.op = call[t].op /\ c.key = call[t].key
        /\ c.late = call[t].late /\ c.alone = call[t].alone /\ Fits(c)
    BY <1>1, <2>1 DEF CallType, Fits
  <2>3. CallMoved(t, c, {})  BY <2>1, BecomesMoved
  <2> HIDE DEF c
  <2>4. \A ops : c.op \in ops /\ ~c.late => t \in Blocking(ops)  BY <2>2 DEF Blocking
  <2>5. Shaped'  BY <1>2, <2>2, <2>3, <2>4, ShapeKept DEF OneBlocks
  <2>6. QED  BY <1>2, <2>1, <2>2, <2>3, <2>5, RisingKeeps
<1>4. CASE Expire(t)
  <2> DEFINE c == [call[t] EXCEPT !.late = TRUE, !.at = "runs"]
  <2>1. call[t].timed /\ call' = [call EXCEPT ![t] = c]
    BY <1>4 DEF Expire, InterTypeOK
  <2>2. call[t].op \in {"get", "either"} /\ call[t].at # "signal"  BY <1>1, <2>1 DEF Fits
  <2>3. /\ c \in CallType /\ c.at = "runs" /\ c.op = call[t].op /\ c.key = call[t].key
        /\ c.late /\ c.alone = call[t].alone /\ Fits(c)
    BY <1>1, <2>1, <2>2 DEF CallType, Fits
  <2>4. CallMoved(t, c, {})  BY <2>1, BecomesMoved
  <2> HIDE DEF c
  <2>5. Shaped'  BY <1>2, <2>3, <2>4, ShapeKept
  <2>6. QED  BY <1>2, <2>2, <2>3, <2>4, <2>5, RisingKeeps
<1>5. QED  BY <1>3, <1>4

LEMMA SleepsKeep ==
  ASSUME WakeInv, NEW t \in Threads, Sleep(t) \/ GiveUp(t)
  PROVE  WakeInv'
<1> USE DEF WakeInv, Shaped
<1>1. call[t] \in CallType /\ Fits(call[t])  BY DEF InterTypeOK, CallsFit
<1>2. /\ stored' = stored /\ container' = container /\ stored' \in [Keys -> Nat]
      /\ call[t].at = "runs" /\ ~Met(call[t])
  BY DEF Sleep, GiveUp, InterTypeOK
<1>3. CASE Sleep(t)
  <2> DEFINE c == [call[t] EXCEPT !.at = "asleep"]
  <2>1. ~call[t].late /\ call' = [call EXCEPT ![t] = c]  BY <1>3 DEF Sleep, InterTypeOK
  <2>2. /\ c \in CallType /\ c.op = call[t].op /\ c.late = call[t].late
        /\ c.alone = call[t].alone /\ Fits(c)
    BY <1>1, <1>2, <2>1 DEF CallType, Fits
  <2>3. CallMoved(t, c, {})  BY <2>1, BecomesMoved
  <2>4. c = [call[t] EXCEPT !.at = "asleep"]  OBVIOUS
  <2> HIDE DEF c
  <2>5. \A ops : c.op \in ops /\ ~c.late => t \in Blocking(ops)  BY <2>2 DEF Blocking
  <2>6. Shaped'  BY <1>2, <2>2, <2>3, <2>5, ShapeKept DEF OneBlocks
  <2>7. QED  BY <1>2, <2>3, <2>4, <2>6, StopKeeps
<1>4. CASE GiveUp(t)
  <2>1. CallMoved(t, NoCall, {})  BY <1>4, BecomesMoved DEF GiveUp, Returns
  <2>2. NoCall.op = "none" /\ NoCall.at = "out" /\ ~NoCall.alone  BY DEF NoCall
  <2>3. Shaped'  BY <1>2, <2>1, <2>2, NoCallFits, ShapeKept
  <2>4. QED  BY <1>2, <2>1, <2>2, <2>3, StopKeeps
<1>5. QED  BY <1>3, <1>4

LEMMA SpinKeeps ==
  ASSUME WakeInv, NEW t \in Threads, Spin(t)
  PROVE  WakeInv'
<1> USE DEF WakeInv, Shaped
<1> DEFINE c == [call[t] EXCEPT !.at = "spins"]
<1>1. call[t] \in CallType /\ Fits(call[t])  BY DEF InterTypeOK, CallsFit
<1>2. /\ stored' = stored /\ container' = container /\ stored' \in [Keys -> Nat]
      /\ call[t].op = "either" /\ call[t].late /\ call' = [call EXCEPT ![t] = c]
  BY DEF Spin, InterTypeOK
<1>3. /\ c \in CallType /\ c.op = "either" /\ c.at = "spins" /\ c.late
      /\ c.alone = call[t].alone
  BY <1>1, <1>2 DEF CallType
<1>4. CallMoved(t, c, {})  BY <1>2, BecomesMoved
<1>5. CASE call[t].at = "spins"
  <2>1. c = call[t]  BY <1>1, <1>5 DEF CallType
  <2>2. call' = call  BY <1>2, <2>1 DEF InterTypeOK
  <2>3. QED  BY <1>2, <2>2, StutterKeeps DEF interVars
<1>6. CASE call[t].at # "spins"
  <2>1. call[t].at = "runs" /\ ~Met(call[t])  BY <1>6 DEF Spin
  <2>2. Fits(c)  BY <1>1, <2>1 DEF CallType, Fits
  <2> HIDE DEF c
  <2>3. Shaped'  BY <1>2, <1>3, <1>4, <2>2, ShapeKept
  <2>4. QED  BY <1>2, <1>3, <1>4, <2>1, <2>3, StopKeeps
<1>7. QED  BY <1>5, <1>6

\* A get takes its item: one item less, one thread less to take one.
LEMMA TakesKeeps ==
  ASSUME WakeInv, NEW t \in Threads, Succeed(t), call[t].op = "get"
  PROVE  WakeInv'
<1> USE DEF WakeInv, Shaped
<1> DEFINE key == call[t].key
<1>1. /\ call[t] \in CallType /\ Fits(call[t]) /\ key \in Keys /\ stored[key] \in Nat
      /\ call[t].at = "runs" /\ container' = container
  BY DEF InterTypeOK, CallsFit, Succeed, CallType
<1>2. stored[key] > 0  BY DEF Succeed, Met
<1>3. PICK woken \in ReadWakes : call' = Wake(Returns(t), woken)  BY DEF Succeed
<1>4. /\ \A u \in woken : call[u].at = "asleep"
      /\ \A u \in Asleep({"wait"}) : call[u].alone => u \in woken
      /\ t \notin woken
  BY ReadWakesWaiter, <1>1
<1>5. CallMoved(t, NoCall, woken)  BY <1>3, <1>4, WakeMoved DEF Returns
<1>6. stored' = IF call[t].keep THEN stored ELSE [stored EXCEPT ![key] = @ - 1]  BY DEF Succeed
<1>7. /\ stored' \in [Keys -> Nat] /\ \A k \in Keys : stored'[k] <= stored[k]
      /\ ~call[t].keep => stored'[key] = stored[key] - 1
      /\ \A k \in Keys \ {key} : stored'[k] = stored[k]
  BY <1>1, <1>2, <1>6 DEF InterTypeOK
<1>8. NoCall.op = "none" /\ NoCall.at = "out" /\ ~NoCall.alone  BY DEF NoCall
<1>9. \A u \in woken : call[u].at = "asleep"  BY <1>4
<1>10. Shaped'  BY <1>1, <1>4, <1>5, <1>7, <1>8, <1>9, NoCallFits, ShapeKept
<1>11. /\ call'[t] = NoCall
       /\ \A u \in Threads \ {t} : call'[u].at = "asleep" => u \notin woken /\ call'[u] = call[u]
       /\ \A k \in Keys :
            /\ Signalling(k) \ {t} \subseteq Signalling(k)'
            /\ Running(k) \ {t} \subseteq Running(k)'
  BY <1>4, <1>5, <1>9, AfterMove
<1>12. \A u \in Threads : call'[u].at = "asleep" => u # t /\ u \notin woken /\ call'[u] = call[u]
  BY <1>8, <1>11
<1>13. ASSUME NEW k \in Keys  PROVE Signalling(k) \subseteq Signalling(k)'
  <2>1. t \notin Signalling(k)  BY <1>1 DEF Signalling
  <2>2. QED  BY <1>11, <2>1
<1>14. GetsWake'
  <2> SUFFICES ASSUME NEW k \in Keys, NEW u \in Threads,
                      call'[u].op = "get", call'[u].at = "asleep", call'[u].key = k
               PROVE  HasWake(k)'
    BY DEF GetsWake, Asleep
  <2>1. HasWake(k)  BY <1>12 DEF GetsWake, Asleep
  <2>2. CASE container = "map"
    <3>1. stored[k] = 0 /\ stored'[k] = 0  BY <2>1, <2>2, <1>7 DEF HasWake, InterTypeOK
    <3>2. QED  BY <3>1, EmptyKeeps
  <2>3. CASE container # "map" /\ k = key
    <3>1. stored'[k] = stored[k] - 1  BY <1>1, <1>7, <2>3 DEF Fits
    <3>2. Cardinality(Signalling(k)) <= Cardinality(Signalling(k)')
      BY <1>13, Counted, SmallerCount
    <3>3. Cardinality(Running(k)) - 1 <= Cardinality(Running(k)')
      BY <1>11, Counted, SmallerCount
    <3>4. /\ Cardinality(Signalling(k)) \in Nat /\ Cardinality(Signalling(k)') \in Nat
          /\ Cardinality(Running(k)) \in Nat /\ Cardinality(Running(k)') \in Nat
      BY Counted, SmallerCount
    <3>5. stored[k] \in Nat  BY <1>1, <2>3
    <3> HIDE DEF key
    <3>6. QED  BY <2>1, <2>3, <3>1, <3>2, <3>3, <3>4, <3>5, <1>1 DEF HasWake, Count
  <2>4. CASE k # key
    <3>1. t \notin Running(k)  BY <2>4 DEF Running
    <3>2. Running(k) \subseteq Running(k)'  BY <1>11, <3>1
    <3>3. stored \in [Keys -> Nat] /\ stored'[k] <= stored[k]  BY <1>7 DEF InterTypeOK
    <3>4. QED  BY <1>1, <1>7, <1>13, <2>1, <3>2, <3>3, KeyKeeps
  <2>5. QED  BY <2>2, <2>3, <2>4
<1>15. EithersWake'
  <2> SUFFICES ASSUME NEW u \in Threads, call'[u].op = "either", call'[u].at = "asleep",
                      NEW k \in Keys, stored'[k] > 0
               PROVE  Signalling(k)' # {}
    BY DEF EithersWake, Asleep
  <2>1. stored[k] > 0  BY <1>7 DEF InterTypeOK
  <2>2. Signalling(k) # {}  BY <1>12, <2>1 DEF EithersWake, Asleep
  <2>3. QED  BY <1>13, <2>2
<1>16. WaitsWake'  BY <1>4, <1>12 DEF WaitsWake, Asleep
<1>17. QED  BY <1>10, <1>14, <1>15, <1>16

LEMMA SucceedKeeps ==
  ASSUME WakeInv, NEW t \in Threads, Succeed(t)
  PROVE  WakeInv'
<1> USE DEF WakeInv, Shaped
<1>1. CASE call[t].op = "get"  BY <1>1, TakesKeeps
<1>2. CASE call[t].op # "get"
  <2>1. /\ stored' = stored /\ container' = container /\ call[t].at = "runs"
        /\ call' = [call EXCEPT ![t] = NoCall] /\ stored' \in [Keys -> Nat]
    BY <1>2 DEF Succeed, Returns, InterTypeOK
  <2>2. CallMoved(t, NoCall, {})  BY <2>1, BecomesMoved
  <2>3. NoCall.op = "none" /\ NoCall.at = "out" /\ ~NoCall.alone  BY DEF NoCall
  <2>4. Shaped'  BY <2>1, <2>2, <2>3, NoCallFits, ShapeKept
  <2>5. QED  BY <1>2, <2>1, <2>2, <2>3, <2>4, StopKeeps
<1>3. QED  BY <1>1, <1>2

\* One item more, and one thread that will signal it.
LEMMA WriteKeeps ==
  ASSUME WakeInv, NEW t \in Threads, Write(t)
  PROVE  WakeInv'
<1> USE DEF WakeInv, Shaped
<1>1. PICK key \in KeysOf(container) :
        /\ stored' = [stored EXCEPT ![key] = @ + 1]
        /\ Starts(t, [NoCall EXCEPT !.op = "write", !.key = key, !.at = "signal"])
  BY DEF Write
<1> DEFINE c == [NoCall EXCEPT !.op = "write", !.key = key, !.at = "signal"]
<1>2. key \in Keys  BY OneKeyIsKey DEF KeysOf
<1>3. /\ call[t].at = "out" /\ container \in Queues /\ container' = container
      /\ call' = [call EXCEPT ![t] = c]
  BY <1>1 DEF Write, Out, Starts
<1>4. c \in CallType /\ c.op = "write" /\ c.at = "signal" /\ c.key = key /\ ~c.alone
  BY <1>2, OneKeyIsKey DEF NoCall, CallType
<1>5. Fits(c)  BY <1>3 DEF NoCall, Fits, KeysOf, Queues
<1>6. CallMoved(t, c, {})  BY <1>3, BecomesMoved
<1> HIDE DEF c
<1>7. /\ stored' \in [Keys -> Nat] /\ stored \in [Keys -> Nat] /\ stored'[key] = stored[key] + 1
      /\ \A k \in Keys \ {key} : stored'[k] = stored[k]
  BY <1>1, <1>2 DEF InterTypeOK
<1>8. Shaped'  BY <1>3, <1>4, <1>5, <1>6, <1>7, ShapeKept
<1>9. /\ call'[t] = c
      /\ \A u \in Threads \ {t} : call'[u].at = "asleep" => call'[u] = call[u]
      /\ \A k \in Keys :
           /\ Signalling(k) \ {t} \subseteq Signalling(k)'
           /\ Running(k) \ {t} \subseteq Running(k)'
           /\ t \in Signalling(k)' <=> c.at = "signal" /\ c.key = k
  BY <1>6, AfterMove
<1>10. \A u \in Threads : call'[u].at = "asleep" => u # t /\ call'[u] = call[u]
  BY <1>4, <1>9
<1>11. ASSUME NEW k \in Keys
       PROVE  /\ Signalling(k) \subseteq Signalling(k)' /\ Running(k) \subseteq Running(k)'
              /\ t \notin Signalling(k) /\ (k = key => t \in Signalling(k)')
  <2>1. t \notin Signalling(k)  BY <1>3 DEF Signalling
  <2>2. t \notin Running(k)  BY <1>3 DEF Running
  <2>3. k = key => t \in Signalling(k)'  BY <1>4, <1>9
  <2>4. QED  BY <1>9, <2>1, <2>2, <2>3
<1>12. GetsWake'
  <2> SUFFICES ASSUME NEW k \in Keys, NEW u \in Threads,
                      call'[u].op = "get", call'[u].at = "asleep", call'[u].key = k
               PROVE  HasWake(k)'
    BY DEF GetsWake, Asleep
  <2>1. HasWake(k)  BY <1>10 DEF GetsWake, Asleep
  <2>2. CASE k = key
    <3>1. Cardinality(Signalling(k)) + 1 <= Cardinality(Signalling(k)')
      <4>1. Signalling(k) \cup {t} \subseteq Signalling(k)' /\ t \notin Signalling(k)
        BY <1>11, <2>2
      <4>2. QED  BY <4>1, Counted, SmallerCount
    <3>2. Cardinality(Running(k)) <= Cardinality(Running(k)')
      BY <1>11, Counted, SmallerCount
    <3>3. /\ Cardinality(Signalling(k)) \in Nat /\ Cardinality(Signalling(k)') \in Nat
          /\ Cardinality(Running(k)) \in Nat /\ Cardinality(Running(k)') \in Nat
      BY Counted, SmallerCount
    <3>4. stored'[k] = stored[k] + 1 /\ stored[k] \in Nat /\ container' # "map"
      BY <1>3, <1>7, <2>2 DEF Queues
    <3>5. QED  BY <2>1, <3>1, <3>2, <3>3, <3>4 DEF HasWake, Count
  <2>3. CASE k # key
    <3>1. stored'[k] <= stored[k]  BY <1>7, <2>3
    <3>2. QED  BY <1>3, <1>7, <1>11, <2>1, <3>1, KeyKeeps
  <2>4. QED  BY <2>2, <2>3
<1>13. EithersWake'
  <2> SUFFICES ASSUME NEW u \in Threads, call'[u].op = "either", call'[u].at = "asleep",
                      NEW k \in Keys, stored'[k] > 0
               PROVE  Signalling(k)' # {}
    BY DEF EithersWake, Asleep
  <2>1. CASE k = key  BY <1>11, <2>1
  <2>2. CASE k # key
    <3>1. stored[k] > 0  BY <1>7, <2>2
    <3>2. Signalling(k) # {}  BY <1>10, <3>1 DEF EithersWake, Asleep
    <3>3. QED  BY <1>11, <3>2
  <2>3. QED  BY <2>1, <2>2
<1>14. WaitsWake'
  <2> SUFFICES ASSUME NEW u \in Threads, call'[u].op = "wait", call'[u].at = "asleep",
                      call'[u].alone
               PROVE  stored'[call'[u].key] > call'[u].mark
    BY DEF WaitsWake, Asleep
  <2>1. call'[u] = call[u] /\ stored[call[u].key] > call[u].mark
    BY <1>10 DEF WaitsWake, Asleep
  <2>2. call[u].key \in Keys /\ call[u].mark \in Nat
    <3>1. call[u] \in CallType  BY DEF InterTypeOK
    <3>2. call[u].key \in Keys /\ call[u].mark \in Marks \cup {0}  BY <3>1 DEF CallType
    <3>3. QED  BY <3>2, MarksAreNumbers
  <2>3. stored'[call[u].key] >= stored[call[u].key]  BY <1>7, <2>2
  <2>4. stored'[call[u].key] \in Nat /\ stored[call[u].key] \in Nat  BY <1>7, <2>2
  <2>5. QED  BY <2>1, <2>2, <2>3, <2>4
<1>15. QED  BY <1>8, <1>12, <1>13, <1>14

\* The steps of a thread that stays out of its calls: "woken" run.
LEMMA WakesOnly ==
  ASSUME WakeInv, NEW t \in Threads, call[t].at = "out", NEW woken, call' = Wake(call, woken),
         \A u \in woken : call[u].at = "asleep", container' = container,
         stored' \in [Keys -> Nat]
  PROVE  /\ Shaped'
         /\ \A u \in Threads : call'[u].at = "asleep" => u \notin woken /\ call'[u] = call[u]
         /\ \A k \in Keys :
              /\ Signalling(k) \subseteq Signalling(k)' /\ Running(k) \subseteq Running(k)'
              /\ \A u \in woken \cap Threads :
                   call[u].op = "get" /\ call[u].key = k => u \in Running(k)'
<1> USE DEF WakeInv, Shaped
<1>1. t \notin woken  OBVIOUS
<1>2. CallMoved(t, call[t], woken)  BY <1>1, OnlyWakeMoved
<1>3. call[t] \in CallType /\ Fits(call[t]) /\ call[t].op = "none"
  BY DEF InterTypeOK, CallsFit, Fits
<1>4. Shaped'  BY <1>1, <1>2, <1>3, ShapeKept
<1>5. /\ call'[t] = call[t]
      /\ \A u \in Threads \ {t} : call'[u].at = "asleep" => u \notin woken /\ call'[u] = call[u]
      /\ \A k \in Keys :
           /\ Signalling(k) \ {t} \subseteq Signalling(k)'
           /\ Running(k) \ {t} \subseteq Running(k)'
           /\ \A u \in woken \cap Threads :
                call[u].op = "get" /\ call[u].key = k => u \in Running(k)' \ Running(k)
  BY <1>1, <1>2, AfterMove
<1>6. ASSUME NEW k \in Keys  PROVE t \notin Signalling(k) /\ t \notin Running(k)
  BY DEF Signalling, Running
<1>7. \A u \in Threads : call'[u].at = "asleep" => u \notin woken /\ call'[u] = call[u]
  BY <1>1, <1>5
<1>8. ASSUME NEW k \in Keys
      PROVE  /\ Signalling(k) \subseteq Signalling(k)' /\ Running(k) \subseteq Running(k)'
             /\ \A u \in woken \cap Threads :
                  call[u].op = "get" /\ call[u].key = k => u \in Running(k)'
  <2>1. Signalling(k) \subseteq Signalling(k)'  BY <1>5, <1>6
  <2>2. Running(k) \subseteq Running(k)'  BY <1>5, <1>6
  <2>3. \A u \in woken \cap Threads : call[u].op = "get" /\ call[u].key = k => u \in Running(k)'
    BY <1>5
  <2>4. QED  BY <2>1, <2>2, <2>3
<1>9. QED  BY <1>4, <1>7, <1>8

\* Only threads in a get can sleep at a map or a semaphore.
LEMMA OnlyGetsSleep ==
  ASSUME Shaped', container' \notin {"connected", "lowWater"}
  PROVE  EithersWake' /\ WaitsWake'
  BY DEF Shaped, CallsFit, Fits, EithersWake, WaitsWake, Asleep

LEMMA WriteKeyKeeps ==
  ASSUME WakeInv, NEW t \in Threads, WriteKey(t)
  PROVE  WakeInv'
<1>1. PICK key \in Keys, woken \in KeyWakes :
        stored' = [stored EXCEPT ![key] = 1] /\ call' = Wake(call, woken)
  BY DEF WriteKey
<1>2. woken = Asleep({"get"}) /\ \A u \in woken : call[u].at = "asleep"
  BY DEF KeyWakes, Asleep
<1>3. call[t].at = "out" /\ container' = container /\ container = "map"  BY DEF WriteKey, Out
<1>4. stored' \in [Keys -> Nat]  BY <1>1 DEF WakeInv, Shaped, InterTypeOK
<1>5. Shaped' /\ \A u \in Threads : call'[u].at = "asleep" => u \notin woken /\ call'[u] = call[u]
  BY <1>1, <1>2, <1>3, <1>4, WakesOnly
<1>6. GetsWake'  BY <1>2, <1>5 DEF GetsWake, Asleep
<1>7. QED  BY <1>3, <1>5, <1>6, OnlyGetsSleep DEF WakeInv

LEMMA PostKeeps ==
  ASSUME WakeInv, NEW t \in Threads, Post(t)
  PROVE  WakeInv'
<1>1. PICK woken \in OneOf(Asleep({"get"})) : call' = Wake(call, woken)  BY DEF Post
<1>2. \A u \in woken : u \in Threads /\ call[u].at = "asleep" /\ call[u].op = "get"
  BY DEF OneOf, Asleep
<1>3. /\ call[t].at = "out" /\ container' = container /\ container = "semaphore"
      /\ stored' = [stored EXCEPT ![OneKey] = 1]
  BY DEF Post, Out
<1>4. stored' \in [Keys -> Nat] /\ stored'[OneKey] = 1
  BY <1>3, OneKeyIsKey DEF WakeInv, Shaped, InterTypeOK
<1>5. /\ Shaped'
      /\ \A u \in Threads : call'[u].at = "asleep" => u \notin woken /\ call'[u] = call[u]
      /\ \A k \in Keys : \A u \in woken \cap Threads :
           call[u].op = "get" /\ call[u].key = k => u \in Running(k)'
  BY <1>1, <1>2, <1>3, <1>4, WakesOnly
<1>6. GetsWake'
  <2> SUFFICES ASSUME NEW k \in Keys, NEW u \in Threads,
                      call'[u].op = "get", call'[u].at = "asleep", call'[u].key = k
               PROVE  HasWake(k)'
    BY DEF GetsWake, Asleep
  <2>1. k = OneKey  BY <1>3, <1>5 DEF Shaped, CallsFit, Fits
  <2>2. u \in Asleep({"get"})  BY <1>5 DEF Asleep
  <2>3. PICK w \in Threads : w \in woken  BY <2>2 DEF OneOf, Asleep
  <2>4. call[w].key = OneKey /\ call[w].op = "get"
    BY <1>2, <1>3, <2>3 DEF WakeInv, Shaped, CallsFit, Fits
  <2>5. Running(k)' # {}  BY <1>5, <2>1, <2>3, <2>4
  <2>6. Cardinality(Running(k)') > 0  BY <2>5, Counted, SmallerCount
  <2>7. Cardinality(Running(k)') \in Nat /\ Cardinality(Signalling(k)') \in Nat
    BY Counted, SmallerCount
  <2>8. QED  BY <1>3, <1>4, <2>1, <2>6, <2>7 DEF HasWake, Count
<1>7. QED  BY <1>3, <1>5, <1>6, OnlyGetsSleep DEF WakeInv

LEMMA ClearKeeps ==
  ASSUME WakeInv, NEW t \in Threads, Clear(t)
  PROVE  WakeInv'
<1>1. PICK key \in KeysOf(container), woken \in ReadWakes :
        stored' = [stored EXCEPT ![key] = 0] /\ call' = Wake(call, woken)
  BY DEF Clear
<1>2. \A u \in Asleep({"wait"}) : call[u].alone => u \in woken
  BY ReadWakesWaiter DEF WakeInv
<1>3. \A u \in woken : call[u].at = "asleep"  BY ReadWakesWaiter DEF WakeInv
<1>4. call[t].at = "out" /\ container' = container  BY DEF Clear, Out
<1>5. /\ stored \in [Keys -> Nat] /\ stored' \in [Keys -> Nat]
      /\ \A k \in Keys : stored'[k] <= stored[k]
  BY <1>1, OneKeyIsKey DEF KeysOf, WakeInv, Shaped, InterTypeOK
<1>6. /\ Shaped'
      /\ \A u \in Threads : call'[u].at = "asleep" => u \notin woken /\ call'[u] = call[u]
      /\ \A k \in Keys : Signalling(k) \subseteq Signalling(k)' /\ Running(k) \subseteq Running(k)'
  BY <1>1, <1>3, <1>4, <1>5, WakesOnly
<1>7. GetsWake'
  <2> SUFFICES ASSUME NEW k \in Keys, NEW u \in Threads,
                      call'[u].op = "get", call'[u].at = "asleep", call'[u].key = k
               PROVE  HasWake(k)'
    BY DEF GetsWake, Asleep
  <2>1. HasWake(k)  BY <1>6 DEF WakeInv, GetsWake, Asleep
  <2>2. QED  BY <1>4, <1>5, <1>6, <2>1, KeyKeeps
<1>8. EithersWake'
  <2> SUFFICES ASSUME NEW u \in Threads, call'[u].op = "either", call'[u].at = "asleep",
                      NEW k \in Keys, stored'[k] > 0
               PROVE  Signalling(k)' # {}
    BY DEF EithersWake, Asleep
  <2>1. stored[k] > 0  BY <1>5
  <2>2. Signalling(k) # {}  BY <1>6, <2>1 DEF WakeInv, EithersWake, Asleep
  <2>3. QED  BY <1>6, <2>2
<1>9. WaitsWake'  BY <1>2, <1>6 DEF WaitsWake, Asleep
<1>10. QED  BY <1>6, <1>7, <1>8, <1>9 DEF WakeInv

\* A signal goes to one thread, which runs in place of the one that gave it.
LEMMA SignalKeeps ==
  ASSUME WakeInv, NEW t \in Threads, SendSignal(t)
  PROVE  WakeInv'
<1> USE DEF WakeInv, Shaped
<1>1. PICK woken \in OneOf(Asleep({"get", "either"})) :
        call' = Wake([call EXCEPT ![t] = NoCall], woken)
  BY DEF SendSignal
<1>2. /\ call[t].at = "signal" /\ container' = container /\ stored' = stored
      /\ stored' \in [Keys -> Nat] /\ container \in Queues
  BY DEF SendSignal, InterTypeOK, CallsFit, Fits
<1>3. /\ t \notin woken
      /\ \A u \in woken :
           u \in Threads /\ call[u].at = "asleep" /\ (call[u].op = "get" \/ call[u].op = "either")
  BY <1>2 DEF OneOf, Asleep
<1>4. CallMoved(t, NoCall, woken)  BY <1>1, <1>3, WakeMoved
<1>5. NoCall.op = "none" /\ NoCall.at = "out" /\ ~NoCall.alone  BY DEF NoCall
<1>6. Shaped'  BY <1>2, <1>3, <1>4, <1>5, NoCallFits, ShapeKept
<1>7. /\ call'[t] = NoCall
      /\ \A u \in Threads \ {t} : call'[u].at = "asleep" => u \notin woken /\ call'[u] = call[u]
      /\ \A k \in Keys :
           /\ Signalling(k) \ {t} \subseteq Signalling(k)'
           /\ Running(k) \ {t} \subseteq Running(k)'
           /\ \A u \in woken \cap Threads :
                call[u].op = "get" /\ call[u].key = k => u \in Running(k)' \ Running(k)
  BY <1>3, <1>4, AfterMove
<1>8. \A u \in Threads : call'[u].at = "asleep" => u # t /\ u \notin woken /\ call'[u] = call[u]
  BY <1>5, <1>7
<1>9. container = "connected" => woken = Asleep({"get", "either"})  BY SignalWakesBlocked
<1>10. GetsWake'
  <2> SUFFICES ASSUME NEW k \in Keys, NEW u \in Threads,
                      call'[u].op = "get", call'[u].at = "asleep", call'[u].key = k
               PROVE  HasWake(k)'
    BY DEF GetsWake, Asleep
  <2>1. u \in Asleep({"get", "either"}) /\ HasWake(k)  BY <1>8 DEF GetsWake, Asleep
  <2>2. container # "connected" /\ container # "map"  BY <1>2, <1>8, <1>9, <2>1 DEF Queues
  <2>3. PICK w \in Threads : w \in woken  BY <2>1 DEF OneOf, Asleep
  <2>4. call[w].op = "get" /\ call[w].key = OneKey /\ k = OneKey
    BY <1>2, <1>3, <1>8, <2>2, <2>3 DEF CallsFit, Fits
  <2>5. w \in Running(k)' /\ w \notin Running(k)  BY <1>7, <2>3, <2>4
  <2>6. t \notin Running(k)  BY <1>2 DEF Running
  <2>7. Running(k) \cup {w} \subseteq Running(k)'  BY <1>7, <2>5, <2>6
  <2>8. Cardinality(Running(k)) + 1 <= Cardinality(Running(k)')
    BY <2>5, <2>7, Counted, SmallerCount
  <2>9. Cardinality(Signalling(k)) - 1 <= Cardinality(Signalling(k)')
    BY <1>7, Counted, SmallerCount
  <2>10. /\ Cardinality(Signalling(k)) \in Nat /\ Cardinality(Signalling(k)') \in Nat
         /\ Cardinality(Running(k)) \in Nat /\ Cardinality(Running(k)') \in Nat
    BY Counted, SmallerCount
  <2>11. stored'[k] = stored[k] /\ stored[k] \in Nat  BY <1>2 DEF InterTypeOK
  <2>12. QED  BY <1>2, <2>1, <2>2, <2>8, <2>9, <2>10, <2>11 DEF HasWake, Count
<1>11. EithersWake'
  <2> SUFFICES ASSUME NEW u \in Threads, call'[u].op = "either", call'[u].at = "asleep"
               PROVE  FALSE
    BY DEF EithersWake, Asleep
  <2>1. container = "connected"  BY <1>8 DEF CallsFit, Fits
  <2>2. u \in Asleep({"get", "either"}) /\ u \notin woken  BY <1>8 DEF Asleep
  <2>3. QED  BY <1>9, <2>1, <2>2
<1>12. WaitsWake'  BY <1>2, <1>8 DEF WaitsWake, Asleep
<1>13. QED  BY <1>6, <1>10, <1>11, <1>12

-----------------------------------------------------------------------------
LEMMA InitWakeInv == InterInit => WakeInv
<1> SUFFICES ASSUME InterInit  PROVE WakeInv
  OBVIOUS
<1> USE DEF InterInit
<1>1. \A t \in Threads : call[t] = NoCall /\ Fits(call[t])  BY DEF NoCall, Fits
<1>2. InterTypeOK  BY NoCallFits DEF InterTypeOK
<1>3. CallsFit /\ OneBlocks
  <2>1. \A t \in Threads : ~call[t].alone  BY <1>1 DEF NoCall
  <2>2. container = "none"  OBVIOUS
  <2>3. QED  BY <1>1, <2>1, <2>2 DEF CallsFit, OneBlocks
<1>4. GetsWake /\ EithersWake /\ WaitsWake
  BY <1>1 DEF GetsWake, EithersWake, WaitsWake, Asleep, NoCall
<1>5. QED  BY <1>2, <1>3, <1>4 DEF WakeInv, Shaped

LEMMA OpenCloseKeep ==
  ASSUME WakeInv, Open \/ Close
  PROVE  WakeInv'
<1> USE DEF WakeInv, Shaped
<1>1. \A t \in Threads : call[t].op = "none" /\ call[t].at = "out"
  BY DEF Open, Close, Out, CallsFit, Fits
<1>2. call' = call /\ container' \in Kinds \cup {"none"}  BY DEF Open, Close
<1>3. stored' \in [Keys -> Nat]  BY DEF Open, Close, InterTypeOK
<1>4. InterTypeOK'  BY <1>2, <1>3 DEF InterTypeOK
<1>5. CallsFit'  BY <1>1, <1>2 DEF CallsFit, Fits
<1>6. OneBlocks'  BY <1>1, <1>2 DEF OneBlocks, Blocking
<1>7. GetsWake' /\ EithersWake' /\ WaitsWake'
  BY <1>1, <1>2 DEF GetsWake, EithersWake, WaitsWake, Asleep
<1>8. QED  BY <1>4, <1>5, <1>6, <1>7

LEMMA WakeInvSaysIt == WakeInv => NoWakeupLost
  BY DEF WakeInv, Shaped, InterTypeOK, CallType, GetsWake, HasWake, Count, EithersWake, WaitsWake,
         Asleep, NoWakeupLost

\* No wake-up is lost: whatever threads, keys and items there are, a thread
\* that waits on a container of Interthread.h has nothing to wait for, or
\* enough others are on their way to signal it or to take what is there; but
\* of several that wait for the low water mark a read wakes one only.
THEOREM WakeupsReachWaiters == InterSpec => []NoWakeupLost
<1>1. ASSUME WakeInv, [InterNext]_interVars  PROVE WakeInv'
  <2>1. CASE Open \/ Close  BY <1>1, <2>1, OpenCloseKeep
  <2>2. ASSUME NEW t \in Threads, container # "none", Step(t)  PROVE WakeInv'
    BY <1>1, <2>2, CallsKeep, WriteKeeps, WriteKeyKeeps, PostKeeps, SignalKeeps, ClearKeeps,
       SucceedKeeps, SleepsKeep, SpinKeeps, RousedKeeps DEF Step, Looks, Changes
  <2>3. CASE UNCHANGED interVars  BY <1>1, <2>3, StutterKeeps
  <2>4. QED  BY <1>1, <2>1, <2>2, <2>3 DEF InterNext
<1>2. QED  BY <1>1, InitWakeInv, WakeInvSaysIt, PTL DEF InterSpec
=============================================================================
