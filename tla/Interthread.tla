---------------------------- MODULE Interthread ----------------------------
(***************************************************************************)
(* The containers of Interthread.h: queues, two connected queues, the queue *)
(* with a low water mark, the map and the semaphore, called by any threads. *)
(* What a method does under its lock is one step; letting go of the lock to *)
(* wait, and the signal that some methods send after it, are steps of their *)
(* own.  Only how much a container holds is kept here, not in which order.  *)
(***************************************************************************)
EXTENDS Integers, FiniteSets

CONSTANTS
  Threads,
  Keys,        \* keys of a map, or the two queues of a connected pair
  Marks,       \* low water marks that are waited for
  MaxItems     \* bound: items in a queue

ASSUME InterthreadAssumption ==
  IsFiniteSet(Threads) /\ Keys # {} /\ Marks \subseteq Nat /\ MaxItems \in Nat \ {0}

VARIABLES
  container,   \* the kind of container that is looked at
  stored,      \* items in each queue; whether a key or the flag is there
  call         \* the method each thread is in

interVars == <<container, stored, call>>

Kinds == {"queue", "connected", "lowWater", "map", "semaphore"}
Queues == {"queue", "connected", "lowWater"}
OneKey == CHOOSE k \in Keys : TRUE
KeysOf(kind) == IF kind \in {"connected", "map"} THEN Keys ELSE {OneKey}

\* at: in the body of the method or about to lock again ("runs"), waiting on
\* a signal ("asleep"), going round a loop with the lock in hand ("spins"), or
\* about to signal ("signal").  late: the deadline of a timed call has passed;
\* a call without wait is late from the start.  alone: no other thread has been
\* waiting for the low water mark since this one began to; it is history only.
NoCall == [op |-> "none", key |-> OneKey, at |-> "out", timed |-> FALSE, late |-> FALSE,
           keep |-> FALSE, mark |-> 0, alone |-> FALSE]

CallType ==
  [op : {"none", "get", "either", "wait", "write"}, key : Keys,
   at : {"out", "runs", "asleep", "spins", "signal"}, timed : BOOLEAN, late : BOOLEAN,
   keep : BOOLEAN, mark : Marks \cup {0}, alone : BOOLEAN]

InterInit ==
  /\ container = "none" /\ stored = [k \in Keys |-> 0]
  /\ call = [t \in Threads |-> NoCall]

-----------------------------------------------------------------------------
(* Signals.                                                                 *)

Out(t) == call[t].at = "out"
Blocking(ops) == {t \in Threads : call[t].op \in ops /\ ~call[t].late}
Asleep(ops) == {t \in Threads : call[t].op \in ops /\ call[t].at = "asleep"}
Unlocked == \A t \in Threads : call[t].at # "spins"

Wake(calls, woken) ==
  [t \in Threads |-> IF t \in woken THEN [calls[t] EXCEPT !.at = "runs"] ELSE calls[t]]

\* Signal::signal wakes one of those that wait, whichever; nobody is no harm.
OneOf(asleep) == IF asleep = {} THEN {{}} ELSE {{t} : t \in asleep}

\* Fault: a write to the map signals one thread, not all.
KeyWakesOne == OneOf(Asleep({"get"}))

KeyWakes == {Asleep({"get"})}

\* A read of the queue with a low water mark tells one that waits for it.
ReadWakes == IF container = "lowWater" THEN OneOf(Asleep({"wait"})) ELSE {{}}

-----------------------------------------------------------------------------
(* Calls.  Two queues are connected "such that a single thread can wait on  *)
(* either": of the threads that call, one at a time may wait.               *)

Starts(t, c) == call' = [call EXCEPT ![t] = c]

Asks(t, k, timed, late, keep) ==
  /\ Out(t)
  /\ late => timed
  /\ Starts(t, [NoCall EXCEPT !.op = "get", !.key = k, !.at = "runs", !.timed = timed,
                              !.late = late, !.keep = keep])
  /\ UNCHANGED <<container, stored>>

\* read, with a timeout or without, and readNoBlock.
ReadItem(t) ==
  /\ container \in Queues
  /\ \E k \in KeysOf(container), timed, late \in BOOLEAN :
       /\ container = "connected" /\ ~late => Blocking({"get", "either"}) = {}
       /\ Asks(t, k, timed, late, FALSE)

\* get and getNoBlock of the map, which take the element, and its reads,
\* which keep it.
GetKey(t) ==
  /\ container = "map"
  /\ \E k \in Keys, timed, late, keep \in BOOLEAN : Asks(t, k, timed, late, keep)

\* get and semtry of the semaphore.
GetFlag(t) ==
  container = "semaphore" /\ \E try \in BOOLEAN : Asks(t, OneKey, try, try, FALSE)

\* iqWaitForEither, with a timeout or without.
iqWaitForEither(t) ==
  /\ Out(t) /\ container = "connected"
  /\ Blocking({"get", "either"}) = {}
  /\ \E timed \in BOOLEAN :
       Starts(t, [NoCall EXCEPT !.op = "either", !.at = "runs", !.timed = timed])
  /\ UNCHANGED <<container, stored>>

\* Any number of threads may wait for a low water mark.
WaitLowWater(t) ==
  /\ Out(t) /\ container = "lowWater"
  /\ \E m \in Marks :
       call' = [u \in Threads |->
                  IF u = t THEN [NoCall EXCEPT !.op = "wait", !.at = "runs", !.mark = m,
                                               !.alone = Blocking({"wait"}) = {}]
                  ELSE [call[u] EXCEPT !.alone = FALSE]]
  /\ UNCHANGED <<container, stored>>

\* write and write_front of a queue.
Write(t) ==
  /\ Out(t) /\ container \in Queues
  /\ \E k \in KeysOf(container) :
       /\ stored[k] < MaxItems
       /\ stored' = [stored EXCEPT ![k] = @ + 1]
       /\ Starts(t, [NoCall EXCEPT !.op = "write", !.key = k, !.at = "signal"])
  /\ UNCHANGED container

\* write to the map, where an old element at the key is deleted.
WriteKey(t) ==
  /\ Out(t) /\ container = "map"
  /\ \E k \in Keys, woken \in KeyWakes :
       stored' = [stored EXCEPT ![k] = 1] /\ call' = Wake(call, woken)
  /\ UNCHANGED container

\* post of the semaphore.
Post(t) ==
  /\ Out(t) /\ container = "semaphore"
  /\ stored' = [stored EXCEPT ![OneKey] = 1]
  /\ \E woken \in OneOf(Asleep({"get"})) : call' = Wake(call, woken)
  /\ UNCHANGED container

\* mWriteSignal, after the lock is released.
SendSignal(t) ==
  /\ call[t].at = "signal"
  /\ \E woken \in OneOf(Asleep({"get", "either"})) :
       call' = Wake([call EXCEPT ![t] = NoCall], woken)
  /\ UNCHANGED <<container, stored>>

\* clear and flushNoDelete.
Clear(t) ==
  /\ Out(t) /\ container \in Queues
  /\ \E k \in KeysOf(container), woken \in ReadWakes :
       /\ stored' = [stored EXCEPT ![k] = 0]
       /\ call' = Wake(call, woken)
  /\ UNCHANGED container

-----------------------------------------------------------------------------
(* The loops of the blocking methods.                                       *)

Met(c) ==
  CASE c.op = "get" -> stored[c.key] > 0
    [] c.op = "either" -> \E k \in Keys : stored[k] > 0
    [] c.op = "wait" -> stored[c.key] <= c.mark
    [] OTHER -> FALSE

Returns(t) == [call EXCEPT ![t] = NoCall]

\* The condition of the loop is met: a get takes its item, and signals.
Succeed(t) ==
  /\ call[t].at = "runs" /\ Met(call[t])
  /\ IF call[t].op = "get"
     THEN /\ stored' = IF call[t].keep THEN stored
                       ELSE [stored EXCEPT ![call[t].key] = @ - 1]
          /\ \E woken \in ReadWakes : call' = Wake(Returns(t), woken)
     ELSE UNCHANGED stored /\ call' = Returns(t)
  /\ UNCHANGED container

\* Fault: a signal wakes a thread that then does not look again.
SleepAnyway(t) ==
  /\ call[t].at = "runs" /\ ~call[t].late
  /\ call' = [call EXCEPT ![t].at = "asleep"]
  /\ UNCHANGED <<container, stored>>

\* It is not: the thread waits, and the lock is released in the same step.
Sleep(t) ==
  /\ call[t].at = "runs" /\ ~Met(call[t]) /\ ~call[t].late
  /\ call' = [call EXCEPT ![t].at = "asleep"]
  /\ UNCHANGED <<container, stored>>

\* Less than two milliseconds remain: NULL.
GiveUp(t) ==
  /\ call[t].at = "runs" /\ call[t].op = "get" /\ ~Met(call[t]) /\ call[t].late
  /\ call' = Returns(t)
  /\ UNCHANGED <<container, stored>>

\* iqWaitForEither looks at its queues only.  Once its time has passed, wait
\* returns at once, and without letting go of the lock: nobody can write.
Spin(t) ==
  /\ call[t].op = "either" /\ call[t].late
  /\ call[t].at = "spins" \/ (call[t].at = "runs" /\ Unlocked /\ ~Met(call[t]))
  /\ call' = [call EXCEPT ![t].at = "spins"]
  /\ UNCHANGED <<container, stored>>

\* "Under Linux, spurious returns are possible."  A timed wait also returns
\* at once when its deadline has 1000000 microseconds, which Timeval does not
\* carry over and the library refuses.
WakeSpuriously(t) ==
  /\ call[t].at = "asleep"
  /\ call' = [call EXCEPT ![t].at = "runs"]
  /\ UNCHANGED <<container, stored>>

\* Fault: the time goes by, and nothing wakes the thread.
ExpireUnnoticed(t) ==
  /\ call[t].timed /\ ~call[t].late
  /\ call' = [call EXCEPT ![t].late = TRUE]
  /\ UNCHANGED <<container, stored>>

\* The deadline passes, and ends a wait.
Expire(t) ==
  /\ call[t].timed /\ ~call[t].late
  /\ call' = [call EXCEPT ![t].late = TRUE, ![t].at = "runs"]
  /\ UNCHANGED <<container, stored>>

-----------------------------------------------------------------------------
Open == container = "none" /\ container' \in Kinds /\ UNCHANGED <<stored, call>>

\* The destructor, when no thread uses the container any more.
Close ==
  /\ container # "none" /\ \A t \in Threads : Out(t)
  /\ container' = "none" /\ stored' = [k \in Keys |-> 0] /\ UNCHANGED call

\* What a method does with the lock, which it first has to get.
Looks(t) == Unlocked /\ (Succeed(t) \/ Sleep(t) \/ GiveUp(t))
Changes(t) == Unlocked /\ (Write(t) \/ WriteKey(t) \/ Post(t) \/ Clear(t))

Step(t) ==
  \/ ReadItem(t) \/ GetKey(t) \/ GetFlag(t) \/ iqWaitForEither(t) \/ WaitLowWater(t)
  \/ Changes(t) \/ SendSignal(t)
  \/ Looks(t) \/ Spin(t) \/ WakeSpuriously(t) \/ Expire(t)

InterNext ==
  Open \/ Close \/ \E t \in Threads : container # "none" /\ Step(t)

InterSpec == InterInit /\ [][InterNext]_interVars

\* A thread that runs is scheduled, and time passes.  Which of several
\* waiting threads a signal wakes is left open.
InterFairness ==
  \A t \in Threads :
    /\ WF_interVars(Looks(t) \/ Spin(t))
    /\ WF_interVars(SendSignal(t)) /\ WF_interVars(Expire(t))

-----------------------------------------------------------------------------
Signalling(k) == {t \in Threads : call[t].at = "signal" /\ call[t].key = k}
Running(k) == {t \in Threads : call[t].op = "get" /\ call[t].at = "runs" /\ call[t].key = k}

\* No wake-up is lost: while a thread waits for an item, there are no more of
\* them than threads that are about to signal one or to take one; who waits
\* on either queue does so only while it must, and so does a thread that is
\* alone in waiting for the low water mark.  (Of several, a read wakes one.)
\* This is what the order of write (lock, put, unlock, signal) and the loops
\* around every wait are for ("had a complicated threading problem that this
\* version fixed", Interthread.h).
NoWakeupLost ==
  \A t \in Threads : call[t].at = "asleep" =>
    /\ call[t].op = "get" =>
         stored[call[t].key] <= Cardinality(Signalling(call[t].key))
                                + Cardinality(Running(call[t].key))
    /\ call[t].op = "either" => \A k \in Keys : stored[k] > 0 => Signalling(k) # {}
    /\ call[t].op = "wait" /\ call[t].alone => stored[call[t].key] > call[t].mark

\* Unless iqWaitForEither keeps the lock for ever, every timed call ends; and
\* no thread stays asleep for ever next to what it waits for, however threads
\* and signals interleave, if it is not one of several that wait for the low
\* water mark (read, get and wait with their timeouts).
CallsEnd ==
  \A t \in Threads :
    /\ call[t].timed ~> ~call[t].timed \/ ~Unlocked
    /\ []<>~(call[t].at = "asleep" /\ Met(call[t]) /\ (call[t].op = "wait" => call[t].alone))
=============================================================================
