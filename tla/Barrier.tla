------------------------------ MODULE Barrier -------------------------------
(***************************************************************************)
(* lab7-thread/notxv6/barrier.c: N threads cross a barrier built from one  *)
(* mutex and one condition variable, Rounds times each (20000 in thread(), *)
(* line 54).  One action per stretch of code between two points where      *)
(* another thread can be seen: a lock, a wait, an unlock, a broadcast and  *)
(* the unlocked read of bstate.round on line 55.                           *)
(***************************************************************************)
EXTENDS Naturals, FiniteSets

CONSTANTS Threads,    \* the threads main() creates
          Rounds,     \* iterations of thread()'s loop
          NoThread    \* the owner of a free mutex

ASSUME ThreadsAssumption == IsFiniteSet(Threads) /\ NoThread \notin Threads
ASSUME RoundsAssumption  == Rounds \in Nat

VARIABLES mutex,      \* the owner of bstate.barrier_mutex
          nreached,   \* bstate.nthread
          round,      \* bstate.round
          pc,         \* where each thread stands
          iter,       \* thread()'s i
          curr        \* barrier()'s curr_round

vars == <<mutex, nreached, round, pc, iter, curr>>

N == Cardinality(Threads)   \* the global nthread

(* A thread that waits sleeps on barrier_cond with the mutex released; in  *)
(* "relock" it has been woken and wants the mutex back.                    *)
PCs == {"read", "lock", "test", "wait", "relock", "unlock", "broadcast",
        "done", "aborted"}

(* bstate.nthread never counts past the number of threads, and no round    *)
(* past the last one of the loop is ever opened.                           *)
TypeOK == /\ mutex \in Threads \cup {NoThread}
          /\ nreached \in 0..N
          /\ round \in 0..Rounds
          /\ pc \in [Threads -> PCs]
          /\ iter \in [Threads -> 0..Rounds]
          /\ curr \in [Threads -> 0..Rounds]

Init == /\ mutex = NoThread
        /\ nreached = 0
        /\ round = 0
        /\ pc = [t \in Threads |-> IF Rounds = 0 THEN "done" ELSE "read"]
        /\ iter = [t \in Threads |-> 0]
        /\ curr = [t \in Threads |-> 0]

Goto(t, l) == pc' = [pc EXCEPT ![t] = l]

(* int t = bstate.round; assert(i == t): no lock is held. *)
ReadRound(t) == /\ pc[t] = "read"
                /\ Goto(t, IF iter[t] = round THEN "lock" ELSE "aborted")
                /\ UNCHANGED <<mutex, nreached, round, iter, curr>>

(* Mutation: the arrival is counted without noting the round it is for. *)
M_ForgetRound(t) == /\ pc[t] = "lock"
                    /\ mutex = NoThread
                    /\ mutex' = t
                    /\ nreached' = nreached + 1
                    /\ Goto(t, "test")
                    /\ UNCHANGED <<round, iter, curr>>

Lock(t) == /\ pc[t] = "lock"
           /\ mutex = NoThread
           /\ mutex' = t
           /\ curr' = [curr EXCEPT ![t] = round]
           /\ nreached' = nreached + 1
           /\ Goto(t, "test")
           /\ UNCHANGED <<round, iter>>

(* Mutation: the last thread but one does not wait. *)
M_MustWait(t) == nreached + 1 < N /\ curr[t] = round

MustWait(t) == nreached < N /\ curr[t] = round

(* pthread_cond_wait: the mutex is released as the thread goes to sleep. *)
Wait(t) == /\ pc[t] = "test"
           /\ MustWait(t)
           /\ mutex' = NoThread
           /\ Goto(t, "wait")
           /\ UNCHANGED <<nreached, round, iter, curr>>

(* Lines 38-41: the first thread that need not wait opens the barrier. *)
Leave(t) == /\ pc[t] = "test"
            /\ ~MustWait(t)
            /\ IF curr[t] = round
                 THEN round' = round + 1 /\ nreached' = 0
                 ELSE UNCHANGED <<round, nreached>>
            /\ Goto(t, "unlock")
            /\ UNCHANGED <<mutex, iter, curr>>

NextPC(i) == IF i < Rounds THEN "read" ELSE "done"

(* Mutation: barrier() returns without waking the threads that wait. *)
M_Unlock(t) == /\ pc[t] = "unlock"
               /\ mutex' = NoThread
               /\ iter' = [iter EXCEPT ![t] = @ + 1]
               /\ Goto(t, NextPC(iter[t] + 1))
               /\ UNCHANGED <<nreached, round, curr>>

Unlock(t) == /\ pc[t] = "unlock"
             /\ mutex' = NoThread
             /\ Goto(t, "broadcast")
             /\ UNCHANGED <<nreached, round, iter, curr>>

(* Mutation: pthread_cond_signal in place of pthread_cond_broadcast, which *)
(* may wake a thread that already waits in the next round.                 *)
M_Broadcast(t) ==
  /\ pc[t] = "broadcast"
  /\ iter' = [iter EXCEPT ![t] = @ + 1]
  /\ \E w \in {u \in Threads : pc[u] = "wait"} \cup {NoThread} :
       pc' = [u \in Threads |-> CASE u = t -> NextPC(iter[t] + 1)
                                  [] u = w -> "relock"
                                  [] OTHER -> pc[u]]
  /\ UNCHANGED <<mutex, nreached, round, curr>>

(* pthread_cond_broadcast, barrier()'s return and the loop's i++. *)
Broadcast(t) ==
  /\ pc[t] = "broadcast"
  /\ iter' = [iter EXCEPT ![t] = @ + 1]
  /\ pc' = [u \in Threads |-> IF u = t THEN NextPC(iter[t] + 1)
                              ELSE IF pc[u] = "wait" THEN "relock"
                              ELSE pc[u]]
  /\ UNCHANGED <<mutex, nreached, round, curr>>

(* POSIX allows pthread_cond_wait to return with no signal. *)
SpuriousWakeup(t) == /\ pc[t] = "wait"
                     /\ Goto(t, "relock")
                     /\ UNCHANGED <<mutex, nreached, round, iter, curr>>

Relock(t) == /\ pc[t] = "relock"
             /\ mutex = NoThread
             /\ mutex' = t
             /\ Goto(t, "test")
             /\ UNCHANGED <<nreached, round, iter, curr>>

(* main() has joined every thread and prints "OK; passed". *)
Passed == /\ \A t \in Threads : pc[t] = "done"
          /\ UNCHANGED vars

Step(t) == \/ ReadRound(t) \/ Lock(t) \/ Wait(t) \/ Leave(t) \/ Unlock(t)
           \/ Broadcast(t) \/ Relock(t)

Next == \/ \E t \in Threads : Step(t) \/ SpuriousWakeup(t)
        \/ Passed

Spec == Init /\ [][Next]_vars

(* Every runnable thread runs, and one that wants the mutex is not passed  *)
(* over for ever; nothing makes a spurious wakeup happen.                  *)
Fairness == \A t \in Threads :
              /\ WF_vars(Step(t))
              /\ SF_vars(Lock(t))
              /\ SF_vars(Relock(t))

FairSpec == Spec /\ Fairness

-----------------------------------------------------------------------------
(* The assertion of line 56: a thread that starts iteration i finds the    *)
(* barrier in round i, although it reads bstate.round with no lock.        *)
AssertHolds == \A t \in Threads : pc[t] # "aborted"

(* The unlocked read of line 55 is not a data race: nobody is about to     *)
(* execute round++ (line 39) while some thread is at the read.             *)
ReadIsNotRacy ==
  \A t, u \in Threads :
    pc[t] = "read" => ~(pc[u] = "test" /\ ~MustWait(u) /\ curr[u] = round)

(* No lost wakeup: a thread asleep on a round that is over has a thread    *)
(* ahead of it that has not broadcast yet.                                 *)
NoLostWakeup ==
  \A t \in Threads :
    pc[t] = "wait" /\ curr[t] # round
      => \E u \in Threads : pc[u] \in {"unlock", "broadcast"}

(* bstate.round is advanced by one, only when all the threads are inside   *)
(* barrier() for the round it closes: "Block until all threads have called *)
(* barrier() and then increment bstate.round" (lines 29-30).               *)
RoundAdvances ==
  [][round' # round => /\ round' = round + 1
                       /\ \A t \in Threads :
                            /\ pc[t] \in {"test", "wait", "relock"}
                            /\ iter[t] = round]_vars

(* The barrier is a rendezvous: a crossing begins where the arrival is     *)
(* counted and ends where barrier() returns.                               *)
Inside(t) == pc[t] \in {"test", "wait", "relock", "unlock", "broadcast"}

Abs == INSTANCE Rendezvous
         WITH begun <- [t \in Threads |-> IF Inside(t) THEN iter[t] + 1
                                                       ELSE iter[t]],
              ended <- iter

ImplementsRendezvous == Abs!Spec

(* Every thread gets through every round and the program prints            *)
(* "OK; passed", whatever wakeups are spurious.                            *)
AllPass == <>[](\A t \in Threads : pc[t] = "done")

-----------------------------------------------------------------------------
(* The inductive invariant behind the properties above.                   *)
Arrived == {t \in Threads : pc[t] \in {"test", "wait", "relock"}
                            /\ curr[t] = round}

MutexInv == \A t \in Threads : pc[t] \in {"test", "unlock"} <=> mutex = t

CountInv == nreached = Cardinality(Arrived)

(* Once the last thread has arrived it holds the mutex until it opens the  *)
(* barrier: no other thread can arrive meanwhile.                          *)
FullInv == nreached >= N /\ N > 0 => \E t \in Threads : pc[t] = "test"

RoundInv ==
  \A t \in Threads :
    /\ pc[t] \in {"read", "lock"} => iter[t] = round /\ iter[t] < Rounds
    /\ pc[t] \in {"test", "wait", "relock"}
         => /\ curr[t] = iter[t]
            /\ iter[t] < Rounds
            /\ iter[t] = round \/ iter[t] + 1 = round
    /\ pc[t] \in {"unlock", "broadcast"}
         => curr[t] = iter[t] /\ iter[t] < Rounds /\ iter[t] + 1 = round
    /\ pc[t] = "done" => iter[t] = round /\ round = Rounds
    /\ pc[t] # "aborted"

IInv == TypeOK /\ MutexInv /\ CountInv /\ FullInv /\ RoundInv
=============================================================================
