------------------------- MODULE FakeCallsProperties -------------------------
(***************************************************************************)
(* What a test may rely on when it shares a fake with the code under test, *)
(* and the inductive invariant of the proofs.                              *)
(***************************************************************************)
EXTENDS FakeCalls

\* Invocations of each fake names every method once: what it does not lock, it
\* may copy half recorded.
Complete(order, methods) ==
  /\ order \in Seq(methods)
  /\ \A m \in methods : \E k \in 1..Len(order) : order[k] = m
  /\ \A j, k \in 1..Len(order) : order[j] = order[k] => j = k
ASSUME OrdersAreComplete ==
  /\ Complete(ClientOrder, ClientMethods)
  /\ Complete(ManagerOrder, ManagerMethods)
  /\ Complete(StatusWriterOrder, StatusWriterMethods)

\* Every variable stays within its type.
TypeOK ==
  /\ stub \subseteq Methods
  /\ onCall \in [Methods -> SUBSET Nat]
  /\ calls \in [Methods -> Nat] /\ recorded \in [Methods -> Nat]
  /\ resets \in [Methods -> Nat]
  /\ thread \in [Threads -> Thread]
  /\ left \in 0..MaxCalls

Recording(t, m) == At(t, "record") /\ thread[t].method = m

\* One writer at a time, and no reader beside it.
ExclusiveInv ==
  \A m \in Methods : \A t, u \in Threads :
    Writes(t, m) => (u # t => ~Writes(u, m)) /\ ~Reads(u, m)

\* A method's arguments are ahead of its invocations by the call that records.
RecordedInv ==
  \A m \in Methods :
    /\ (\A t \in Threads : ~Recording(t, m)) => calls[m] = recorded[m]
    /\ (\E t \in Threads : Recording(t, m)) => calls[m] = recorded[m] + 1

InFlight(t) == thread[t].at \in {"record", "recorded", "check", "stub"}

\* An answer set with ReturnsOnCall(i) is given to one call at most, and a call
\* under way is always one that CallCount counts.
EachAnswerOnce ==
  \A t, u \in Threads :
    /\ InFlight(t) => thread[t].index < calls[thread[t].method]
    /\ (t # u /\ InFlight(t) /\ InFlight(u)
         /\ thread[t].method = thread[u].method) => thread[t].index # thread[u].index

\* A Stub that was seen is there until somebody takes it away.
StubInv ==
  \A t \in Threads :
    LET m == thread[t].method IN
    /\ At(t, "stub") => /\ thread[t].resets <= resets[m]
                        /\ thread[t].resets = resets[m] => m \in stub
    /\ At(t, "nil") => thread[t].resets < resets[m]

IInv == TypeOK /\ ExclusiveInv /\ RecordedInv /\ EachAnswerOnce /\ StubInv

\* When Invocations copies, it sees of every method exactly the calls that
\* CallCount counts at that moment, although each is kept under another mutex.
SnapshotAgrees ==
  \A t \in Threads : Copies(t) => \A m \in Methods : recorded[m] = calls[m]

\* A call panics on a nil Stub only if Returns or ReturnsOnCall took the Stub
\* away between the call's look at it and its use.
NilStubIsARace ==
  \A t \in Threads : At(t, "nil") => resets[thread[t].method] > thread[t].resets

Busy(t) == thread[t].at \notin {"idle", "nil"}
CanGo(t) == ENABLED (Call(t) \/ Configure(t) \/ Inspect(t))

\* The mutex, if any, that a goroutine's next step needs is to be had.
MayGo(t) ==
  CASE At(t, "lock")   -> MayLock(thread[t].method)
    [] At(t, "record") -> MayLockInvocations
    [] At(t, "read")   -> thread[t].index < Len(Order) =>
                            MayRLock(Order[thread[t].index + 1])
    [] OTHER -> TRUE

\* A goroutine waits for mutexes and nothing else: whoever has the one it needs
\* has a step, and whoever has not, none.
OnlyMutexesBlock == \A t \in Threads : Busy(t) => (CanGo(t) <=> MayGo(t))

\* Calls and configuration alone never block each other for good: if nobody can
\* go on, an Invocations holds the mutex that a call, holding its method's,
\* needs.  The order in which Invocations takes the mutexes keeps several of
\* them, and the Locks that wait beside them, from any other cycle.
BlockedByInvocations ==
  (\E t \in Threads : Busy(t)) /\ (\A t \in Threads : Busy(t) => ~MayGo(t))
    => /\ \E t \in Threads : At(t, "read")
       /\ \E t \in Threads : At(t, "record")
=============================================================================
