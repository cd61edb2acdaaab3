--------------------------- MODULE FakeCallsProofs ---------------------------
(***************************************************************************)
(* Proofs about the fakes, for each of the three and every set of          *)
(* goroutines.                                                             *)
(***************************************************************************)
EXTENDS FakeCallsProperties, WellFoundedInduction, TLAPS

\* Each fake has a method, and takes the mutex of every one of them.
LEMMA OrderFacts ==
  /\ AnyMethod \in Methods
  /\ Order \in Seq(Methods) /\ Len(Order) \in Nat
  /\ \A m \in Methods : \E k \in 1..Len(Order) : Order[k] = m
  /\ \A j, k \in 1..Len(Order) : Order[j] = Order[k] => j = k
  <1>1. Complete(Order, Methods)
    BY FakeAssumption, OrdersAreComplete DEF Order, Methods
  <1>2. Methods # {}
    BY DEF Methods, ClientMethods, ManagerMethods, StatusWriterMethods
  <1>3. AnyMethod \in Methods
    BY <1>2 DEF AnyMethod
  <1>4. Len(Order) \in Nat
    BY <1>1 DEF Complete
  <1>5. QED
    BY <1>1, <1>3, <1>4 DEF Complete

\* A goroutine that has returned has a type.
LEMMA IdleType == Idle \in Thread
  BY OrderFacts DEF Idle, Thread, Places, Operations

\* A step that gives a goroutine a well-typed position.
LEMMA Moves ==
  ASSUME TypeOK, NEW t \in Threads, NEW r \in Thread, thread' = [thread EXCEPT ![t] = r]
  PROVE  /\ thread' \in [Threads -> Thread]
         /\ thread'[t] = r
         /\ \A u \in Threads \ {t} : thread'[u] = thread[u]
  BY DEF TypeOK

\* Who takes no mutex disturbs nobody's.
LEMMA Releases ==
  ASSUME ExclusiveInv,
         \A u \in Threads, m \in Methods : /\ Writes(u, m)' => Writes(u, m)
                                           /\ Reads(u, m)' => Reads(u, m)
  PROVE  ExclusiveInv'
  BY DEF ExclusiveInv

\* Who records nothing leaves arguments and invocations as far apart as they are.
LEMMA RecordsNothing ==
  ASSUME RecordedInv, UNCHANGED <<calls, recorded>>,
         \A u \in Threads, m \in Methods : Recording(u, m)' <=> Recording(u, m)
  PROVE  RecordedInv'
  BY DEF RecordedInv

\* Begin keeps the invariant.
LEMMA BeginStep ==
  ASSUME IInv, NEW t \in Threads, NEW m \in Methods, NEW op \in Operations, Begin(t, m, op)
  PROVE  IInv'
  <1> DEFINE r == [Idle EXCEPT !.at = "lock", !.op = op, !.method = m]
  <1> USE DEF IInv, At
  <1>1. r \in Thread
    BY OrderFacts, IdleType DEF Begin, Idle, TypeOK, Thread, Places, Operations
  <1>2. thread' = [thread EXCEPT ![t] = r]
    BY DEF Begin, Idle
  <1>3. /\ thread' \in [Threads -> Thread] /\ thread'[t] = r
        /\ \A u \in Threads \ {t} : thread'[u] = thread[u]
    BY <1>1, <1>2, Moves
  <1>4. TypeOK'
    BY <1>3, FakeAssumption DEF Begin, TypeOK, Thread
  <1>5. ExclusiveInv'
    <2>1. \A u \in Threads, n \in Methods : Writes(u, n)' => Writes(u, n)
      BY <1>3 DEF Begin, Idle, TypeOK, Thread, Writes
    <2>2. \A u \in Threads, n \in Methods : Reads(u, n)' => Reads(u, n)
      BY <1>3 DEF Begin, Idle, TypeOK, Thread, Reads
    <2>3. QED
      BY <2>1, <2>2, Releases
  <1>6. RecordedInv'
    <2>1. \A u \in Threads, n \in Methods : Recording(u, n)' <=> Recording(u, n)
      BY <1>3 DEF Begin, Idle, TypeOK, Thread, Recording
    <2>2. QED
      BY <2>1, RecordsNothing DEF Begin
  <1>7. EachAnswerOnce'
    BY <1>3 DEF Begin, Idle, TypeOK, Thread, EachAnswerOnce, InFlight
  <1>8. StubInv'
    BY <1>3 DEF Begin, Idle, TypeOK, Thread, StubInv
  <1>9. QED
    BY <1>4, <1>5, <1>6, <1>7, <1>8

\* Take keeps the invariant.
LEMMA TakeStep ==
  ASSUME IInv, NEW t \in Threads, Take(t)
  PROVE  IInv'
  <1> DEFINE b == calls[thread[t].method] \in onCall[thread[t].method]
  <1> DEFINE r == [thread[t] EXCEPT !.at = "record", !.index = calls[thread[t].method],
                     !.specific = b]
  <1> USE DEF IInv, At
  <1>1. r \in Thread
    <2>1. thread[t] \in Thread
      BY DEF TypeOK
    <2>2. calls[thread[t].method] \in Nat
      BY <2>1 DEF TypeOK, Thread
    <2>3. b \in BOOLEAN
      OBVIOUS
    <2> HIDE DEF b
    <2>4. QED
      BY <2>1, <2>2, <2>3 DEF Thread, Places
  <1>2. thread' = [thread EXCEPT ![t] = r]
    BY DEF Take
  <1>3. /\ thread' \in [Threads -> Thread] /\ thread'[t] = r
        /\ \A u \in Threads \ {t} : thread'[u] = thread[u]
    BY <1>1, <1>2, Moves
  <1>4. TypeOK'
    BY <1>3, FakeAssumption DEF Take, TypeOK, Thread
  <1>5. ExclusiveInv'
    <2> DEFINE m == thread[t].method
    <2>1. \A u \in Threads : ~Writes(u, m) /\ ~Reads(u, m)
      BY DEF Take, MayLock
    <2>2. \A n \in Methods : Writes(t, n)' => n = m
      BY <1>3 DEF Writes
    <2>3. \A n \in Methods : ~Reads(t, n)'
      BY <1>3 DEF Reads, TypeOK, Thread
    <2>4. \A u \in Threads \ {t}, n \in Methods :
             (Writes(u, n)' <=> Writes(u, n)) /\ (Reads(u, n)' <=> Reads(u, n))
      BY <1>3 DEF Writes, Reads
    <2>5. QED
      BY <2>1, <2>2, <2>3, <2>4 DEF ExclusiveInv
  <1>6. RecordedInv'
    BY <1>3 DEF Take, TypeOK, Thread, RecordedInv, Recording, ExclusiveInv, Writes, MayLock
  <1>7. EachAnswerOnce'
    BY <1>3 DEF Take, Idle, TypeOK, Thread, EachAnswerOnce, InFlight
  <1>8. StubInv'
    BY <1>3 DEF Take, Idle, TypeOK, Thread, StubInv
  <1>9. QED
    BY <1>4, <1>5, <1>6, <1>7, <1>8

\* Record keeps the invariant.
LEMMA RecordStep ==
  ASSUME IInv, NEW t \in Threads, Record(t)
  PROVE  IInv'
  <1> DEFINE r == [thread[t] EXCEPT !.at = "recorded"]
  <1> USE DEF IInv, At
  <1>1. r \in Thread
    BY OrderFacts, IdleType DEF Record, Idle, TypeOK, Thread, Places, Operations
  <1>2. thread' = [thread EXCEPT ![t] = r]
    BY DEF Record, Go
  <1>3. /\ thread' \in [Threads -> Thread] /\ thread'[t] = r
        /\ \A u \in Threads \ {t} : thread'[u] = thread[u]
    BY <1>1, <1>2, Moves
  <1>4. TypeOK'
    BY <1>3, FakeAssumption DEF Record, TypeOK, Thread
  <1>5. ExclusiveInv'
    <2>1. \A u \in Threads, n \in Methods : Writes(u, n)' => Writes(u, n)
      BY <1>3 DEF Record, Idle, TypeOK, Thread, Writes
    <2>2. \A u \in Threads, n \in Methods : Reads(u, n)' => Reads(u, n)
      BY <1>3 DEF Record, Idle, TypeOK, Thread, Reads
    <2>3. QED
      BY <2>1, <2>2, Releases
  <1>6. RecordedInv'
    <2> PICK m \in Methods : m = thread[t].method
      BY DEF TypeOK, Thread
    <2>1. Recording(t, m) /\ ~Recording(t, m)'
      BY <1>3 DEF Record, TypeOK, Thread, Recording
    <2>2. \A u \in Threads \ {t} : ~Recording(u, m) /\ ~Recording(u, m)'
      BY <1>3, <2>1 DEF Recording, ExclusiveInv, Writes
    <2>3. \A n \in Methods \ {m} : ~Recording(t, n)
      BY DEF Recording
    <2>4. \A n \in Methods : ~Recording(t, n)'
      BY <1>3 DEF Recording
    <2>5. \A u \in Threads \ {t}, n \in Methods : Recording(u, n)' <=> Recording(u, n)
      BY <1>3 DEF Recording
    <2>6. /\ calls' = calls /\ recorded'[m] = recorded[m] + 1
          /\ \A n \in Methods \ {m} : recorded'[n] = recorded[n]
      BY <2>1 DEF Record, TypeOK
    <2>7. calls[m] = recorded[m] + 1
      BY <2>1 DEF RecordedInv
    <2>8. ASSUME NEW n \in Methods
          PROVE  /\ (\A u \in Threads : ~Recording(u, n)') => calls'[n] = recorded'[n]
                 /\ (\E u \in Threads : Recording(u, n)') => calls'[n] = recorded'[n] + 1
      <3>1. CASE n = m
        BY <3>1, <2>1, <2>2, <2>6, <2>7
      <3>2. CASE n # m
        BY <3>2, <2>3, <2>4, <2>5, <2>6 DEF RecordedInv
      <3>3. QED
        BY <3>1, <3>2
    <2>9. QED
      BY <2>8 DEF RecordedInv
  <1>7. EachAnswerOnce'
    BY <1>3 DEF Record, Idle, TypeOK, Thread, EachAnswerOnce, InFlight
  <1>8. StubInv'
    BY <1>3 DEF Record, Idle, TypeOK, Thread, StubInv
  <1>9. QED
    BY <1>4, <1>5, <1>6, <1>7, <1>8

\* Unlock keeps the invariant.
LEMMA UnlockStep ==
  ASSUME IInv, NEW t \in Threads, Unlock(t)
  PROVE  IInv'
  <1> DEFINE r == [thread[t] EXCEPT !.at = "check"]
  <1> USE DEF IInv, At
  <1>1. r \in Thread
    BY OrderFacts, IdleType DEF Unlock, Idle, TypeOK, Thread, Places, Operations
  <1>2. thread' = [thread EXCEPT ![t] = r]
    BY DEF Unlock, Go
  <1>3. /\ thread' \in [Threads -> Thread] /\ thread'[t] = r
        /\ \A u \in Threads \ {t} : thread'[u] = thread[u]
    BY <1>1, <1>2, Moves
  <1>4. TypeOK'
    BY <1>3, FakeAssumption DEF Unlock, TypeOK, Thread
  <1>5. ExclusiveInv'
    <2>1. \A u \in Threads, n \in Methods : Writes(u, n)' => Writes(u, n)
      BY <1>3 DEF Unlock, Idle, TypeOK, Thread, Writes
    <2>2. \A u \in Threads, n \in Methods : Reads(u, n)' => Reads(u, n)
      BY <1>3 DEF Unlock, Idle, TypeOK, Thread, Reads
    <2>3. QED
      BY <2>1, <2>2, Releases
  <1>6. RecordedInv'
    <2>1. \A u \in Threads, n \in Methods : Recording(u, n)' <=> Recording(u, n)
      BY <1>3 DEF Unlock, Idle, TypeOK, Thread, Recording
    <2>2. QED
      BY <2>1, RecordsNothing DEF Unlock
  <1>7. EachAnswerOnce'
    BY <1>3 DEF Unlock, Idle, TypeOK, Thread, EachAnswerOnce, InFlight
  <1>8. StubInv'
    BY <1>3 DEF Unlock, Idle, TypeOK, Thread, StubInv
  <1>9. QED
    BY <1>4, <1>5, <1>6, <1>7, <1>8

\* SeesStub keeps the invariant.
LEMMA SeesStubStep ==
  ASSUME IInv, NEW t \in Threads, SeesStub(t)
  PROVE  IInv'
  <1> DEFINE r == [thread[t] EXCEPT !.at = "stub", !.resets = resets[thread[t].method]]
  <1> USE DEF IInv, At
  <1>1. r \in Thread
    BY OrderFacts, IdleType DEF SeesStub, Idle, TypeOK, Thread, Places, Operations
  <1>2. thread' = [thread EXCEPT ![t] = r]
    BY DEF SeesStub
  <1>3. /\ thread' \in [Threads -> Thread] /\ thread'[t] = r
        /\ \A u \in Threads \ {t} : thread'[u] = thread[u]
    BY <1>1, <1>2, Moves
  <1>4. TypeOK'
    BY <1>3, FakeAssumption DEF SeesStub, TypeOK, Thread
  <1>5. ExclusiveInv'
    <2>1. \A u \in Threads, n \in Methods : Writes(u, n)' => Writes(u, n)
      BY <1>3 DEF SeesStub, Idle, TypeOK, Thread, Writes
    <2>2. \A u \in Threads, n \in Methods : Reads(u, n)' => Reads(u, n)
      BY <1>3 DEF SeesStub, Idle, TypeOK, Thread, Reads
    <2>3. QED
      BY <2>1, <2>2, Releases
  <1>6. RecordedInv'
    <2>1. \A u \in Threads, n \in Methods : Recording(u, n)' <=> Recording(u, n)
      BY <1>3 DEF SeesStub, Idle, TypeOK, Thread, Recording
    <2>2. QED
      BY <2>1, RecordsNothing DEF SeesStub
  <1>7. EachAnswerOnce'
    BY <1>3 DEF SeesStub, Idle, TypeOK, Thread, EachAnswerOnce, InFlight
  <1>8. StubInv'
    BY <1>3 DEF SeesStub, Idle, TypeOK, Thread, StubInv
  <1>9. QED
    BY <1>4, <1>5, <1>6, <1>7, <1>8

\* Answers keeps the invariant.
LEMMA AnswersStep ==
  ASSUME IInv, NEW t \in Threads, Answers(t)
  PROVE  IInv'
  <1> DEFINE r == Idle
  <1> USE DEF IInv, At
  <1>1. r \in Thread
    BY OrderFacts, IdleType DEF Answers, Idle, TypeOK, Thread, Places, Operations
  <1>2. thread' = [thread EXCEPT ![t] = r]
    BY DEF Answers, Return
  <1>3. /\ thread' \in [Threads -> Thread] /\ thread'[t] = r
        /\ \A u \in Threads \ {t} : thread'[u] = thread[u]
    BY <1>1, <1>2, Moves
  <1>4. TypeOK'
    BY <1>3, FakeAssumption DEF Answers, TypeOK, Thread
  <1>5. ExclusiveInv'
    <2>1. \A u \in Threads, n \in Methods : Writes(u, n)' => Writes(u, n)
      BY <1>3 DEF Answers, Idle, TypeOK, Thread, Writes
    <2>2. \A u \in Threads, n \in Methods : Reads(u, n)' => Reads(u, n)
      BY <1>3 DEF Answers, Idle, TypeOK, Thread, Reads
    <2>3. QED
      BY <2>1, <2>2, Releases
  <1>6. RecordedInv'
    <2>1. \A u \in Threads, n \in Methods : Recording(u, n)' <=> Recording(u, n)
      BY <1>3 DEF Answers, Idle, TypeOK, Thread, Recording
    <2>2. QED
      BY <2>1, RecordsNothing DEF Answers
  <1>7. EachAnswerOnce'
    BY <1>3 DEF Answers, Idle, TypeOK, Thread, EachAnswerOnce, InFlight
  <1>8. StubInv'
    BY <1>3 DEF Answers, Idle, TypeOK, Thread, StubInv
  <1>9. QED
    BY <1>4, <1>5, <1>6, <1>7, <1>8

\* RunsStub keeps the invariant.
LEMMA RunsStubStep ==
  ASSUME IInv, NEW t \in Threads, RunsStub(t)
  PROVE  IInv'
  <1> DEFINE r == Idle
  <1> USE DEF IInv, At
  <1>1. r \in Thread
    BY OrderFacts, IdleType DEF RunsStub, Idle, TypeOK, Thread, Places, Operations
  <1>2. thread' = [thread EXCEPT ![t] = r]
    BY DEF RunsStub, Return
  <1>3. /\ thread' \in [Threads -> Thread] /\ thread'[t] = r
        /\ \A u \in Threads \ {t} : thread'[u] = thread[u]
    BY <1>1, <1>2, Moves
  <1>4. TypeOK'
    BY <1>3, FakeAssumption DEF RunsStub, TypeOK, Thread
  <1>5. ExclusiveInv'
    <2>1. \A u \in Threads, n \in Methods : Writes(u, n)' => Writes(u, n)
      BY <1>3 DEF RunsStub, Idle, TypeOK, Thread, Writes
    <2>2. \A u \in Threads, n \in Methods : Reads(u, n)' => Reads(u, n)
      BY <1>3 DEF RunsStub, Idle, TypeOK, Thread, Reads
    <2>3. QED
      BY <2>1, <2>2, Releases
  <1>6. RecordedInv'
    <2>1. \A u \in Threads, n \in Methods : Recording(u, n)' <=> Recording(u, n)
      BY <1>3 DEF RunsStub, Idle, TypeOK, Thread, Recording
    <2>2. QED
      BY <2>1, RecordsNothing DEF RunsStub
  <1>7. EachAnswerOnce'
    BY <1>3 DEF RunsStub, Idle, TypeOK, Thread, EachAnswerOnce, InFlight
  <1>8. StubInv'
    BY <1>3 DEF RunsStub, Idle, TypeOK, Thread, StubInv
  <1>9. QED
    BY <1>4, <1>5, <1>6, <1>7, <1>8

\* CallsNil keeps the invariant.
LEMMA CallsNilStep ==
  ASSUME IInv, NEW t \in Threads, CallsNil(t)
  PROVE  IInv'
  <1> DEFINE r == [thread[t] EXCEPT !.at = "nil"]
  <1> USE DEF IInv, At
  <1>1. r \in Thread
    BY OrderFacts, IdleType DEF CallsNil, Idle, TypeOK, Thread, Places, Operations
  <1>2. thread' = [thread EXCEPT ![t] = r]
    BY DEF CallsNil, Go
  <1>3. /\ thread' \in [Threads -> Thread] /\ thread'[t] = r
        /\ \A u \in Threads \ {t} : thread'[u] = thread[u]
    BY <1>1, <1>2, Moves
  <1>4. TypeOK'
    BY <1>3, FakeAssumption DEF CallsNil, TypeOK, Thread
  <1>5. ExclusiveInv'
    <2>1. \A u \in Threads, n \in Methods : Writes(u, n)' => Writes(u, n)
      BY <1>3 DEF CallsNil, Idle, TypeOK, Thread, Writes
    <2>2. \A u \in Threads, n \in Methods : Reads(u, n)' => Reads(u, n)
      BY <1>3 DEF CallsNil, Idle, TypeOK, Thread, Reads
    <2>3. QED
      BY <2>1, <2>2, Releases
  <1>6. RecordedInv'
    <2>1. \A u \in Threads, n \in Methods : Recording(u, n)' <=> Recording(u, n)
      BY <1>3 DEF CallsNil, Idle, TypeOK, Thread, Recording
    <2>2. QED
      BY <2>1, RecordsNothing DEF CallsNil
  <1>7. EachAnswerOnce'
    BY <1>3 DEF CallsNil, Idle, TypeOK, Thread, EachAnswerOnce, InFlight
  <1>8. StubInv'
    BY <1>3 DEF CallsNil, Idle, TypeOK, Thread, StubInv
  <1>9. QED
    BY <1>4, <1>5, <1>6, <1>7, <1>8

\* Calls keeps the invariant.
LEMMA CallsStep ==
  ASSUME IInv, NEW t \in Threads, Calls(t)
  PROVE  IInv'
  <1> DEFINE r == Idle
  <1> USE DEF IInv, At
  <1>1. r \in Thread
    BY OrderFacts, IdleType DEF Calls, Idle, TypeOK, Thread, Places, Operations
  <1>2. thread' = [thread EXCEPT ![t] = r]
    BY DEF Calls, Return
  <1>3. /\ thread' \in [Threads -> Thread] /\ thread'[t] = r
        /\ \A u \in Threads \ {t} : thread'[u] = thread[u]
    BY <1>1, <1>2, Moves
  <1>4. TypeOK'
    BY <1>3, FakeAssumption DEF Calls, TypeOK, Thread
  <1>5. ExclusiveInv'
    <2>1. \A u \in Threads, n \in Methods : Writes(u, n)' => Writes(u, n)
      BY <1>3 DEF Calls, Idle, TypeOK, Thread, Writes
    <2>2. \A u \in Threads, n \in Methods : Reads(u, n)' => Reads(u, n)
      BY <1>3 DEF Calls, Idle, TypeOK, Thread, Reads
    <2>3. QED
      BY <2>1, <2>2, Releases
  <1>6. RecordedInv'
    <2>1. \A u \in Threads, n \in Methods : Recording(u, n)' <=> Recording(u, n)
      BY <1>3 DEF Calls, Idle, TypeOK, Thread, Recording
    <2>2. QED
      BY <2>1, RecordsNothing DEF Calls
  <1>7. EachAnswerOnce'
    BY <1>3 DEF Calls, Idle, TypeOK, Thread, EachAnswerOnce, InFlight
  <1>8. StubInv'
    BY <1>3 DEF Calls, Idle, TypeOK, Thread, StubInv
  <1>9. QED
    BY <1>4, <1>5, <1>6, <1>7, <1>8

\* Returns keeps the invariant.
LEMMA ReturnsStep ==
  ASSUME IInv, NEW t \in Threads, Returns(t)
  PROVE  IInv'
  <1> DEFINE r == Idle
  <1> USE DEF IInv, At
  <1>1. r \in Thread
    BY OrderFacts, IdleType DEF Returns, Idle, TypeOK, Thread, Places, Operations
  <1>2. thread' = [thread EXCEPT ![t] = r]
    BY DEF Returns, Return
  <1>3. /\ thread' \in [Threads -> Thread] /\ thread'[t] = r
        /\ \A u \in Threads \ {t} : thread'[u] = thread[u]
    BY <1>1, <1>2, Moves
  <1>4. TypeOK'
    BY <1>3, FakeAssumption DEF Returns, TypeOK, Thread
  <1>5. ExclusiveInv'
    <2>1. \A u \in Threads, n \in Methods : Writes(u, n)' => Writes(u, n)
      BY <1>3 DEF Returns, Idle, TypeOK, Thread, Writes
    <2>2. \A u \in Threads, n \in Methods : Reads(u, n)' => Reads(u, n)
      BY <1>3 DEF Returns, Idle, TypeOK, Thread, Reads
    <2>3. QED
      BY <2>1, <2>2, Releases
  <1>6. RecordedInv'
    <2>1. \A u \in Threads, n \in Methods : Recording(u, n)' <=> Recording(u, n)
      BY <1>3 DEF Returns, Idle, TypeOK, Thread, Recording
    <2>2. QED
      BY <2>1, RecordsNothing DEF Returns
  <1>7. EachAnswerOnce'
    BY <1>3 DEF Returns, Idle, TypeOK, Thread, EachAnswerOnce, InFlight
  <1>8. StubInv'
    BY <1>3 DEF Returns, Idle, TypeOK, Thread, StubInv
  <1>9. QED
    BY <1>4, <1>5, <1>6, <1>7, <1>8

\* ReturnsOnCall keeps the invariant.
LEMMA ReturnsOnCallStep ==
  ASSUME IInv, NEW t \in Threads, NEW i \in 0..MaxCalls, ReturnsOnCall(t, i)
  PROVE  IInv'
  <1> DEFINE r == Idle
  <1> USE DEF IInv, At
  <1>1. r \in Thread
    BY OrderFacts, IdleType DEF ReturnsOnCall, Idle, TypeOK, Thread, Places, Operations
  <1>2. thread' = [thread EXCEPT ![t] = r]
    BY DEF ReturnsOnCall, Return
  <1>3. /\ thread' \in [Threads -> Thread] /\ thread'[t] = r
        /\ \A u \in Threads \ {t} : thread'[u] = thread[u]
    BY <1>1, <1>2, Moves
  <1>4. TypeOK'
    BY <1>3, FakeAssumption DEF ReturnsOnCall, TypeOK, Thread
  <1>5. ExclusiveInv'
    <2>1. \A u \in Threads, n \in Methods : Writes(u, n)' => Writes(u, n)
      BY <1>3 DEF ReturnsOnCall, Idle, TypeOK, Thread, Writes
    <2>2. \A u \in Threads, n \in Methods : Reads(u, n)' => Reads(u, n)
      BY <1>3 DEF ReturnsOnCall, Idle, TypeOK, Thread, Reads
    <2>3. QED
      BY <2>1, <2>2, Releases
  <1>6. RecordedInv'
    <2>1. \A u \in Threads, n \in Methods : Recording(u, n)' <=> Recording(u, n)
      BY <1>3 DEF ReturnsOnCall, Idle, TypeOK, Thread, Recording
    <2>2. QED
      BY <2>1, RecordsNothing DEF ReturnsOnCall
  <1>7. EachAnswerOnce'
    BY <1>3 DEF ReturnsOnCall, Idle, TypeOK, Thread, EachAnswerOnce, InFlight
  <1>8. StubInv'
    BY <1>3 DEF ReturnsOnCall, Idle, TypeOK, Thread, StubInv
  <1>9. QED
    BY <1>4, <1>5, <1>6, <1>7, <1>8

\* Invocations keeps the invariant.
LEMMA InvocationsStep ==
  ASSUME IInv, NEW t \in Threads, Invocations(t)
  PROVE  IInv'
  <1> DEFINE r == [Idle EXCEPT !.at = "read"]
  <1> USE DEF IInv, At
  <1>1. r \in Thread
    BY OrderFacts, IdleType DEF Invocations, Idle, TypeOK, Thread, Places, Operations
  <1>2. thread' = [thread EXCEPT ![t] = r]
    BY DEF Invocations, Idle
  <1>3. /\ thread' \in [Threads -> Thread] /\ thread'[t] = r
        /\ \A u \in Threads \ {t} : thread'[u] = thread[u]
    BY <1>1, <1>2, Moves
  <1>4. TypeOK'
    BY <1>3, FakeAssumption DEF Invocations, TypeOK, Thread
  <1>5. ExclusiveInv'
    <2>1. \A u \in Threads, n \in Methods : Writes(u, n)' => Writes(u, n)
      BY <1>3 DEF Invocations, Idle, TypeOK, Thread, Writes
    <2>2. \A u \in Threads, n \in Methods : Reads(u, n)' => Reads(u, n)
      BY <1>3 DEF Invocations, Idle, TypeOK, Thread, Reads
    <2>3. QED
      BY <2>1, <2>2, Releases
  <1>6. RecordedInv'
    <2>1. \A u \in Threads, n \in Methods : Recording(u, n)' <=> Recording(u, n)
      BY <1>3 DEF Invocations, Idle, TypeOK, Thread, Recording
    <2>2. QED
      BY <2>1, RecordsNothing DEF Invocations
  <1>7. EachAnswerOnce'
    BY <1>3 DEF Invocations, Idle, TypeOK, Thread, EachAnswerOnce, InFlight
  <1>8. StubInv'
    BY <1>3 DEF Invocations, Idle, TypeOK, Thread, StubInv
  <1>9. QED
    BY <1>4, <1>5, <1>6, <1>7, <1>8

\* RLockNext keeps the invariant.
LEMMA RLockNextStep ==
  ASSUME IInv, NEW t \in Threads, RLockNext(t)
  PROVE  IInv'
  <1> DEFINE r == [thread[t] EXCEPT !.index = thread[t].index + 1]
  <1> USE DEF IInv, At
  <1>1. r \in Thread
    <2>1. thread[t] \in Thread
      BY DEF TypeOK
    <2>2. thread[t].index + 1 \in Nat
      BY <2>1 DEF Thread
    <2>3. QED
      BY <2>1, <2>2 DEF Thread
  <1>2. thread' = [thread EXCEPT ![t] = r]
    BY DEF RLockNext
  <1>3. /\ thread' \in [Threads -> Thread] /\ thread'[t] = r
        /\ \A u \in Threads \ {t} : thread'[u] = thread[u]
    BY <1>1, <1>2, Moves
  <1>4. TypeOK'
    BY <1>3, FakeAssumption DEF RLockNext, TypeOK, Thread
  <1>5. ExclusiveInv'
    <2> DEFINE l == Order[thread[t].index + 1]
    <2>1. \A u \in Threads : ~Writes(u, l)
      BY DEF RLockNext, MayRLock
    <2>2. \A u \in Threads, n \in Methods : Writes(u, n)' => Writes(u, n)
      BY <1>3 DEF RLockNext, TypeOK, Thread, Writes
    <2>3. \A u \in Threads \ {t}, n \in Methods : Reads(u, n)' => Reads(u, n)
      BY <1>3 DEF Reads
    <2>4. ASSUME NEW n \in Methods, Reads(t, n)' PROVE Reads(t, n) \/ n = l
      <3> DEFINE i == thread[t].index
      <3>1. i \in Nat
        BY DEF TypeOK, Thread
      <3>2. thread[t]' = r /\ r.index = i + 1
        BY <1>3, <3>1 DEF TypeOK, Thread
      <3>3. PICK k \in 1..(i + 1) : Order[k] = n
        BY <2>4, <3>2 DEF Reads
      <3>4. k \in 1..i \/ k = i + 1
        BY <3>1, <3>3
      <3>5. thread[t].at = "read"
        BY DEF RLockNext
      <3>6. QED
        BY <3>3, <3>4, <3>5 DEF Reads
    <2>5. QED
      BY <2>1, <2>2, <2>3, <2>4 DEF ExclusiveInv
  <1>6. RecordedInv'
    <2>1. \A u \in Threads, n \in Methods : Recording(u, n)' <=> Recording(u, n)
      BY <1>3 DEF RLockNext, Idle, TypeOK, Thread, Recording
    <2>2. QED
      BY <2>1, RecordsNothing DEF RLockNext
  <1>7. EachAnswerOnce'
    <2>1. ~InFlight(t)
      BY DEF RLockNext, InFlight
    <2>2. ~InFlight(t)'
      BY <1>3 DEF RLockNext, InFlight, TypeOK, Thread
    <2>3. \A u \in Threads \ {t} : InFlight(u)' <=> InFlight(u)
      BY <1>3 DEF InFlight
    <2>4. QED
      BY <1>3, <2>1, <2>2, <2>3 DEF RLockNext, EachAnswerOnce
  <1>8. StubInv'
    BY <1>3 DEF RLockNext, Idle, TypeOK, Thread, StubInv
  <1>9. QED
    BY <1>4, <1>5, <1>6, <1>7, <1>8

\* Copy keeps the invariant.
LEMMA CopyStep ==
  ASSUME IInv, NEW t \in Threads, Copy(t)
  PROVE  IInv'
  <1> DEFINE r == Idle
  <1> USE DEF IInv, At
  <1>1. r \in Thread
    BY OrderFacts, IdleType DEF Copy, Idle, TypeOK, Thread, Places, Operations
  <1>2. thread' = [thread EXCEPT ![t] = r]
    BY DEF Copy, Return
  <1>3. /\ thread' \in [Threads -> Thread] /\ thread'[t] = r
        /\ \A u \in Threads \ {t} : thread'[u] = thread[u]
    BY <1>1, <1>2, Moves
  <1>4. TypeOK'
    BY <1>3, FakeAssumption DEF Copy, TypeOK, Thread
  <1>5. ExclusiveInv'
    <2>1. \A u \in Threads, n \in Methods : Writes(u, n)' => Writes(u, n)
      BY <1>3 DEF Copy, Idle, TypeOK, Thread, Writes
    <2>2. \A u \in Threads, n \in Methods : Reads(u, n)' => Reads(u, n)
      BY <1>3 DEF Copy, Idle, TypeOK, Thread, Reads
    <2>3. QED
      BY <2>1, <2>2, Releases
  <1>6. RecordedInv'
    <2>1. \A n \in Methods : ~Recording(t, n)
      BY DEF Copy, Copies, Recording
    <2>2. \A n \in Methods : ~Recording(t, n)'
      BY <1>3 DEF Idle, Recording
    <2>3. \A u \in Threads \ {t}, n \in Methods : Recording(u, n)' <=> Recording(u, n)
      BY <1>3 DEF Recording
    <2>4. \A u \in Threads, n \in Methods : Recording(u, n)' <=> Recording(u, n)
      BY <2>1, <2>2, <2>3
    <2>5. QED
      BY <2>4, RecordsNothing DEF Copy
  <1>7. EachAnswerOnce'
    BY <1>3 DEF Copy, Idle, TypeOK, Thread, EachAnswerOnce, InFlight
  <1>8. StubInv'
    BY <1>3 DEF Copy, Idle, TypeOK, Thread, StubInv
  <1>9. QED
    BY <1>4, <1>5, <1>6, <1>7, <1>8

-----------------------------------------------------------------------------
\* The invariant holds of every reachable state.
THEOREM SharedFakes == Spec => []IInv
  <1>1. Init => IInv
    <2> SUFFICES ASSUME Init PROVE IInv
      OBVIOUS
    <2>1. TypeOK
      BY IdleType, FakeAssumption DEF Init, TypeOK
    <2>2. \A t \in Threads : At(t, "idle")
      BY DEF Init, At, Idle
    <2>3. ExclusiveInv /\ EachAnswerOnce /\ StubInv
      BY <2>2 DEF ExclusiveInv, EachAnswerOnce, StubInv, Writes, InFlight, At
    <2>4. RecordedInv
      BY <2>2 DEF Init, RecordedInv, Recording, At
    <2>5. QED
      BY <2>1, <2>3, <2>4 DEF IInv
  <1>2. IInv /\ [Next]_vars => IInv'
    <2> SUFFICES ASSUME IInv, [Next]_vars PROVE IInv'
      OBVIOUS
    <2>1. CASE Next
      <3>1. PICK t \in Threads :
               \/ \E m \in Methods, op \in Operations : Begin(t, m, op)
               \/ Call(t) \/ Configure(t) \/ Inspect(t)
        BY <2>1 DEF Next
      <3>2. CASE \E m \in Methods, op \in Operations : Begin(t, m, op)
        BY <3>2, BeginStep
      <3>3. CASE Call(t)
        BY <3>3, TakeStep, RecordStep, UnlockStep, SeesStubStep, AnswersStep,
           RunsStubStep, CallsNilStep DEF Call
      <3>4. CASE Configure(t)
        BY <3>4, CallsStep, ReturnsStep, ReturnsOnCallStep DEF Configure
      <3>5. CASE Inspect(t)
        BY <3>5, InvocationsStep, RLockNextStep, CopyStep DEF Inspect
      <3>6. QED
        BY <3>1, <3>2, <3>3, <3>4, <3>5
    <2>2. CASE UNCHANGED vars
      BY <2>2 DEF vars, IInv, TypeOK, ExclusiveInv, RecordedInv, EachAnswerOnce,
         StubInv, Writes, Reads, Recording, InFlight, At
    <2>3. QED
      BY <2>1, <2>2
  <1>3. QED
    BY <1>1, <1>2, PTL DEF Spec

\* A ReturnsOnCall answer is given at most once, whatever else goes on.
THEOREM AnswersAreNotShared == Spec => []EachAnswerOnce
  <1>1. IInv => EachAnswerOnce
    BY DEF IInv
  <1>2. QED
    BY <1>1, SharedFakes, PTL

\* The copy that Invocations returns agrees with CallCount of every method.
THEOREM SnapshotsAgree == Spec => []SnapshotAgrees
  <1>1. IInv => SnapshotAgrees
    <2> SUFFICES ASSUME IInv, NEW t \in Threads, Copies(t), NEW m \in Methods
                 PROVE  recorded[m] = calls[m]
      BY DEF SnapshotAgrees
    <2>1. Reads(t, m)
      BY OrderFacts DEF Copies, Reads
    <2>2. \A u \in Threads : ~Writes(u, m)
      BY <2>1 DEF IInv, ExclusiveInv
    <2>3. \A u \in Threads : ~Recording(u, m)
      BY <2>2 DEF Writes, Recording, At
    <2>4. QED
      BY <2>3 DEF IInv, RecordedInv
  <1>2. QED
    BY <1>1, SharedFakes, PTL

\* A call panics on its Stub only when it was taken away under it.
THEOREM PanicsAreRaces == Spec => []NilStubIsARace
  <1>1. IInv => NilStubIsARace
    BY DEF IInv, TypeOK, Thread, StubInv, NilStubIsARace
  <1>2. QED
    BY <1>1, SharedFakes, PTL

\* A non-empty set of numbers below a bound has a greatest element.
LEMMA GreatestBelow ==
  ASSUME NEW n \in Nat, NEW T, T \subseteq 0..n, T # {}
  PROVE  \E x \in T : \A y \in T : y <= x
  <1> DEFINE D == {n - x : x \in T}
             R == OpToRel(<, Nat)
  <1>1. D \subseteq Nat /\ D # {}
    <2>1. \A x \in T : x \in Nat /\ n - x \in Nat
      OBVIOUS
    <2>2. D \subseteq Nat
      BY <2>1
    <2>3. PICK x \in T : TRUE
      OBVIOUS
    <2>4. n - x \in D
      OBVIOUS
    <2>5. QED
      BY <2>2, <2>4
  <1>2. PICK d \in D : \A e \in D : ~(<<e, d>> \in R)
    <2>1. IsWellFoundedOn(R, Nat)
      BY NatLessThanWellFounded
    <2> HIDE DEF R, D
    <2>2. QED
      BY <1>1, <2>1, WFMin
  <1>3. \A e \in D : ~(e < d)
    <2> TAKE e \in D
    <2>1. e \in Nat /\ d \in Nat
      BY <1>1
    <2>2. <<e, d>> \in Nat \X Nat /\ <<e, d>>[1] = e /\ <<e, d>>[2] = d
      BY <2>1
    <2>3. QED
      BY <1>2, <2>2 DEF OpToRel
  <1>4. PICK x \in T : d = n - x
    OBVIOUS
  <1>5. ASSUME NEW y \in T PROVE y <= x
    <2>1. n - y \in D
      OBVIOUS
    <2>2. ~(n - y < n - x)
      BY <1>3, <1>4, <2>1
    <2>3. x \in Nat /\ y \in Nat
      OBVIOUS
    <2>4. QED
      BY <2>2, <2>3
  <1>6. QED
    BY <1>5

\* Without a call that records, of the goroutines that wait one may go on: the
\* Invocations that has got furthest, or a Lock that no Invocations stands in
\* the way of.
LEMMA SomebodyMayGo ==
  ASSUME IInv, NEW b \in Threads, Busy(b),
         \A t \in Threads : Busy(t) => ~MayGo(t),
         \A t \in Threads : ~At(t, "record")
  PROVE  FALSE
  <1> DEFINE n == Len(Order)
             Readers == {t \in Threads : At(t, "read")}
             Reached == {thread[t].index : t \in Readers}
  <1>1. ASSUME NEW t \in Threads, Busy(t) PROVE At(t, "lock") \/ At(t, "read")
    BY <1>1 DEF MayGo, At, IInv, TypeOK, Thread, Places
  <1>2. \A t \in Threads, m \in Methods : ~Writes(t, m)
    BY <1>1 DEF Writes, Busy, At
  <1>3. ASSUME NEW t \in Threads, At(t, "lock")
        PROVE  \E u \in Readers : Reads(u, thread[t].method)
    <2>1. ~MayLock(thread[t].method)
      BY <1>3 DEF MayGo, Busy, At
    <2>2. thread[t].method \in Methods
      BY DEF IInv, TypeOK, Thread
    <2>3. QED
      BY <1>2, <2>1, <2>2 DEF MayLock, Reads
  <1>4. ASSUME NEW t \in Readers
        PROVE  /\ thread[t].index \in Nat /\ thread[t].index < n
               /\ \E u \in Threads : Waits(u, Order[thread[t].index + 1])
    <2>1. Busy(t) /\ ~At(t, "lock") /\ ~At(t, "record") /\ At(t, "read")
      BY <1>4 DEF Busy, At
    <2>2. /\ thread[t].index < n
          /\ ~MayRLock(Order[thread[t].index + 1])
      BY <2>1 DEF MayGo
    <2>3. thread[t].index \in Nat
      BY DEF IInv, TypeOK, Thread
    <2>4. Order[thread[t].index + 1] \in Methods
      BY OrderFacts, <2>2, <2>3
    <2>5. QED
      BY <1>2, <2>2, <2>3, <2>4 DEF MayRLock
  <1>5. Reached # {} /\ Reached \subseteq 0..n
    <2>1. Readers # {}
      BY <1>1, <1>3
    <2>2. n \in Nat
      BY OrderFacts
    <2>3. QED
      BY <1>4, <2>1, <2>2
  <1>6. PICK t \in Readers : \A u \in Readers : thread[u].index <= thread[t].index
    <2>1. PICK x \in Reached : \A y \in Reached : y <= x
      <3>1. n \in Nat
        BY OrderFacts
      <3> HIDE DEF n, Reached
      <3>2. QED
        BY <1>5, <3>1, GreatestBelow
    <2>2. QED
      BY <2>1
  <1> DEFINE i == thread[t].index + 1
  <1>7. i \in 1..n
    BY <1>4, OrderFacts
  <1>8. PICK u \in Threads : Waits(u, Order[i])
    BY <1>4
  <1>9. PICK v \in Readers : Reads(v, Order[i])
    BY <1>3, <1>8 DEF Waits, At
  <1>10. PICK k \in 1..thread[v].index : Order[k] = Order[i]
    BY <1>9 DEF Reads
  <1>11. k = i
    <2>1. k \in 1..n
      BY <1>4, OrderFacts
    <2>2. QED
      BY <1>7, <1>10, <2>1, OrderFacts
  <1>12. QED
    BY <1>4, <1>6, <1>10, <1>11

\* Calls and configuration alone never block each other for good: when nobody
\* can go on, an Invocations and a call each hold what the other waits for.
THEOREM OnlyReadersBlock == Spec => []BlockedByInvocations
  <1>1. ASSUME IInv PROVE BlockedByInvocations
    <2> SUFFICES ASSUME NEW b \in Threads, Busy(b),
                        \A t \in Threads : Busy(t) => ~MayGo(t)
                 PROVE  /\ \E t \in Threads : At(t, "read")
                        /\ \E t \in Threads : At(t, "record")
      BY DEF BlockedByInvocations
    <2>1. PICK t \in Threads : At(t, "record")
      BY <1>1, SomebodyMayGo
    <2>2. ~MayLockInvocations
      BY <2>1 DEF MayGo, Busy, At
    <2>3. QED
      BY <2>1, <2>2 DEF MayLockInvocations
  <1>2. QED
    BY <1>1, SharedFakes, PTL
=============================================================================
