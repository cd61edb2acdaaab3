------------------------------ MODULE FakeCalls ------------------------------
(***************************************************************************)
(* The generated fakes behind the unit tests, used by several goroutines:  *)
(* a test configures a fake and looks at what it has recorded while the    *)
(* code under test calls it.  Every method has a mutex for its arguments   *)
(* and answers; one more guards the invocations of all methods.            *)
(*                                                                         *)
(* The state of a mutex is who holds it and who waits for it, which the    *)
(* goroutines' positions tell.  A critical section that takes no further   *)
(* lock is one step.                                                       *)
(***************************************************************************)
EXTENDS Integers, Sequences

CONSTANTS
  Fake,     \* which of the three fakes
  Threads,  \* the goroutines
  MaxCalls  \* bound: operations begun

ClientMethods == {"Create", "Delete", "DeleteAllOf", "Get", "List", "Patch",
                  "RESTMapper", "Scheme", "Status", "Update"}
ManagerMethods == {"Add", "AddHealthzCheck", "AddMetricsExtraHandler",
                   "AddReadyzCheck", "Elected", "GetAPIReader", "GetCache",
                   "GetClient", "GetConfig", "GetEventRecorderFor",
                   "GetFieldIndexer", "GetLogger", "GetRESTMapper", "GetScheme",
                   "GetWebhookServer", "SetFields", "Start"}
StatusWriterMethods == {"Patch", "Update"}

\* The order in which Invocations takes the mutexes of the methods.
ClientOrder == <<"Create", "Delete", "DeleteAllOf", "Get", "List", "Patch",
                 "RESTMapper", "Scheme", "Status", "Update">>
ManagerOrder == <<"Add", "AddHealthzCheck", "AddMetricsExtraHandler",
                  "AddReadyzCheck", "Elected", "GetAPIReader", "GetCache",
                  "GetClient", "GetConfig", "GetEventRecorderFor",
                  "GetFieldIndexer", "GetLogger", "GetRESTMapper", "GetScheme",
                  "GetWebhookServer", "SetFields", "Start">>
StatusWriterOrder == <<"Patch", "Update">>

Methods == CASE Fake = "client" -> ClientMethods
             [] Fake = "manager" -> ManagerMethods
             [] OTHER -> StatusWriterMethods
\* Mutant of Order: the mutex of the first method is taken once more.
OrderRepeated == CASE Fake = "client" -> <<"Create">> \o ClientOrder
                   [] Fake = "manager" -> <<"Add">> \o ManagerOrder
                   [] OTHER -> <<"Patch">> \o StatusWriterOrder

\* The order of the fake at hand.
Order == CASE Fake = "client" -> ClientOrder
           [] Fake = "manager" -> ManagerOrder
           [] OTHER -> StatusWriterOrder

ASSUME FakeAssumption ==
  /\ Fake \in {"client", "manager", "statuswriter"}
  /\ MaxCalls \in Nat

VARIABLES
  stub,      \* the methods whose Stub is set
  onCall,    \* the calls with an answer of their own, by method
  calls,     \* length of ArgsForCall, by method
  recorded,  \* length of the invocations, by method
  resets,    \* history: how often a method's Stub was set to nil
  thread,    \* where each goroutine is
  left       \* operations still allowed

vars == <<stub, onCall, calls, recorded, resets, thread, left>>

Operations == {"call", "stub", "returns", "returnsOnCall"}
Places == {"idle", "lock", "record", "recorded", "check", "stub", "nil", "read"}

\* index is the number of the call, and for Invocations how many mutexes it has.
Thread == [at : Places, op : Operations, method : Methods, index : Nat,
           specific : BOOLEAN, resets : Nat]

AnyMethod == CHOOSE m \in Methods : TRUE
Idle == [at |-> "idle", op |-> "call", method |-> AnyMethod, index |-> 0,
         specific |-> FALSE, resets |-> 0]

At(t, place) == thread[t].at = place
Go(t, place) == thread' = [thread EXCEPT ![t] = [@ EXCEPT !.at = place]]
Return(t) == thread' = [thread EXCEPT ![t] = Idle]

-----------------------------------------------------------------------------
(* Who holds and who waits for the mutexes *)

\* Mutant of Writes: the invocation is recorded after the method is unlocked.
WritesArguments(t, m) == thread[t].method = m /\ thread[t].at = "recorded"

Writes(t, m) == thread[t].method = m /\ thread[t].at \in {"record", "recorded"}
Waits(t, m)  == thread[t].method = m /\ thread[t].at = "lock"
Reads(t, m)  == At(t, "read") /\ \E k \in 1..thread[t].index : Order[k] = m

\* Lock waits for readers and writers; RLock also for a Lock that waits.
MayLock(m)  == \A t \in Threads : ~Writes(t, m) /\ ~Reads(t, m)
MayRLock(m) == \A t \in Threads : ~Writes(t, m) /\ ~Waits(t, m)
MayLockInvocations  == \A t \in Threads : ~At(t, "read")
MayRLockInvocations == \A t \in Threads : ~At(t, "record")

-----------------------------------------------------------------------------
(* A method of the fake, and what configures it *)

\* A call of m, or of mCalls, mReturns or mReturnsOnCall: all begin with Lock.
Begin(t, m, op) ==
  /\ left > 0 /\ left' = left - 1
  /\ At(t, "idle")
  /\ thread' = [thread EXCEPT ![t] = [Idle EXCEPT !.at = "lock", !.op = op,
                                                  !.method = m]]
  /\ UNCHANGED <<stub, onCall, calls, recorded, resets>>

\* Mutant of Take: the arguments are not kept.
TakeOnly(t) ==
  LET m == thread[t].method IN
  /\ At(t, "lock") /\ thread[t].op = "call" /\ MayLock(m)
  /\ thread' = [thread EXCEPT ![t] = [@ EXCEPT !.at = "record", !.index = calls[m],
                                              !.specific = calls[m] \in onCall[m]]]
  /\ UNCHANGED <<stub, onCall, calls, recorded, resets, left>>

\* The answer is looked up by the number of calls before this one.
Take(t) ==
  LET m == thread[t].method IN
  /\ At(t, "lock") /\ thread[t].op = "call" /\ MayLock(m)
  /\ thread' = [thread EXCEPT ![t] = [@ EXCEPT !.at = "record", !.index = calls[m],
                                              !.specific = calls[m] \in onCall[m]]]
  /\ calls' = [calls EXCEPT ![m] = @ + 1]
  /\ UNCHANGED <<stub, onCall, recorded, resets, left>>

\* Mutant of Record: the method's mutex is taken again.
RecordRelocking(t) ==
  /\ At(t, "record") /\ MayLockInvocations /\ MayLock(thread[t].method)
  /\ recorded' = [recorded EXCEPT ![thread[t].method] = @ + 1]
  /\ Go(t, "recorded")
  /\ UNCHANGED <<stub, onCall, calls, resets, left>>

\* recordInvocation, with the method's mutex held.
Record(t) ==
  /\ At(t, "record") /\ MayLockInvocations
  /\ recorded' = [recorded EXCEPT ![thread[t].method] = @ + 1]
  /\ Go(t, "recorded")
  /\ UNCHANGED <<stub, onCall, calls, resets, left>>

Unlock(t) ==
  /\ At(t, "recorded")
  /\ Go(t, "check")
  /\ UNCHANGED <<stub, onCall, calls, recorded, resets, left>>

\* Mutant of SeesStub: the stub is called without a look.
TrustsStub(t) ==
  /\ At(t, "check")
  /\ thread' = [thread EXCEPT ![t] = [@ EXCEPT !.at = "stub",
                                              !.resets = resets[thread[t].method]]]
  /\ UNCHANGED <<stub, onCall, calls, recorded, resets, left>>

\* Without a lock: is there a Stub?
SeesStub(t) ==
  /\ At(t, "check") /\ thread[t].method \in stub
  /\ thread' = [thread EXCEPT ![t] = [@ EXCEPT !.at = "stub",
                                              !.resets = resets[thread[t].method]]]
  /\ UNCHANGED <<stub, onCall, calls, recorded, resets, left>>

\* No: the specific answer or the default one is returned.
Answers(t) ==
  /\ At(t, "check") /\ thread[t].method \notin stub
  /\ Return(t)
  /\ UNCHANGED <<stub, onCall, calls, recorded, resets, left>>

\* The field is read once more to call it.
RunsStub(t) ==
  /\ At(t, "stub") /\ thread[t].method \in stub
  /\ Return(t)
  /\ UNCHANGED <<stub, onCall, calls, recorded, resets, left>>

\* It has become nil: the goroutine panics.
CallsNil(t) ==
  /\ At(t, "stub") /\ thread[t].method \notin stub
  /\ Go(t, "nil")
  /\ UNCHANGED <<stub, onCall, calls, recorded, resets, left>>

Calls(t) ==
  LET m == thread[t].method IN
  /\ At(t, "lock") /\ thread[t].op = "stub" /\ MayLock(m)
  /\ stub' = stub \cup {m}
  /\ Return(t)
  /\ UNCHANGED <<onCall, calls, recorded, resets, left>>

Returns(t) ==
  LET m == thread[t].method IN
  /\ At(t, "lock") /\ thread[t].op = "returns" /\ MayLock(m)
  /\ stub' = stub \ {m} /\ resets' = [resets EXCEPT ![m] = @ + 1]
  /\ Return(t)
  /\ UNCHANGED <<onCall, calls, recorded, left>>

ReturnsOnCall(t, i) ==
  LET m == thread[t].method IN
  /\ At(t, "lock") /\ thread[t].op = "returnsOnCall" /\ MayLock(m)
  /\ stub' = stub \ {m} /\ resets' = [resets EXCEPT ![m] = @ + 1]
  /\ onCall' = [onCall EXCEPT ![m] = @ \cup {i}]
  /\ Return(t)
  /\ UNCHANGED <<calls, recorded, left>>

-----------------------------------------------------------------------------
(* Invocations: the mutex of the invocations, then those of all methods *)

Invocations(t) ==
  /\ left > 0 /\ left' = left - 1
  /\ At(t, "idle") /\ MayRLockInvocations
  /\ thread' = [thread EXCEPT ![t] = [Idle EXCEPT !.at = "read"]]
  /\ UNCHANGED <<stub, onCall, calls, recorded, resets>>

RLockNext(t) ==
  LET taken == thread[t].index IN
  /\ At(t, "read") /\ taken < Len(Order)
  /\ MayRLock(Order[taken + 1])
  /\ thread' = [thread EXCEPT ![t] = [@ EXCEPT !.index = taken + 1]]
  /\ UNCHANGED <<stub, onCall, calls, recorded, resets, left>>

\* All are held; the invocations are copied and everything is unlocked.
Copies(t) == At(t, "read") /\ thread[t].index = Len(Order)

Copy(t) ==
  /\ Copies(t)
  /\ Return(t)
  /\ UNCHANGED <<stub, onCall, calls, recorded, resets, left>>

-----------------------------------------------------------------------------
Init ==
  /\ stub = {} /\ onCall = [m \in Methods |-> {}]
  /\ calls = [m \in Methods |-> 0] /\ recorded = [m \in Methods |-> 0]
  /\ resets = [m \in Methods |-> 0]
  /\ thread = [t \in Threads |-> Idle]
  /\ left = MaxCalls

Call(t) == Take(t) \/ Record(t) \/ Unlock(t) \/ SeesStub(t) \/ Answers(t)
           \/ RunsStub(t) \/ CallsNil(t)
Configure(t) == Calls(t) \/ Returns(t) \/ \E i \in 0..MaxCalls : ReturnsOnCall(t, i)
Inspect(t) == Invocations(t) \/ RLockNext(t) \/ Copy(t)

Next == \E t \in Threads :
          \/ \E m \in Methods, op \in Operations : Begin(t, m, op)
          \/ Call(t) \/ Configure(t) \/ Inspect(t)

Spec == Init /\ [][Next]_vars
=============================================================================
