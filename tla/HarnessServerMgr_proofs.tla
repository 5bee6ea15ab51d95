------------------------ MODULE HarnessServerMgr_proofs ---------------------
(***************************************************************************)
(* Proofs about the server manager, for any set of transactions, sizes and *)
(* time limits, any client and any device.                                 *)
(***************************************************************************)
EXTENDS HarnessServerMgr, SequenceTheorems, SumTheorems

-----------------------------------------------------------------------------
(* Facts about the deque.                                                  *)

(* push_back: the new element is the only change, and the front stays.     *)
LEMMA AppendFacts ==
  ASSUME NEW S, NEW s \in Seq(S), NEW x \in S
  PROVE  /\ Append(s, x) \in Seq(S)
         /\ Append(s, x) # << >>
         /\ Range(Append(s, x)) = Range(s) \cup {x}
         /\ s # << >> => Head(Append(s, x)) = Head(s)
         /\ s = << >> => Head(Append(s, x)) = x
         /\ IsInjective(s) /\ x \notin Range(s) => IsInjective(Append(s, x))
<1>1. /\ Append(s, x) \in Seq(S)
      /\ Append(s, x) # << >>
      /\ Len(Append(s, x)) = Len(s) + 1
      /\ \A i \in 1 .. Len(s) : Append(s, x)[i] = s[i]
      /\ Append(s, x)[Len(s) + 1] = x
  BY AppendProperties
<1>2. DOMAIN s = 1 .. Len(s) /\ DOMAIN Append(s, x) = 1 .. Len(s) + 1 /\ Len(s) \in Nat
  BY <1>1, LenProperties
<1>3. Range(Append(s, x)) = Range(s) \cup {x}
  BY <1>1, <1>2 DEF Range
<1>4. s # << >> => Head(Append(s, x)) = Head(s)
  BY <1>1, <1>2, EmptySeq, HeadTailAppend
<1>5. s = << >> => Head(Append(s, x)) = x
  BY <1>1, <1>2, EmptySeq, HeadTailAppend
<1>6. IsInjective(s) /\ x \notin Range(s) => IsInjective(Append(s, x))
  BY <1>1, <1>2 DEF Range, IsInjective
<1> QED BY <1>1, <1>3, <1>4, <1>5, <1>6

(* pop_front: exactly the front leaves.                                    *)
LEMMA TailFacts ==
  ASSUME NEW S, NEW s \in Seq(S), s # << >>
  PROVE  /\ Tail(s) \in Seq(S)
         /\ Head(s) \in S
         /\ Head(s) \in Range(s)
         /\ Range(s) = {Head(s)} \cup Range(Tail(s))
         /\ IsInjective(s) => IsInjective(Tail(s)) /\ Head(s) \notin Range(Tail(s))
<1>1. /\ Head(s) \in S
      /\ Tail(s) \in Seq(S)
      /\ Len(Tail(s)) = Len(s) - 1
      /\ \A i \in 1 .. Len(Tail(s)) : Tail(s)[i] = s[i + 1]
  BY HeadTailProperties
<1>2. /\ Len(s) \in Nat \ {0}
      /\ DOMAIN s = 1 .. Len(s)
      /\ DOMAIN Tail(s) = 1 .. Len(s) - 1
      /\ Head(s) = s[1]
  BY <1>1, LenProperties, EmptySeq
<1>3. Range(s) \subseteq {Head(s)} \cup Range(Tail(s))
  <2> SUFFICES ASSUME NEW i \in 1 .. Len(s), i # 1
               PROVE  s[i] \in Range(Tail(s))
    BY <1>2 DEF Range
  <2>1. i - 1 \in 1 .. Len(s) - 1 /\ Tail(s)[i - 1] = s[i]
    BY <1>1, <1>2
  <2> QED BY <2>1, <1>2 DEF Range
<1>4. {Head(s)} \cup Range(Tail(s)) \subseteq Range(s)
  BY <1>1, <1>2 DEF Range
<1>5. IsInjective(s) => IsInjective(Tail(s)) /\ Head(s) \notin Range(Tail(s))
  BY <1>1, <1>2 DEF Range, IsInjective
<1> QED BY <1>1, <1>2, <1>3, <1>4, <1>5

LEMMA EmptyFacts ==
  ASSUME NEW S
  PROVE  /\ << >> \in Seq(S)
         /\ Range(<< >>) = {}
         /\ IsInjective(<< >>)
  BY EmptySeq DEF Range, IsInjective

LEMMA NonEmptyFacts ==
  ASSUME NEW S, NEW s \in Seq(S), Range(s) # {}
  PROVE  s # << >>
  BY EmptyFacts
-----------------------------------------------------------------------------
(* The inductive invariant.                                                *)

Alive == Waiting \cup Driving \cup {"exited"}

(* The deque holds no transaction twice, only known ones, none deleted,    *)
(* and the transaction of every PL thread that was not joined.             *)
DequeInv ==
  MgrUp =>
    /\ IsInjective(transactions)
    /\ Range(transactions) \subseteq ids
    /\ freed \subseteq ids
    /\ Range(transactions) \cap freed = {}
    /\ \A t \in Trans : pc[t] \in Alive => t \in Range(transactions)
    /\ \A t \in Trans : t \notin ids => pc[t] = "none"

(* Past the spin a thread is that of the front; past the lock it owns it.  *)
FrontInv ==
  MgrUp =>
    \A t \in Trans :
      /\ pc[t] \in Driving \cup {"locking"} => t = Head(transactions)
      /\ pc[t] \in Driving => plMtx = t

(* Buffers are remembered from StartPL to the fetch.                       *)
BuffersInv ==
  \A t \in Range(bos) : MgrUp /\ pc[t] \in Driving \ {"start", "markDone"}

(* What the session thread knows between two steps of one request; the     *)
(* destructor returns only if no PL thread is left.                        *)
RequestInv ==
  /\ session = "filling" =>
       /\ incoming \in Range(transactions)
       /\ pc[incoming] = "none"
  /\ session \in {"receiving", "filling"} =>
       memorySize + announced <= MemorySizeMax
  /\ session = "joining" => transactions # << >>
  /\ session = "closed" => pl_threads = {}

(* A time limit is set once, when the wait for the transaction begins.     *)
LimitInv ==
  /\ session \in {"idle", "receiving", "filling"} =>
       \A t \in Range(transactions) : timeOut[t] = 0
  /\ session = "joining" =>
       \A t \in Range(Tail(transactions)) : timeOut[t] = 0
  /\ TimeOutNeedsLimit

IInv ==
  /\ TypeOK
  /\ memorySize <= MemorySizeMax
  /\ DequeInv
  /\ FrontInv
  /\ BuffersInv
  /\ RequestInv
  /\ LimitInv
-----------------------------------------------------------------------------
(* The session thread and the rest of the server when a client may send    *)
(* any size and any limit; the instances of Spec restrict them to Declared *)
(* and TimeOuts, the client of HarnessPipeline to what it computes.        *)
AnyRunTestHarness ==
  \/ \E size \in Nat : RefuseRun(size) \/ AdmitRun(size)
  \/ \E t \in Trans : CreateTransaction(t)
  \/ \E t \in Trans, validMode \in BOOLEAN : RejectTransaction(t, validMode)
  \/ SpawnPL

AnyWaitForTestHarness ==
  \/ \E t \in Trans, ms \in Nat : WaitForTestHarnessRequest(t, ms)
  \/ DeliverResult

AnyNext ==
  \/ AnyRunTestHarness
  \/ AnyWaitForTestHarness
  \/ Query
  \/ SocketFailure
  \/ DestroyMgr \/ DestructorStep
  \/ PLThreads
  \/ Device
-----------------------------------------------------------------------------
USE MemUseAssumption, DeclaredAssumption, TimeOutsAssumption,
    MemorySizeMaxAssumption, NoTransAssumption DEF Destructor

LEMMA InitInv == Init => IInv
BY EmptyFacts
   DEF Init, FastInit, IInv, TypeOK, FastTypeOK, Statuses, PCs, Waiting, Driving,
       SessionStates, BufferContents, Results, DequeInv, FrontInv, BuffersInv,
       RequestInv, LimitInv, TimeOutNeedsLimit, Alive, MgrUp, pl_threads

(* The variables the invariant speaks about.                               *)
LEMMA StutterInv == IInv /\ UNCHANGED vars => IInv'
BY DEF vars, pl_threads, fastVars, mgrVars, sessionVars, IInv, TypeOK, FastTypeOK, DequeInv,
       FrontInv, BuffersInv, RequestInv, LimitInv, TimeOutNeedsLimit, MgrUp

(* As long as the manager is whole no thread goes astray.                  *)
LEMMA NoneStray ==
  ASSUME IInv, MgrUp, NEW t \in Trans
  PROVE  ~Stray(t)
<1> SUFFICES ASSUME Stray(t) PROVE FALSE
  OBVIOUS
<1>1. t \in freed /\ pc[t] \in Waiting \cup Driving
  BY DEF Stray, Intact, MgrUp, Waiting, Driving
<1> QED BY <1>1 DEF IInv, DequeInv, Alive

(* What a PL thread does in the destructor of the manager.                 *)
LEMMA WindowSteps ==
  ASSUME IInv, ~MgrUp, NEW t \in Trans, PLThread(t)
  PROVE  /\ session \in Destructor /\ session' \in {session, "terminated"}
         /\ TypeOK'
         /\ UNCHANGED <<runs, bos, completed, hostBuf, transactions, ids, freed,
                        timeOut, memorySize, incoming, announced, delivered>>
<1> USE DEF IInv, TypeOK, FastTypeOK, MgrUp, ProcessUp
<1>1. session \in Destructor
  BY DEF PLThread, ReachFront, LockPL, StartPL, NextSlice, SliceEnds, FetchAfterSlice,
         MarkDone, LastWait, LimitEnds, FetchAfterLimit, Stray, Go
<1>2. CASE Stray(t)
  <2>1. /\ pc' = pc \/ \E to \in PCs : pc' = [pc EXCEPT ![t] = to]
        /\ plMtx' = plMtx \/ plMtx' = NoTrans
        /\ session' = session \/ session' = "terminated"
        /\ UNCHANGED <<runs, bos, completed, hostBuf, transactions, ids, freed, status,
                       timeOut, memorySize, incoming, announced, delivered>>
    BY <1>2 DEF Stray, fastVars, mgrVars
  <2>2. pc' \in [Trans -> PCs] /\ plMtx' \in Trans \cup {NoTrans}
    BY <2>1
  <2>3. session' \in SessionStates
    BY <2>1 DEF SessionStates
  <2> QED BY <1>1, <2>1, <2>2, <2>3
<1>3. ASSUME ReachFront(t) \/ LockPL(t) \/ NextSlice(t) \/ LastWait(t) \/ MarkDone(t)
      PROVE  /\ UNCHANGED <<fastVars, mgrVars, sessionVars>> \/
                 (status' = [status EXCEPT ![t] = "DONE"] /\
                  UNCHANGED <<fastVars, transactions, ids, freed, timeOut, memorySize,
                              sessionVars>>)
             /\ pc' \in [Trans -> PCs] /\ plMtx' \in Trans \cup {NoTrans}
  BY <1>3 DEF ReachFront, LockPL, NextSlice, LastWait, MarkDone, Go, mgrVars, PCs, Waiting,
     Driving
<1>4. CASE ReachFront(t) \/ LockPL(t) \/ NextSlice(t) \/ LastWait(t) \/ MarkDone(t)
  <2>1. status' \in [Trans -> Statuses]
    BY <1>3, <1>4 DEF mgrVars, Statuses
  <2> QED BY <1>1, <1>3, <1>4, <2>1 DEF fastVars, mgrVars, sessionVars
<1>5. ~(StartPL(t) \/ SliceEnds(t) \/ FetchAfterSlice(t) \/ LimitEnds(t) \/ FetchAfterLimit(t))
  BY <1>1 DEF StartPL, SliceEnds, FetchAfterSlice, LimitEnds, FetchAfterLimit, Go, Intact
<1> QED BY <1>2, <1>4, <1>5 DEF PLThread

(* The steps of a PL thread leave the deque alone.                         *)
LEMMA PLThreadInv ==
  ASSUME IInv, NEW t \in Trans, PLThread(t)
  PROVE  IInv'
<1>gone. CASE ~MgrUp
  <2>1. /\ session \in Destructor /\ session' \in Destructor \cup {"terminated"} /\ TypeOK'
        /\ bos' = bos /\ memorySize' = memorySize
    BY <1>gone, WindowSteps
  <2>2. ~MgrUp'
    BY <2>1 DEF MgrUp
  <2>3. \A b \in Range(bos) : FALSE
    BY <1>gone DEF IInv, BuffersInv
  <2> QED BY <2>1, <2>2, <2>3 DEF IInv, DequeInv, FrontInv, BuffersInv, RequestInv, LimitInv,
             TimeOutNeedsLimit
<1>up. ASSUME MgrUp PROVE ~Stray(t)
  BY <1>up, NoneStray
<1> SUFFICES ASSUME MgrUp PROVE IInv'
  BY <1>gone
<1> USE DEF IInv, TypeOK, FastTypeOK, Statuses, PCs, Waiting, Driving,
       SessionStates, BufferContents, DequeInv, FrontInv, BuffersInv,
       RequestInv, LimitInv, TimeOutNeedsLimit, Alive, MgrUp, Go,
       fastVars, sessionVars
<1>1. CASE ReachFront(t)
  <2>1. TypeOK' /\ memorySize' <= MemorySizeMax
    BY <1>1 DEF ReachFront
  <2>2. DequeInv'
    BY <1>1 DEF ReachFront
  <2>3. FrontInv' /\ BuffersInv'
    BY <1>1 DEF ReachFront
  <2>4. RequestInv' /\ LimitInv'
    BY <1>1 DEF ReachFront
  <2> QED BY <2>1, <2>2, <2>3, <2>4
<1>2. CASE LockPL(t)
  <2>1. TypeOK' /\ memorySize' <= MemorySizeMax
    BY <1>2 DEF LockPL
  <2>2. DequeInv'
    BY <1>2 DEF LockPL
  <2>3. FrontInv' /\ BuffersInv'
    BY <1>2 DEF LockPL
  <2>4. RequestInv' /\ LimitInv'
    BY <1>2 DEF LockPL
  <2> QED BY <2>1, <2>2, <2>3, <2>4
<1>3. CASE StartPL(t)
  <2>1. /\ MgrUp /\ pc[t] = "start" /\ pc' = [pc EXCEPT ![t] = "poll"]
        /\ status' = [status EXCEPT ![t] = "RUNNING"]
        /\ UNCHANGED <<transactions, ids, freed, timeOut, memorySize, session,
                       incoming, announced, delivered, plMtx, completed, hostBuf>>
    BY <1>3 DEF StartPL, RunPL
  <2>2. /\ runs' \in Seq(Trans) /\ bos' \in Seq(Trans)
        /\ Range(bos') = Range(bos) \cup {t}
    BY <1>3, AppendFacts DEF StartPL, RunPL
  <2>3. TypeOK' /\ memorySize' <= MemorySizeMax
    BY <2>1, <2>2
  <2>4. DequeInv'
    BY <2>1, <2>2
  <2>5. FrontInv'
    BY <2>1, <2>2
  <2>6. BuffersInv'
    BY <2>1, <2>2
  <2>7. RequestInv'
    BY <2>1, <2>2
  <2>8. LimitInv'
    BY <2>1, <2>2
  <2> QED BY <2>3, <2>4, <2>5, <2>6, <2>7, <2>8
<1>4. CASE NextSlice(t)
  BY <1>4 DEF NextSlice
<1>5. CASE SliceEnds(t)
  <2>1. TypeOK' /\ memorySize' <= MemorySizeMax
    BY <1>5 DEF SliceEnds
  <2>2. DequeInv'
    BY <1>5 DEF SliceEnds
  <2>3. FrontInv' /\ BuffersInv'
    BY <1>5 DEF SliceEnds
  <2>4. RequestInv' /\ LimitInv'
    BY <1>5 DEF SliceEnds
  <2> QED BY <2>1, <2>2, <2>3, <2>4
<1>6. CASE FetchAfterSlice(t)
  <2>1. /\ MgrUp /\ pc[t] = "fetch" /\ pc' = [pc EXCEPT ![t] = "markDone"]
        /\ UNCHANGED <<transactions, ids, freed, timeOut, memorySize, session,
                       incoming, announced, delivered, plMtx, status>>
    BY <1>6 DEF FetchAfterSlice
  <2>2. /\ runs' \in Seq(Trans) /\ bos' \in Seq(Trans)
        /\ Range(bos') = {}
        /\ completed' \subseteq Trans
        /\ hostBuf' \in [Trans -> BufferContents]
    BY <1>6, EmptyFacts DEF FetchAfterSlice, FetchRes
  <2>3. TypeOK' /\ memorySize' <= MemorySizeMax
    BY <2>1, <2>2
  <2>4. DequeInv'
    BY <2>1, <2>2
  <2>5. FrontInv'
    BY <2>1, <2>2
  <2>6. BuffersInv'
    BY <2>1, <2>2
  <2>7. RequestInv'
    BY <2>1, <2>2
  <2>8. LimitInv'
    BY <2>1, <2>2
  <2> QED BY <2>3, <2>4, <2>5, <2>6, <2>7, <2>8
<1>7. CASE MarkDone(t)
  <2>1. TypeOK' /\ memorySize' <= MemorySizeMax
    BY <1>7 DEF MarkDone
  <2>2. DequeInv'
    BY <1>7 DEF MarkDone
  <2>3. FrontInv' /\ BuffersInv'
    BY <1>7 DEF MarkDone
  <2>4. RequestInv' /\ LimitInv'
    BY <1>7 DEF MarkDone
  <2> QED BY <2>1, <2>2, <2>3, <2>4
<1>8. CASE LastWait(t)
  <2>1. TypeOK' /\ memorySize' <= MemorySizeMax
    BY <1>8 DEF LastWait
  <2>2. DequeInv'
    BY <1>8 DEF LastWait
  <2>3. FrontInv' /\ BuffersInv'
    BY <1>8 DEF LastWait
  <2>4. RequestInv' /\ LimitInv'
    BY <1>8 DEF LastWait
  <2> QED BY <2>1, <2>2, <2>3, <2>4
<1>9. CASE LimitEnds(t)
  <2>1. TypeOK' /\ memorySize' <= MemorySizeMax
    BY <1>9 DEF LimitEnds
  <2>2. DequeInv'
    BY <1>9 DEF LimitEnds
  <2>3. FrontInv' /\ BuffersInv'
    BY <1>9 DEF LimitEnds
  <2>4. RequestInv' /\ LimitInv'
    BY <1>9 DEF LimitEnds
  <2> QED BY <2>1, <2>2, <2>3, <2>4
<1>10. CASE FetchAfterLimit(t)
  <2>1. /\ MgrUp /\ pc[t] = "fetchLast" /\ pc' = [pc EXCEPT ![t] = "exited"]
        /\ plMtx' = NoTrans
        /\ UNCHANGED <<transactions, ids, freed, timeOut, memorySize, session,
                       incoming, announced, delivered, status>>
    BY <1>10 DEF FetchAfterLimit
  <2>2. /\ runs' \in Seq(Trans) /\ bos' \in Seq(Trans)
        /\ Range(bos') = {}
        /\ completed' \subseteq Trans
        /\ hostBuf' \in [Trans -> BufferContents]
    BY <1>10, EmptyFacts DEF FetchAfterLimit, FetchRes
  <2>3. TypeOK' /\ memorySize' <= MemorySizeMax
    BY <2>1, <2>2
  <2>4. DequeInv'
    BY <2>1, <2>2
  <2>5. FrontInv'
    BY <2>1, <2>2
  <2>6. BuffersInv'
    BY <2>1, <2>2
  <2>7. RequestInv'
    BY <2>1, <2>2
  <2>8. LimitInv'
    BY <2>1, <2>2
  <2> QED BY <2>3, <2>4, <2>5, <2>6, <2>7, <2>8
<1> QED BY <1>up, <1>1, <1>2, <1>3, <1>4, <1>5, <1>6, <1>7, <1>8, <1>9, <1>10
        DEF PLThread

(* runTestHarness: admission, creation and the spawn.                      *)
LEMMA RunTestHarnessInv ==
  ASSUME IInv, AnyRunTestHarness
  PROVE  IInv'
<1> USE DEF IInv, TypeOK, FastTypeOK, Statuses, PCs, Waiting, Driving,
       SessionStates, BufferContents, DequeInv, FrontInv, BuffersInv,
       RequestInv, LimitInv, TimeOutNeedsLimit, Alive, MgrUp, Throw,
       fastVars, mgrVars
<1>1. ASSUME NEW size \in Nat, RefuseRun(size)
      PROVE  IInv'
  BY <1>1, StutterInv DEF RefuseRun
<1>2. ASSUME NEW size \in Nat, AdmitRun(size)
      PROVE  IInv'
  BY <1>2 DEF AdmitRun
<1>3. ASSUME NEW t \in Trans, CreateTransaction(t)
      PROVE  IInv'
  <2>1. t \notin Range(transactions) /\ t \notin freed /\ pc[t] = "none"
    BY <1>3 DEF CreateTransaction
  <2>2. /\ transactions' \in Seq(Trans)
        /\ Range(transactions') = Range(transactions) \cup {t}
        /\ IsInjective(transactions')
        /\ transactions # << >> => Head(transactions') = Head(transactions)
    BY <1>3, <2>1, AppendFacts DEF CreateTransaction
  <2>3. \A u \in Trans : pc[u] \in Alive => Head(transactions') = Head(transactions)
    BY <1>3, <2>2, EmptyFacts DEF CreateTransaction
  <2>4. TypeOK' /\ memorySize' <= MemorySizeMax
    BY <1>3, <2>1, <2>2, <2>3 DEF CreateTransaction
  <2>5. DequeInv'
    BY <1>3, <2>1, <2>2, <2>3 DEF CreateTransaction
  <2>6. FrontInv'
    BY <1>3, <2>1, <2>2, <2>3 DEF CreateTransaction
  <2>7. BuffersInv'
    BY <1>3, <2>1, <2>2, <2>3 DEF CreateTransaction
  <2>8. RequestInv'
    BY <1>3, <2>1, <2>2, <2>3 DEF CreateTransaction
  <2>9. LimitInv'
    BY <1>3, <2>1, <2>2, <2>3 DEF CreateTransaction
  <2> QED BY <2>4, <2>5, <2>6, <2>7, <2>8, <2>9
<1>4. ASSUME NEW t \in Trans, NEW validMode \in BOOLEAN,
             RejectTransaction(t, validMode)
      PROVE  IInv'
  BY <1>4 DEF RejectTransaction
<1>5. CASE SpawnPL
  <2>1. incoming \in Trans /\ incoming \in Range(transactions)
    BY <1>5, RangeOfSeq DEF SpawnPL
  <2>2. /\ session = "filling"
        /\ status' = [status EXCEPT ![incoming] = "READY"]
        /\ UNCHANGED <<runs, bos, completed, hostBuf, transactions, ids, freed,
                       timeOut, plMtx, delivered>>
    BY <1>5 DEF SpawnPL
  <2>3. CASE MemUse[incoming] # announced
    <3>1. /\ session' = "failed"
          /\ UNCHANGED <<incoming, announced, memorySize, pc>>
      BY <1>5, <2>3 DEF SpawnPL
    <3>2. TypeOK' /\ memorySize' <= MemorySizeMax
      BY <2>1, <2>2, <3>1
    <3>3. DequeInv'
      BY <2>1, <2>2, <3>1
    <3>4. FrontInv'
      BY <2>1, <2>2, <3>1
    <3>5. BuffersInv'
      BY <2>1, <2>2, <3>1
    <3>6. RequestInv'
      BY <2>1, <2>2, <3>1
    <3>7. LimitInv'
      BY <2>1, <2>2, <3>1
    <3> QED BY <3>2, <3>3, <3>4, <3>5, <3>6, <3>7
  <2>4. CASE MemUse[incoming] = announced
    <3>1. /\ memorySize' = memorySize + announced
          /\ pc' = [pc EXCEPT ![incoming] = "queued"]
          /\ session' = "idle"
          /\ incoming' = NoTrans
          /\ announced' = 0
      BY <1>5, <2>4 DEF SpawnPL
    <3>2. memorySize' \in Int /\ memorySize' <= MemorySizeMax /\ session = "filling"
      BY <1>5, <3>1 DEF SpawnPL
    <3>3. TypeOK' /\ memorySize' <= MemorySizeMax
      BY <2>1, <2>2, <3>1, <3>2
    <3>4. DequeInv'
      BY <2>1, <2>2, <3>1, <3>2
    <3>5. FrontInv'
      BY <2>1, <2>2, <3>1, <3>2
    <3>6. BuffersInv'
      BY <2>1, <2>2, <3>1, <3>2
    <3>7. RequestInv'
      BY <2>1, <2>2, <3>1, <3>2
    <3>8. LimitInv'
      BY <2>1, <2>2, <3>1, <3>2
    <3> QED BY <3>3, <3>4, <3>5, <3>6, <3>7, <3>8
  <2> QED BY <2>3, <2>4
<1> HIDE DEF IInv
<1> QED BY <1>1, <1>2, <1>3, <1>4, <1>5 DEF AnyRunTestHarness

(* waitForTestHarness: the time limit goes to the front transaction, and   *)
(* when its thread is gone the front leaves the deque.                     *)
LEMMA WaitInv ==
  ASSUME IInv, AnyWaitForTestHarness
  PROVE  IInv'
<1> USE DEF IInv, TypeOK, FastTypeOK, Statuses, PCs, Waiting, Driving,
       SessionStates, BufferContents, DequeInv, FrontInv, BuffersInv,
       RequestInv, LimitInv, TimeOutNeedsLimit, Alive, MgrUp, Throw,
       fastVars, mgrVars
<1>1. ASSUME NEW t \in Trans, NEW ms \in Nat, WaitForTestHarnessRequest(t, ms)
      PROVE  IInv'
  <2>1. CASE WaitRefused(t)
    BY <1>1, <2>1 DEF WaitForTestHarnessRequest
  <2>2. CASE ~WaitRefused(t)
    <3>1. t = Head(transactions) /\ pc[t] \in Alive
      BY <1>1, <2>2 DEF WaitForTestHarnessRequest, WaitRefused, pl_threads
    <3>2. transactions # << >>
      BY <1>1, <3>1, EmptyFacts DEF WaitForTestHarnessRequest
    <3>3. /\ timeOut' = [timeOut EXCEPT ![t] = ms] /\ ms \in Nat
           /\ session = "idle" /\ session' = "joining"
           /\ UNCHANGED <<runs, bos, completed, hostBuf, transactions, ids, freed,
                          status, memorySize, plMtx, pc, incoming, announced,
                          delivered>>
      BY <1>1, <2>2 DEF WaitForTestHarnessRequest
    <3>4. /\ t \notin Range(Tail(transactions))
          /\ Range(Tail(transactions)) \subseteq Range(transactions)
      BY <1>1, <3>1, <3>2, TailFacts DEF WaitForTestHarnessRequest
    <3>5. TypeOK' /\ memorySize' <= MemorySizeMax
      BY <3>1, <3>2, <3>3, <3>4
    <3>6. DequeInv'
      BY <3>1, <3>2, <3>3, <3>4
    <3>7. FrontInv'
      BY <3>1, <3>2, <3>3, <3>4
    <3>8. BuffersInv'
      BY <3>1, <3>2, <3>3, <3>4
    <3>9. RequestInv'
      BY <3>1, <3>2, <3>3, <3>4
    <3>10. LimitInv'
      BY <3>1, <3>2, <3>3, <3>4
    <3> QED BY <3>5, <3>6, <3>7, <3>8, <3>9, <3>10
  <2> QED BY <2>1, <2>2
<1>2. CASE DeliverResult
  <2> DEFINE t == Head(transactions)
  <2>1. /\ transactions # << >>
        /\ t \in Trans
        /\ pc[t] = "exited"
    BY <1>2, TailFacts DEF DeliverResult, Deliver
  <2>2. /\ transactions' = Tail(transactions)
        /\ transactions' \in Seq(Trans)
        /\ Range(transactions) = {t} \cup Range(transactions')
        /\ IsInjective(transactions')
        /\ t \notin Range(transactions')
    BY <1>2, <2>1, TailFacts DEF DeliverResult, Deliver
  <2>3. \A u \in Trans : pc[u] \notin Driving \cup {"locking"}
    BY <1>2, <2>1 DEF DeliverResult, Deliver
  <2>4. delivered' \in Seq(Results)
    <3> DEFINE r == [trans |-> t, status |-> status[t], data |-> hostBuf[t]]
    <3>1. r \in Results
      BY <2>1 DEF Results
    <3>2. delivered' = Append(delivered, r) /\ delivered \in Seq(Results)
      BY <1>2 DEF DeliverResult, Deliver
    <3> HIDE DEF r, IInv, TypeOK
    <3> QED BY <3>1, <3>2
  <2>5. /\ pc' = [pc EXCEPT ![t] = "joined"]
        /\ memorySize' = memorySize - MemUse[t]
        /\ freed' = freed \cup {t}
        /\ session = "joining" /\ session' = "idle"
        /\ UNCHANGED <<runs, bos, completed, hostBuf, ids, status, timeOut,
                       plMtx, incoming, announced>>
    BY <1>2 DEF DeliverResult, Deliver
  <2>6. /\ memorySize \in Int /\ memorySize <= MemorySizeMax
        /\ MemorySizeMax \in Nat
        /\ MemUse[t] \in Nat
    BY <2>1
  <2>7. memorySize' \in Int /\ memorySize' <= MemorySizeMax
    <3> HIDE DEF t
    <3> QED BY <2>5, <2>6
  <2> HIDE DEF t
  <2>8. TypeOK'
    <3>1. TypeOK
      OBVIOUS
    <3>2. pc' \in [Trans -> PCs]
      BY <2>1, <2>5
    <3>3. freed' \subseteq Trans /\ session' \in SessionStates
      BY <2>1, <2>5
    <3> HIDE DEF IInv, DequeInv, FrontInv, BuffersInv, RequestInv, LimitInv, PCs, SessionStates
    <3> QED BY <2>2, <2>4, <2>5, <2>7, <3>1, <3>2, <3>3
  <2>9. DequeInv'
    BY <2>1, <2>2, <2>5
  <2>10. FrontInv'
    BY <2>1, <2>3, <2>5
  <2>11. BuffersInv'
    BY <2>1, <2>3, <2>5
  <2>12. RequestInv'
    BY <2>5
  <2>13. LimitInv'
    BY <2>1, <2>2, <2>3, <2>5
  <2> QED BY <2>7, <2>8, <2>9, <2>10, <2>11, <2>12, <2>13
<1> QED BY <1>1, <1>2 DEF AnyWaitForTestHarness

(* The destructor, step by step.                                           *)
LEMMA DestructorInv ==
  ASSUME IInv, DestroyMgr \/ DestructorStep
  PROVE  IInv'
<1> USE DEF IInv, TypeOK, FastTypeOK, MgrUp
<1>1. CASE DestroyMgr
  <2>1. /\ session' = "deleting"
        /\ runs' \in Seq(Trans) /\ bos' = << >> /\ bos' \in Seq(Trans) /\ Range(bos') = {}
        /\ UNCHANGED <<completed, hostBuf, transactions, ids, freed, status, timeOut,
                       memorySize, plMtx, pc, incoming, announced, delivered>>
    BY <1>1, EmptyFacts DEF DestroyMgr, ResetTestHarness, mgrVars
  <2>2. TypeOK'
    BY <2>1 DEF SessionStates
  <2> QED BY <2>1, <2>2 DEF DequeInv, FrontInv, BuffersInv, RequestInv, LimitInv,
             TimeOutNeedsLimit
<1>2. CASE DestructorStep
  <2>1. /\ session \in Destructor /\ session' \in Destructor \cup {"closed", "terminated"}
        /\ session' = "closed" => pl_threads = {} /\ pc' = pc
        /\ transactions' \in Seq(Trans) /\ freed' \subseteq Trans
        /\ UNCHANGED <<runs, bos, completed, hostBuf, ids, status, timeOut,
                       memorySize, plMtx, pc, incoming, announced, delivered>>
    <3>1. CASE DeleteQueued
      <4>1. freed' \subseteq Trans
        <5>1. \A i \in DOMAIN transactions : transactions[i] \in Trans
          BY ElementOfSeq
        <5> QED BY <3>1, <5>1 DEF DeleteQueued
      <4> QED BY <3>1, <4>1 DEF DeleteQueued, fastVars, sessionVars
    <3>2. CASE ClearDeque
      BY <3>2, EmptyFacts DEF ClearDeque, fastVars
    <3>3. CASE DestroyThreads
      BY <3>3 DEF DestroyThreads, fastVars, mgrVars
    <3> QED BY <1>2, <3>1, <3>2, <3>3 DEF DestructorStep
  <2>2. TypeOK'
    BY <2>1 DEF SessionStates
  <2>3. \A b \in Range(bos) : FALSE
    BY <2>1 DEF BuffersInv
  <2>4. session' = "closed" => pl_threads' = {}
    BY <2>1 DEF pl_threads
  <2> QED BY <2>1, <2>2, <2>3, <2>4 DEF DequeInv, FrontInv, BuffersInv, RequestInv, LimitInv,
             TimeOutNeedsLimit
<1> QED BY <1>1, <1>2

(* Every other step.                                                       *)
LEMMA OtherInv ==
  ASSUME IInv, Query \/ SocketFailure \/ Device
  PROVE  IInv'
<1> USE DEF IInv, TypeOK, FastTypeOK, Statuses, PCs, Waiting, Driving,
       SessionStates, BufferContents, DequeInv, FrontInv, BuffersInv,
       RequestInv, LimitInv, TimeOutNeedsLimit, Alive, MgrUp, Throw,
       fastVars, mgrVars, sessionVars
<1>1. CASE Query \/ SocketFailure
  <2>1. /\ session \in {"idle", "receiving", "filling", "joining"} /\ session' = "failed"
        /\ UNCHANGED <<fastVars, mgrVars, plMtx, pc, incoming, announced, delivered>>
    BY <1>1 DEF Query, QueryTransactionStatus, SocketFailure
  <2>2. TypeOK'
    BY <2>1
  <2> QED BY <2>1, <2>2
<1>2. CASE Device
  <2>1. completed' \subseteq Trans
    BY <1>2, ElementOfSeq DEF Device, KernelComplete
  <2>2. UNCHANGED <<runs, bos, hostBuf, mgrVars, plMtx, pc, sessionVars>>
    BY <1>2 DEF Device, KernelComplete
  <2>3. TypeOK'
    BY <2>1, <2>2
  <2>4. pl_threads' = pl_threads
    BY <2>2 DEF pl_threads
  <2> QED BY <2>2, <2>3, <2>4
<1> QED BY <1>1, <1>2

(* The invariant does not depend on what clients send.                     *)
LEMMA StepInv ==
  ASSUME IInv, [AnyNext]_vars
  PROVE  IInv'
<1>1. CASE AnyRunTestHarness
  BY <1>1, RunTestHarnessInv
<1>2. CASE AnyWaitForTestHarness
  BY <1>2, WaitInv
<1>3. CASE Query \/ SocketFailure \/ DestroyMgr \/ DestructorStep \/ Device
  BY <1>3, OtherInv, DestructorInv
<1>4. ASSUME NEW t \in Trans, PLThread(t)
      PROVE  IInv'
  BY <1>4, PLThreadInv
<1>5. CASE UNCHANGED vars
  BY <1>5, StutterInv
<1> QED BY <1>1, <1>2, <1>3, <1>4, <1>5 DEF AnyNext, PLThreads

LEMMA NextIsAnyNext == [Next]_vars => [AnyNext]_vars
BY DEF Next, AnyNext, RunTestHarness, AnyRunTestHarness,
       WaitForTestHarnessHandler, AnyWaitForTestHarness

THEOREM Invariance == Spec => []IInv
<1>1. Init => IInv
  BY InitInv
<1>2. IInv /\ [Next]_vars => IInv'
  BY StepInv, NextIsAnyNext
<1> QED BY <1>1, <1>2, PTL DEF Spec
-----------------------------------------------------------------------------
(* The properties the model checker checks on small instances, for every   *)
(* value of the constants.                                                 *)

(* Every variable keeps its type; in particular no element but a           *)
(* transaction is ever pushed to the deque.                                *)
THEOREM TypeCorrect == Spec => []TypeOK
<1>1. IInv => TypeOK
  BY DEF IInv
<1> QED BY Invariance, <1>1, PTL

(* Who may be past the lock, and whose buffers are in use.                 *)
LEMMA FrontDrives == IInv => DriverIsFront
<1> SUFFICES ASSUME IInv, MgrUp, NEW t \in Trans, pc[t] \in Driving
             PROVE  transactions # << >> /\ t = Head(transactions) /\ plMtx = t
  BY DEF DriverIsFront
<1>1. t = Head(transactions) /\ plMtx = t
  BY DEF IInv, FrontInv
<1>2. t \in Range(transactions)
  BY DEF IInv, DequeInv, Alive
<1>3. transactions # << >>
  BY <1>2, EmptyFacts
<1> QED BY <1>1, <1>3

LEMMA AliveInUse == IInv => NoUseAfterDelete /\ FetchWritesOwnBuffers
<1>1. IInv => NoUseAfterDelete
  <2> SUFFICES ASSUME IInv, NEW t \in Trans, pc[t] \in Waiting \cup Driving, t \in freed
               PROVE  session \in Destructor \cup {"terminated"}
    BY DEF NoUseAfterDelete
  <2>1. ~MgrUp
    BY DEF IInv, DequeInv, Alive
  <2>2. session # "closed"
    BY DEF IInv, RequestInv, pl_threads, Waiting, Driving
  <2> QED BY <2>1, <2>2 DEF MgrUp
<1>2. IInv => FetchWritesOwnBuffers
  <2> SUFFICES ASSUME IInv, NEW b \in Range(bos)
               PROVE  pc[b] \in Driving /\ b \notin freed
    BY DEF FetchWritesOwnBuffers
  <2>1. b \in Trans /\ pc[b] \in Driving /\ MgrUp
    BY RangeOfSeq DEF IInv, BuffersInv, TypeOK, FastTypeOK
  <2> QED BY <2>1 DEF IInv, DequeInv, Alive
<1> QED BY <1>1, <1>2

(* Mutual exclusion on the device, in deque order: only the thread of the  *)
(* front transaction is ever past the lock.                                *)
THEOREM DeviceExclusive == Spec => []DriverIsFront
BY Invariance, FrontDrives, PTL

(* A thread that may still use its transaction while it is deleted is met  *)
(* only in the destructor, which then does not close the session, and the  *)
(* device never writes into the buffers of a deleted transaction.          *)
THEOREM MemorySafe == Spec => [](NoUseAfterDelete /\ FetchWritesOwnBuffers)
BY Invariance, AliveInUse, PTL

(* assert(trans->getTimeOut() != 0) never fails, and a transaction only    *)
(* times out when the client set a limit.                                  *)
THEOREM AssertionHolds == Spec => []TimeOutNeedsLimit
<1>1. IInv => TimeOutNeedsLimit
  BY DEF IInv, LimitInv
<1> QED BY Invariance, <1>1, PTL

(* The transactions on the server never use more than memorySizeMax.       *)
THEOREM MemoryLimited == Spec => []MemoryBounded
<1>1. IInv => MemoryBounded
  BY DEF IInv, MemoryBounded
<1> QED BY Invariance, <1>1, PTL
-----------------------------------------------------------------------------
(* The memory of a set of transactions.                                    *)
Total(S) == SumOf(MemUse, S)

LEMMA TotalEmpty == Total({}) = 0
BY SumEmpty DEF Total

LEMMA TotalType ==
  ASSUME NEW S \in SUBSET Trans, IsFiniteSet(S)
  PROVE  Total(S) \in Nat
BY SumType, MemUseAssumption DEF Total

LEMMA TotalRemove ==
  ASSUME NEW S \in SUBSET Trans, IsFiniteSet(S), NEW x \in S
  PROVE  Total(S) = MemUse[x] + Total(S \ {x})
BY SumRemove, MemUseAssumption DEF Total

LEMMA TotalAdd ==
  ASSUME NEW S \in SUBSET Trans, IsFiniteSet(S), NEW x \in Trans, x \notin S
  PROVE  Total(S \cup {x}) = Total(S) + MemUse[x]
BY SumAdd, MemUseAssumption DEF Total

(* The deque has as many places as transactions.                           *)

LEMMA RangeCardinality ==
  ASSUME NEW S, NEW s \in Seq(S), IsInjective(s)
  PROVE  IsFiniteSet(Range(s)) /\ Cardinality(Range(s)) = Len(s)
<1>1. Len(s) \in Nat /\ DOMAIN s = 1 .. Len(s)
  BY LenProperties
<1>2. s \in Bijection(1 .. Len(s), Range(s))
  <2>1. s = [i \in 1 .. Len(s) |-> s[i]]
    BY SeqDef, <1>1
  <2> QED BY <1>1, <2>1 DEF IsInjective, Range, Bijection, Injection, Surjection
<1>3. IsFiniteSet(1 .. Len(s)) /\ Cardinality(1 .. Len(s)) = Len(s)
  <2>1. /\ IsFiniteSet(1 .. Len(s))
        /\ Cardinality(1 .. Len(s)) = IF 1 > Len(s) THEN 0 ELSE Len(s) - 1 + 1
    BY <1>1, FS_Interval
  <2> QED BY <1>1, <2>1
<1>4. ExistsBijection(1 .. Len(s), Range(s))
  BY <1>2 DEF ExistsBijection
<1> QED BY <1>3, <1>4, FS_Bijection

-----------------------------------------------------------------------------
(* The invariant.                                                          *)

(* Every transaction in the deque has its thread, but for the one whose    *)
(* data is being received.                                                 *)
ThreadInv ==
  /\ session \in {"idle", "receiving", "joining"} =>
       Range(transactions) \subseteq pl_threads
  /\ session = "filling" => Range(transactions) \ {incoming} \subseteq pl_threads

(* memorySize is the memory of the transactions that have a thread.        *)
Accounted ==
  MgrUp => \A S \in SUBSET Trans : S = pl_threads => memorySize = Total(S)

AccountInv == ThreadInv /\ Accounted

LEMMA AliveThreads == TypeOK => pl_threads = {t \in Trans : pc[t] \in Alive}
BY DEF TypeOK, pl_threads, Alive, PCs, Waiting, Driving

(* The threads are those of transactions in the deque: finitely many.      *)
LEMMA ThreadsFinite ==
  ASSUME IInv, MgrUp
  PROVE  /\ pl_threads \in SUBSET Trans
         /\ pl_threads \subseteq Range(transactions)
         /\ IsFiniteSet(pl_threads)
<1>1. transactions \in Seq(Trans) /\ IsInjective(transactions)
  BY DEF IInv, TypeOK, DequeInv
<1>2. pl_threads \in SUBSET Trans /\ pl_threads \subseteq Range(transactions)
  BY AliveThreads DEF IInv, DequeInv
<1>3. IsFiniteSet(Range(transactions))
  BY <1>1, RangeCardinality
<1> QED BY <1>2, <1>3, FS_Subset

LEMMA AccountInit == Init => AccountInv
<1> SUFFICES ASSUME Init PROVE AccountInv
  OBVIOUS
<1>1. pl_threads = {} /\ Range(transactions) = {}
  BY EmptyFacts DEF Init, pl_threads
<1> QED BY <1>1, TotalEmpty DEF Init, AccountInv, ThreadInv, Accounted

(* A step that starts and joins no thread.                                 *)
LEMMA AccountSame ==
  ASSUME IInv, AccountInv, pl_threads' = pl_threads, memorySize' = memorySize,
         MgrUp' => MgrUp,
         ThreadInv'
  PROVE  AccountInv'
BY DEF AccountInv, Accounted

LEMMA AccountPLThread ==
  ASSUME IInv, AccountInv, NEW t \in Trans, PLThread(t)
  PROVE  AccountInv'
<1>gone. CASE ~MgrUp
  <2>1. session' \in Destructor \cup {"terminated"}
    BY <1>gone, WindowSteps
  <2> QED BY <2>1 DEF AccountInv, ThreadInv, Accounted, MgrUp
<1> SUFFICES ASSUME MgrUp PROVE AccountInv'
  BY <1>gone
<1>1. /\ pc[t] \in Waiting \cup Driving
      /\ \E to \in Waiting \cup Driving \cup {"exited"} : pc' = [pc EXCEPT ![t] = to]
      /\ UNCHANGED <<transactions, memorySize, session, incoming>>
  BY NoneStray DEF PLThread, ReachFront, LockPL, StartPL, NextSlice, SliceEnds,
         FetchAfterSlice, MarkDone, LastWait, LimitEnds, FetchAfterLimit, Go,
         sessionVars, Waiting, Driving
<1>2. pl_threads' = pl_threads
  BY <1>1 DEF pl_threads, Waiting, Driving, IInv, TypeOK
<1> QED BY <1>1, <1>2, AccountSame DEF AccountInv, ThreadInv, MgrUp

LEMMA AccountSession ==
  ASSUME IInv, AccountInv,
         AnyRunTestHarness \/ AnyWaitForTestHarness \/ Query \/ SocketFailure \/
         DestroyMgr \/ DestructorStep \/ Device
  PROVE  AccountInv'
<1>1. ASSUME NEW size \in Nat, RefuseRun(size) \/ AdmitRun(size)
      PROVE  AccountInv'
  BY <1>1, AccountSame DEF RefuseRun, AdmitRun, vars, mgrVars, sessionVars, AccountInv,
     ThreadInv, pl_threads, MgrUp
<1>2. ASSUME NEW t \in Trans, CreateTransaction(t)
      PROVE  AccountInv'
  <2>1. Range(transactions') = Range(transactions) \cup {t}
    BY <1>2, AppendFacts DEF CreateTransaction, IInv, TypeOK
  <2> QED BY <1>2, <2>1, AccountSame
          DEF CreateTransaction, AccountInv, ThreadInv, pl_threads, MgrUp
<1>3. ASSUME NEW t \in Trans, NEW validMode \in BOOLEAN, RejectTransaction(t, validMode)
      PROVE  AccountInv'
  BY <1>3, AccountSame DEF RejectTransaction, Throw, mgrVars, AccountInv,
     ThreadInv, pl_threads, MgrUp
<1>4. CASE SpawnPL
  <2>1. incoming \in Trans /\ pc[incoming] = "none" /\ MgrUp /\ pc \in [Trans -> PCs]
    BY <1>4, RangeOfSeq DEF SpawnPL, IInv, TypeOK, RequestInv, MgrUp
  <2>2. CASE MemUse[incoming] # announced
    BY <1>4, <2>2, AccountSame DEF SpawnPL, Throw, AccountInv, ThreadInv, pl_threads,
       MgrUp
  <2>3. CASE MemUse[incoming] = announced
    <3>1. /\ session = "filling" /\ session' = "idle"
          /\ transactions' = transactions
          /\ memorySize' = memorySize + MemUse[incoming]
          /\ pc' = [pc EXCEPT ![incoming] = "queued"]
      BY <1>4, <2>3 DEF SpawnPL
    <3>2. pl_threads' = pl_threads \cup {incoming} /\ incoming \notin pl_threads
      BY <2>1, <3>1 DEF pl_threads
    <3>3. memorySize = Total(pl_threads)
      BY <2>1, ThreadsFinite DEF AccountInv, Accounted
    <3>4. memorySize' = Total(pl_threads \cup {incoming})
      <4>1. Total(pl_threads \cup {incoming}) = Total(pl_threads) + MemUse[incoming]
        BY <2>1, <3>2, ThreadsFinite, TotalAdd
      <4> QED BY <3>1, <3>3, <4>1
    <3>5. ThreadInv'
      BY <3>1, <3>2 DEF AccountInv, ThreadInv
    <3> QED BY <3>2, <3>4, <3>5 DEF AccountInv, Accounted
  <2> QED BY <2>2, <2>3
<1>5. ASSUME NEW t \in Trans, NEW ms \in Nat, WaitForTestHarnessRequest(t, ms)
      PROVE  AccountInv'
  BY <1>5, AccountSame DEF WaitForTestHarnessRequest, Throw, AccountInv,
     ThreadInv, pl_threads, MgrUp
<1>6. CASE DeliverResult
  <2> DEFINE t == Head(transactions)
  <2>1. MgrUp /\ transactions # << >> /\ t \in Trans /\ pc[t] = "exited"
    BY <1>6, TailFacts DEF DeliverResult, Deliver, IInv, TypeOK, RequestInv, MgrUp
  <2>2. /\ session' = "idle"
        /\ transactions' = Tail(transactions)
        /\ memorySize' = memorySize - MemUse[t]
        /\ pc' = [pc EXCEPT ![t] = "joined"]
        /\ session = "joining"
    BY <1>6 DEF DeliverResult, Deliver
  <2>3. Range(transactions) = {t} \cup Range(Tail(transactions)) /\ t \notin Range(Tail(transactions))
    BY <2>1, TailFacts DEF IInv, TypeOK, DequeInv
  <2> HIDE DEF t
  <2>4. pl_threads' = pl_threads \ {t} /\ t \in pl_threads
    BY <2>1, <2>2 DEF pl_threads, IInv, TypeOK
  <2>5. ThreadInv'
    BY <2>2, <2>3, <2>4 DEF AccountInv, ThreadInv
  <2>6. memorySize = Total(pl_threads)
    BY <2>1, ThreadsFinite DEF AccountInv, Accounted
  <2>7. memorySize' = Total(pl_threads \ {t})
    <3>1. pl_threads \in SUBSET Trans /\ IsFiniteSet(pl_threads)
      BY <2>1, ThreadsFinite
    <3>2. Total(pl_threads) = MemUse[t] + Total(pl_threads \ {t})
      BY <2>4, <3>1, TotalRemove
    <3>3. pl_threads \ {t} \in SUBSET Trans /\ IsFiniteSet(pl_threads \ {t})
      BY <3>1, FS_Subset
    <3>4. Total(pl_threads \ {t}) \in Nat /\ MemUse[t] \in Nat
      BY <2>1, <3>3, TotalType, MemUseAssumption
    <3> QED BY <2>2, <2>6, <3>2, <3>4
  <2> QED BY <2>4, <2>5, <2>7 DEF AccountInv, Accounted
<1>7. CASE Query \/ SocketFailure \/ Device
  BY <1>7, AccountSame DEF Query, QueryTransactionStatus, SocketFailure, Device, Throw,
     mgrVars, sessionVars, AccountInv, ThreadInv, pl_threads, MgrUp
<1>8. CASE DestroyMgr \/ DestructorStep
  <2>1. session' \in Destructor \cup {"closed", "terminated"}
    BY <1>8 DEF DestroyMgr, DestructorStep, DeleteQueued, ClearDeque, DestroyThreads,
                sessionVars
  <2> QED BY <2>1 DEF AccountInv, ThreadInv, Accounted, MgrUp
<1> QED BY <1>1, <1>2, <1>3, <1>4, <1>5, <1>6, <1>7, <1>8
        DEF AnyRunTestHarness, AnyWaitForTestHarness

LEMMA AccountStep ==
  ASSUME IInv, AccountInv, [AnyNext]_vars
  PROVE  AccountInv'
<1>1. CASE UNCHANGED vars
  BY <1>1, AccountSame
     DEF vars, mgrVars, sessionVars, AccountInv, ThreadInv, pl_threads, MgrUp
<1> QED BY <1>1, AccountPLThread, AccountSession DEF AnyNext, PLThreads

LEMMA AccountInvariance == Spec => [](IInv /\ AccountInv)
<1>1. Init => AccountInv
  BY AccountInit
<1>2. IInv /\ AccountInv /\ [Next]_vars => AccountInv'
  BY AccountStep, NextIsAnyNext
<1> QED BY <1>1, <1>2, Invariance, PTL DEF Spec
-----------------------------------------------------------------------------
LEMMA MemoryMatches == IInv /\ AccountInv => MemoryAccounting
BY ThreadsFinite DEF AccountInv, Accounted, MemoryAccounting, Total, SumOf, SumFunctionOnSet,
   FoldFunctionOnSet, MapThenSumSet

(* memorySize is the memory of the transactions that have a thread, and so *)
(* never negative.                                                         *)
THEOREM MemoryAccounted == Spec => []MemoryAccounting
BY AccountInvariance, MemoryMatches, PTL

(* Whenever a request can be served the deque and the map of threads       *)
(* agree, in their elements and in their sizes.                            *)
LEMMA ThreadsMatch == IInv /\ AccountInv => ThreadPerTransaction
<1> SUFFICES ASSUME IInv, AccountInv, session \in {"idle", "receiving", "joining"}
             PROVE  /\ Range(transactions) = pl_threads
                    /\ Len(transactions) = Cardinality(pl_threads)
  BY DEF ThreadPerTransaction
<1>1. MgrUp
  BY DEF MgrUp
<1>2. Range(transactions) = pl_threads
  BY <1>1, ThreadsFinite DEF AccountInv, ThreadInv
<1>3. transactions \in Seq(Trans) /\ IsInjective(transactions)
  BY <1>1 DEF IInv, TypeOK, DequeInv
<1> QED BY <1>2, <1>3, RangeCardinality

(* pl_threads never names a transaction the deque has lost, nor misses one *)
(* it still holds.                                                         *)
THEOREM ThreadsAgree == Spec => []ThreadPerTransaction
BY ThreadsMatch, AccountInvariance, PTL

-----------------------------------------------------------------------------
(* The server manager implements TransactionQueue.                         *)

(* From StartPL to the fetch a transaction's buffers are remembered and    *)
(* its run handle is kept; what the fetch leaves fits the status.          *)
ResultInv ==
  MgrUp =>
    \A t \in Trans :
      /\ pc[t] \in {"poll", "slice", "fetch", "limit", "fetchLast"} =>
           t \in Range(bos) /\ t \in Range(runs)
      /\ pc[t] = "fetch" => t \in completed
      /\ pc[t] = "markDone" => hostBuf[t] = "complete"
      /\ pc[t] = "fetchLast" =>
           /\ status[t] \in {"DONE", "TIMEOUT"}
           /\ status[t] = "DONE" => t \in completed
      /\ pc[t] = "exited" =>
           /\ status[t] \in {"DONE", "TIMEOUT"}
           /\ hostBuf[t] \in {"partial", "complete"}
           /\ status[t] = "DONE" => hostBuf[t] = "complete"

LEMMA ResultInit == Init => ResultInv
BY DEF Init, ResultInv

LEMMA ResultStutter == ResultInv /\ UNCHANGED vars => ResultInv'
BY DEF vars, fastVars, mgrVars, sessionVars, ResultInv, MgrUp

LEMMA ResultPLThread ==
  ASSUME IInv, ResultInv, NEW t \in Trans, PLThread(t)
  PROVE  ResultInv'
<1>gone. CASE ~MgrUp
  <2>1. session' \in Destructor \cup {"terminated"}
    BY <1>gone, WindowSteps
  <2> QED BY <2>1 DEF ResultInv, MgrUp
<1>up. MgrUp => ~Stray(t)
  BY NoneStray
<1> SUFFICES ASSUME MgrUp PROVE ResultInv'
  BY <1>gone
<1> USE DEF ResultInv, MgrUp, Go, fastVars, sessionVars, PCs, Waiting,
            Driving, IInv, TypeOK, FastTypeOK
<1>1. CASE ReachFront(t)
  BY <1>1 DEF ReachFront
<1>2. CASE LockPL(t)
  BY <1>2 DEF LockPL
<1>3. CASE StartPL(t)
  <2>1. /\ Range(runs') = Range(runs) \cup {t}
        /\ Range(bos') = Range(bos) \cup {t}
    BY <1>3, AppendFacts DEF StartPL, RunPL
  <2> QED BY <1>3, <2>1 DEF StartPL, RunPL
<1>4. CASE NextSlice(t)
  BY <1>4 DEF NextSlice
<1>5. CASE SliceEnds(t)
  BY <1>5 DEF SliceEnds, WaitForTestHarness
<1>6. CASE FetchAfterSlice(t)
  <2>1. \A u \in Trans : u # t => pc[u] \notin Driving
    BY <1>6 DEF FrontInv, FetchAfterSlice
  <2>2. \A u \in Trans : u # t => u \notin Range(bos)
    BY <1>6, <2>1 DEF BuffersInv, FetchAfterSlice
  <2> QED BY <1>6, <2>1, <2>2 DEF FetchAfterSlice, FetchRes
<1>7. CASE MarkDone(t)
  BY <1>7 DEF MarkDone
<1>8. CASE LastWait(t)
  BY <1>8 DEF LastWait
<1>9. CASE LimitEnds(t)
  BY <1>9 DEF LimitEnds, WaitForTestHarness
<1>10. CASE FetchAfterLimit(t)
  <2>1. \A u \in Trans : u # t => pc[u] \notin Driving
    BY <1>10 DEF FrontInv, FetchAfterLimit
  <2>2. \A u \in Trans : u # t => u \notin Range(bos)
    BY <1>10, <2>1 DEF BuffersInv, FetchAfterLimit
  <2> QED BY <1>10, <2>1, <2>2 DEF FetchAfterLimit, FetchRes
<1> QED BY <1>1, <1>2, <1>3, <1>4, <1>5, <1>6, <1>7, <1>8, <1>9, <1>10, <1>up
        DEF PLThread

LEMMA ResultSession ==
  ASSUME IInv, ResultInv,
         AnyRunTestHarness \/ AnyWaitForTestHarness \/ Query \/ SocketFailure \/
         DestroyMgr \/ DestructorStep \/ Device
  PROVE  ResultInv'
<1> USE DEF ResultInv, MgrUp, Throw, fastVars, mgrVars, sessionVars
<1>1. ASSUME NEW size \in Nat, RefuseRun(size) \/ AdmitRun(size)
      PROVE  ResultInv'
  BY <1>1, ResultStutter DEF RefuseRun, AdmitRun
<1>2. ASSUME NEW t \in Trans, CreateTransaction(t)
      PROVE  ResultInv'
  <2>1. pc[t] = "none"
    BY <1>2 DEF CreateTransaction, IInv, DequeInv
  <2> QED BY <1>2, <2>1 DEF CreateTransaction, IInv, TypeOK
<1>3. ASSUME NEW t \in Trans, NEW validMode \in BOOLEAN,
             RejectTransaction(t, validMode)
      PROVE  ResultInv'
  BY <1>3 DEF RejectTransaction
<1>4. CASE SpawnPL
  <2>1. pc[incoming] = "none"
    BY <1>4 DEF SpawnPL, IInv, RequestInv
  <2> QED BY <1>4, <2>1 DEF SpawnPL, IInv, TypeOK
<1>5. ASSUME NEW t \in Trans, NEW ms \in Nat, WaitForTestHarnessRequest(t, ms)
      PROVE  ResultInv'
  BY <1>5 DEF WaitForTestHarnessRequest
<1>6. CASE DeliverResult
  BY <1>6 DEF DeliverResult, Deliver, IInv, TypeOK
<1>7. CASE Query \/ SocketFailure
  BY <1>7 DEF Query, QueryTransactionStatus, SocketFailure
<1>8. CASE DestroyMgr \/ DestructorStep
  <2>1. session' \in Destructor \cup {"closed", "terminated"}
    BY <1>8 DEF DestroyMgr, DestructorStep, DeleteQueued, ClearDeque, DestroyThreads
  <2> QED BY <2>1
<1>9. CASE Device
  BY <1>9 DEF Device, KernelComplete
<1> HIDE DEF ResultInv
<1> QED BY <1>1, <1>2, <1>3, <1>4, <1>5, <1>6, <1>7, <1>8, <1>9
        DEF AnyRunTestHarness, AnyWaitForTestHarness

LEMMA ResultStep ==
  ASSUME IInv, ResultInv, [AnyNext]_vars
  PROVE  ResultInv'
BY ResultStutter, ResultPLThread, ResultSession DEF AnyNext, PLThreads

(* Where a thread is says what its run has come to: what it fetched is     *)
(* whole if its status is DONE.                                            *)
THEOREM ResultInvariance == Spec => [](IInv /\ ResultInv)
<1>1. Init => ResultInv
  BY ResultInit
<1>2. IInv /\ ResultInv /\ [Next]_vars => ResultInv'
  BY ResultStep, NextIsAnyNext
<1> QED BY <1>1, <1>2, Invariance, PTL DEF Spec
-----------------------------------------------------------------------------
(* The refinement mapping, step by step.                                   *)

stageMap == [t \in Trans |-> StageOf(t)]

(* A step that keeps the stages, the deque and the answers is a stutter.   *)
LEMMA SameQueue ==
  ASSUME UNCHANGED <<transactions, delivered>>, MgrUp' <=> MgrUp, stageMap' = stageMap
  PROVE  UNCHANGED Queue!queueVars
BY DEF Queue!queueVars, stageMap

(* Once the destructor has begun only identifiers and answers matter.      *)
LEMMA SameGone ==
  ASSUME UNCHANGED <<ids, delivered>>, ~MgrUp, ~MgrUp'
  PROVE  UNCHANGED Queue!queueVars
<1>1. stageMap' = stageMap
  BY DEF stageMap, StageOf
<1> QED BY <1>1 DEF Queue!queueVars, stageMap

(* The same identifiers, and every thread on its side of StartPL and of    *)
(* its exit.                                                               *)
LEMMA SameStages ==
  ASSUME ids' = ids, MgrUp' <=> MgrUp,
         \A t \in Trans :
           pc'[t] = pc[t] \/ \E C \in {{"none"} \cup Waiting \cup {"start"},
                                       Driving \ {"start"},
                                       {"exited", "joined"}} :
                               pc[t] \in C /\ pc'[t] \in C
  PROVE  stageMap' = stageMap
BY DEF stageMap, StageOf, Waiting, Driving

LEMMA PLThreadRefines ==
  ASSUME IInv, ResultInv, NEW t \in Trans, PLThread(t)
  PROVE  [Queue!QueueNext]_(Queue!queueVars)
<1>gone. CASE ~MgrUp
  <2>1. /\ session' \in Destructor \cup {"terminated"}
        /\ UNCHANGED <<ids, delivered>>
    BY <1>gone, WindowSteps
  <2>2. ~MgrUp'
    BY <2>1 DEF MgrUp
  <2> QED BY <1>gone, <2>1, <2>2, SameGone
<1>up. MgrUp => ~Stray(t)
  BY NoneStray
<1> SUFFICES ASSUME MgrUp PROVE [Queue!QueueNext]_(Queue!queueVars)
  BY <1>gone
<1>1. /\ MgrUp /\ MgrUp'
      /\ ids' = ids
      /\ UNCHANGED <<transactions, delivered>>
      /\ pc \in [Trans -> PCs]
  BY <1>up DEF MgrUp, PLThread, ReachFront, LockPL, StartPL, NextSlice, SliceEnds,
         FetchAfterSlice, MarkDone, LastWait, LimitEnds, FetchAfterLimit, Go,
         sessionVars, IInv, TypeOK
<1>2. CASE pc[t] # "exited" /\ pc[t] # "none"
  <2>1. t \in ids /\ t \in Range(transactions)
    BY <1>1, <1>2, <1>up DEF IInv, DequeInv, Alive, PLThread, ReachFront, LockPL, StartPL,
         NextSlice, SliceEnds, FetchAfterSlice, MarkDone, LastWait, LimitEnds,
         FetchAfterLimit, Go, Waiting, Driving
  <2>2. transactions # << >>
    BY <2>1, EmptyFacts
  <2>3. CASE StartPL(t)
    <3>1. t = Head(transactions) /\ pc[t] = "start" /\ pc' = [pc EXCEPT ![t] = "poll"]
      BY <1>1, <2>3 DEF StartPL, Go, IInv, FrontInv, Driving
    <3>2. /\ stageMap[t] = "queued"
          /\ stageMap' = [stageMap EXCEPT ![t] = "running"]
      BY <1>1, <2>1, <3>1 DEF stageMap, StageOf, PCs, Waiting, Driving
    <3>3. Queue!Begin(t)
      BY <1>1, <2>2, <3>1, <3>2 DEF Queue!Begin, stageMap
    <3> QED BY <3>3 DEF Queue!QueueNext
  <2>4. CASE MarkDone(t) \/ FetchAfterLimit(t)
    <3>1. /\ t = Head(transactions)
          /\ pc[t] \in {"markDone", "fetchLast"}
          /\ pc' = [pc EXCEPT ![t] = "exited"]
      BY <1>1, <2>4 DEF MarkDone, FetchAfterLimit, Go, IInv, FrontInv, Driving
    <3>2. /\ stageMap[t] = "running"
          /\ stageMap' = [stageMap EXCEPT ![t] = "ended"]
      BY <1>1, <2>1, <3>1 DEF stageMap, StageOf, PCs, Waiting, Driving
    <3>3. Queue!Finish(t)
      BY <1>1, <2>2, <3>1, <3>2 DEF Queue!Finish, stageMap
    <3> QED BY <3>3 DEF Queue!QueueNext
  <2>5. CASE ReachFront(t) \/ LockPL(t)
    <3>1. stageMap' = stageMap
      BY <1>1, <2>5, SameStages DEF ReachFront, LockPL, Go, Waiting
    <3> QED BY <1>1, <3>1, SameQueue
  <2>6. CASE \/ NextSlice(t) \/ SliceEnds(t) \/ FetchAfterSlice(t)
             \/ LastWait(t) \/ LimitEnds(t)
    <3>1. stageMap' = stageMap
      BY <1>1, <2>6, SameStages DEF NextSlice, SliceEnds, FetchAfterSlice,
         LastWait, LimitEnds, Go, Driving
    <3> QED BY <1>1, <3>1, SameQueue
  <2> QED BY <2>3, <2>4, <2>5, <2>6, <1>up DEF PLThread
<1>3. pc[t] # "exited" /\ pc[t] # "none"
  BY <1>up DEF PLThread, ReachFront, LockPL, StartPL, NextSlice, SliceEnds,
         FetchAfterSlice, MarkDone, LastWait, LimitEnds, FetchAfterLimit, Go
<1> QED BY <1>2, <1>3

LEMMA SessionRefines ==
  ASSUME IInv, ResultInv,
         AnyRunTestHarness \/ AnyWaitForTestHarness \/ Query \/ SocketFailure \/
         DestroyMgr \/ DestructorStep \/ Device
  PROVE  [Queue!QueueNext]_(Queue!queueVars)
<1>1. ASSUME NEW t \in Trans, CreateTransaction(t)
      PROVE  Queue!QueueNext
  <2>1. t \notin ids /\ pc[t] = "none" /\ pc' = pc /\ ids' = ids \cup {t}
    BY <1>1 DEF CreateTransaction, IInv, DequeInv, MgrUp
  <2>2. /\ stageMap[t] = "new"
        /\ stageMap' = [stageMap EXCEPT ![t] = "queued"]
    BY <1>1, <2>1 DEF CreateTransaction, MgrUp, stageMap, StageOf, Waiting
  <2>3. Queue!Submit(t)
    BY <1>1, <2>2 DEF CreateTransaction, Queue!Submit, stageMap, MgrUp
  <2> QED BY <2>3 DEF Queue!QueueNext
<1>2. CASE DeliverResult
  <2> DEFINE t == Head(transactions)
  <2>1. t \in Trans /\ transactions # << >> /\ pc[t] = "exited" /\ t \in ids
    BY <1>2, TailFacts DEF DeliverResult, Deliver, IInv, TypeOK, RequestInv,
         DequeInv, MgrUp
  <2>2. /\ status[t] \in {"DONE", "TIMEOUT"}
        /\ hostBuf[t] \in {"partial", "complete"}
        /\ status[t] = "DONE" => hostBuf[t] = "complete"
    BY <1>2, <2>1 DEF DeliverResult, Deliver, ResultInv, MgrUp
  <2>3. stageMap[t] = "ended" /\ stageMap' = stageMap
    <3>1. ids' = ids /\ pc' = [pc EXCEPT ![t] = "joined"] /\ pc \in [Trans -> PCs]
      BY <1>2 DEF DeliverResult, Deliver, IInv, TypeOK
    <3>2. MgrUp /\ MgrUp'
      BY <1>2 DEF DeliverResult, Deliver, MgrUp
    <3> QED BY <2>1, <3>1, <3>2, SameStages DEF stageMap, StageOf, Waiting, Driving
  <2>4. Queue!Answer(t, status[t], hostBuf[t])
    BY <1>2, <2>1, <2>2, <2>3 DEF DeliverResult, Deliver, Queue!Answer, stageMap, MgrUp
  <2> QED BY <2>1, <2>2, <2>4 DEF Queue!QueueNext
<1>3. CASE DestroyMgr
  <2>1. MgrUp /\ ~MgrUp' /\ UNCHANGED <<ids, delivered>>
    BY <1>3 DEF DestroyMgr, mgrVars, MgrUp
  <2>2. \A t \in Trans : stageMap'[t] = IF stageMap[t] = "new" THEN "new" ELSE "dropped"
    BY <2>1 DEF stageMap, StageOf
  <2>3. Queue!Abandon
    BY <2>1, <2>2 DEF Queue!Abandon, stageMap
  <2> QED BY <2>3 DEF Queue!QueueNext
<1>10. CASE DestructorStep
  <2>1. ~MgrUp /\ ~MgrUp' /\ UNCHANGED <<ids, delivered>>
    BY <1>10 DEF DestructorStep, DeleteQueued, ClearDeque, DestroyThreads, sessionVars,
                 mgrVars, MgrUp
  <2> QED BY <2>1, SameGone
<1>4. CASE SpawnPL
  <2>1. pc[incoming] = "none" /\ pc \in [Trans -> PCs]
    BY <1>4 DEF SpawnPL, IInv, RequestInv, TypeOK
  <2>2. \A t \in Trans : pc'[t] = pc[t] \/ (pc[t] = "none" /\ pc'[t] = "queued")
    <3>1. pc' = pc \/ pc' = [pc EXCEPT ![incoming] = "queued"]
      BY <1>4 DEF SpawnPL
    <3> QED BY <2>1, <3>1
  <2>3. ids' = ids /\ UNCHANGED <<transactions, delivered>>
    BY <1>4 DEF SpawnPL, Throw
  <2>4. MgrUp /\ MgrUp'
    BY <1>4 DEF SpawnPL, Throw, MgrUp
  <2>5. stageMap' = stageMap
    BY <2>2, <2>3, <2>4, SameStages DEF Waiting
  <2> QED BY <2>3, <2>4, <2>5, SameQueue
<1>5. ASSUME ids' = ids, pc' = pc, UNCHANGED <<transactions, delivered>>, MgrUp' <=> MgrUp
      PROVE  UNCHANGED Queue!queueVars
  BY <1>5, SameStages, SameQueue
<1>6. ASSUME NEW size \in Nat, RefuseRun(size) \/ AdmitRun(size)
      PROVE  UNCHANGED Queue!queueVars
  <2>1. ids' = ids /\ pc' = pc /\ UNCHANGED <<transactions, delivered>> /\ MgrUp' = MgrUp
    <3>1. CASE RefuseRun(size)
      BY <3>1 DEF RefuseRun, vars, mgrVars, sessionVars, MgrUp
    <3>2. CASE AdmitRun(size)
      BY <3>2 DEF AdmitRun, mgrVars, MgrUp
    <3> QED BY <1>6, <3>1, <3>2
  <2> QED BY <1>5, <2>1
<1>7. ASSUME NEW t \in Trans, NEW validMode \in BOOLEAN,
             RejectTransaction(t, validMode)
      PROVE  UNCHANGED Queue!queueVars
  BY <1>5, <1>7 DEF RejectTransaction, Throw, mgrVars, MgrUp
<1>8. ASSUME NEW t \in Trans, NEW ms \in Nat, WaitForTestHarnessRequest(t, ms)
      PROVE  UNCHANGED Queue!queueVars
  BY <1>5, <1>8 DEF WaitForTestHarnessRequest, Throw, MgrUp
<1>9. CASE Query \/ SocketFailure \/ Device
  BY <1>5, <1>9 DEF Query, QueryTransactionStatus, SocketFailure, Device, Throw,
       mgrVars, sessionVars, MgrUp
<1> QED BY <1>1, <1>2, <1>3, <1>4, <1>6, <1>7, <1>8, <1>9, <1>10
        DEF AnyRunTestHarness, AnyWaitForTestHarness

LEMMA QueueInitRefined == Init => Queue!QueueInit
BY DEF Init, Queue!QueueInit, StageOf, MgrUp

LEMMA Refines ==
  ASSUME IInv, ResultInv, [AnyNext]_vars
  PROVE  [Queue!QueueNext]_(Queue!queueVars)
<1>1. ASSUME NEW t \in Trans, PLThread(t)
      PROVE  [Queue!QueueNext]_(Queue!queueVars)
  BY <1>1, PLThreadRefines
<1>2. CASE AnyRunTestHarness \/ AnyWaitForTestHarness \/
           Query \/ SocketFailure \/ DestroyMgr \/ DestructorStep \/ Device
  BY <1>2, SessionRefines
<1>3. CASE UNCHANGED vars
  <2>1. stageMap' = stageMap /\ MgrUp' = MgrUp
    BY <1>3 DEF vars, mgrVars, sessionVars, stageMap, StageOf, MgrUp
  <2> QED BY <1>3, <2>1, SameQueue DEF vars, mgrVars, sessionVars
<1> QED BY <1>1, <1>2, <1>3 DEF AnyNext, PLThreads

(* The server executes its transactions one at a time in submission order, *)
(* answers each at most once and in that order, and never answers DONE     *)
(* with incomplete output.                                                 *)
THEOREM Implementation == Spec => ImplementsQueue
BY QueueInitRefined, Refines, NextIsAnyNext, ResultInvariance, PTL
   DEF Spec, ImplementsQueue, Queue!QueueSpec
=============================================================================
