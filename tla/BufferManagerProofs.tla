------------------------- MODULE BufferManagerProofs -------------------------
(***************************************************************************)
(* Proofs about BufferManager, for every number of buffers, every set of   *)
(* writers and every behaviour of the threads that share the pool.         *)
(***************************************************************************)
EXTENDS BufferManager, FiniteSetTheorems, TLAPS

\* The inductive invariant: the count of buffers is right and stays in range.
PoolInv ==
  /\ TypeOK
  /\ PoolAccounting
  /\ NumberOfBuffers <= current
  /\ current <= MaxNumberOfBuffers
------------------------------------------------------------------------------
\* The holders of a buffer are finitely many: Live is a number (the unique_ptr
\* owners of BufferManager.cpp can be counted).
LEMMA HoldingFinite ==
  ASSUME TypeOK
  PROVE  IsFiniteSet(Holding) /\ Cardinality(Holding) \in Nat
<1>1. Holding \subseteq Writers
  BY DEF Holding
<1>2. IsFiniteSet(Holding)
  BY <1>1, BufferManagerAssumption, FS_Subset
<1>3. QED
  BY <1>2, FS_CardinalityType

\* A writer whose Reserve succeeds is one more holder.
LEMMA HoldingGrows ==
  ASSUME TypeOK, NEW w \in Writers, NEW size \in Sizes,
         writing[w] = NoBuffer, writing' = [writing EXCEPT ![w] = size]
  PROVE  Cardinality(Holding') = Cardinality(Holding) + 1
<1>1. size # NoBuffer
  BY BufferManagerAssumption
<1>2. Holding' = Holding \cup {w}
  BY <1>1 DEF Holding, TypeOK
<1>3. w \notin Holding
  BY DEF Holding
<1>4. QED
  BY <1>2, <1>3, HoldingFinite, FS_AddElement

\* A writer that commits, releases or drops its buffer is one holder less.
LEMMA HoldingShrinks ==
  ASSUME TypeOK, NEW w \in Writers,
         writing[w] # NoBuffer, writing' = [writing EXCEPT ![w] = NoBuffer]
  PROVE  /\ Cardinality(Holding') \in Nat
         /\ Cardinality(Holding') = Cardinality(Holding) - 1
<1>1. Holding' = Holding \ {w}
  BY DEF Holding, TypeOK
<1>2. w \in Holding
  BY DEF Holding
<1>3. IsFiniteSet(Holding')
  BY <1>1, HoldingFinite, FS_Subset
<1>4. Cardinality(Holding') \in Nat
  BY <1>3, FS_CardinalityType
<1>5. QED
  BY <1>1, <1>2, <1>4, HoldingFinite, FS_RemoveElement

\* Every step of every thread keeps the types of the pool's state
\* (BufferManager.cpp: the lists, the count and the owners).
LEMMA TypeStep ==
  ASSUME TypeOK, [Next]_bufferVars
  PROVE  TypeOK'
<1> USE BufferManagerAssumption
<1>1. ASSUME NEW w \in Writers, NEW size \in Sizes, Reserve(w, size)
      PROVE  TypeOK'
  BY <1>1 DEF Reserve, TypeOK, historyVars, CanReserve
<1>2. ASSUME NEW w \in Writers, NEW size \in Sizes, Commit(w, size)
      PROVE  TypeOK'
  <2>0. NextNo(w) \in Nat
    BY DEF NextNo, TypeOK
  <2>1. [src |-> w, no |-> NextNo(w), size |-> size] \in Packet
    BY <2>0 DEF Packet
  <2>2. readable' \in Seq(Packet)
    BY <1>2, <2>1 DEF Commit, TypeOK
  <2>3. QED
    BY <1>2, <2>0, <2>2 DEF Commit, TypeOK, poolVars
<1>3. ASSUME NEW w \in Writers, Release(w)
      PROVE  TypeOK'
  BY <1>3 DEF Release, ReturnBuffer, TypeOK, historyVars
<1>4. ASSUME NEW w \in Writers, Drop(w)
      PROVE  TypeOK'
  BY <1>4 DEF Drop, TypeOK, poolVars
<1>5. CASE GetReadableBuffer
  <2>1. Head(readable) \in Packet /\ Tail(readable) \in Seq(Packet)
    BY <1>5 DEF GetReadableBuffer, TypeOK
  <2>2. Head(readable).src \in Writers /\ Head(readable).no \in Nat
    BY <2>1 DEF Packet
  <2>3. QED
    BY <1>5, <2>1, <2>2 DEF GetReadableBuffer, TypeOK, poolVars
<1>6. CASE MarkRead
  BY <1>6 DEF MarkRead, ReturnBuffer, TypeOK, historyVars
<1>7. CASE Reset
  BY <1>7, HoldingFinite DEF Reset, ResetPool, TypeOK
<1>8. CASE UNCHANGED bufferVars
  BY <1>8 DEF bufferVars, TypeOK
<1>9. QED
  BY <1>1, <1>2, <1>3, <1>4, <1>5, <1>6, <1>7, <1>8 DEF Next, WriterStep

\* The state of the pool always has its declared types, whatever the threads
\* calling BufferManager.cpp do.
THEOREM TypeCorrect == Spec => []TypeOK
<1>1. Init => TypeOK
  BY BufferManagerAssumption DEF Init, TypeOK
<1>2. TypeOK /\ [Next]_bufferVars => TypeOK'
  BY TypeStep
<1>3. QED
  BY <1>1, <1>2, PTL DEF Spec
------------------------------------------------------------------------------
\* Returning a buffer (Release, MarkRead) keeps the accounting: held is the
\* number of buffers outside m_AvailableList after the return.
LEMMA ReturnKeepsAccounting ==
  ASSUME PoolInv, ReturnBuffer, UNCHANGED <<dropped, orphaned>>,
         NEW held \in Nat, Live = available + held + 1, Live' = available' + held
  PROVE  /\ PoolAccounting'
         /\ NumberOfBuffers <= current'
         /\ current' <= MaxNumberOfBuffers
<1> USE BufferManagerAssumption DEF PoolInv, PoolAccounting, TypeOK
<1>1. CASE available <= NumberOfBuffers
  BY <1>1 DEF ReturnBuffer, MaxNumberOfBuffers
<1>2. CASE available > NumberOfBuffers
  BY <1>2 DEF ReturnBuffer, MaxNumberOfBuffers
<1>3. QED
  BY <1>1, <1>2

\* Every step of every thread keeps the inductive invariant of
\* BufferManager.cpp: one step per operation.
LEMMA PoolStep ==
  ASSUME PoolInv, [Next]_bufferVars
  PROVE  PoolInv'
<1>0. TypeOK /\ TypeOK'
  BY TypeStep DEF PoolInv
<1>h. Cardinality(Holding) \in Nat /\ Len(readable) \in Nat /\ BeingRead \in Nat
  BY <1>0, HoldingFinite DEF TypeOK, BeingRead
<1> USE BufferManagerAssumption
<1>1. ASSUME NEW w \in Writers, NEW size \in Sizes, Reserve(w, size)
      PROVE  PoolInv'
  <2>1. Cardinality(Holding') = Cardinality(Holding) + 1
    BY <1>0, <1>1, HoldingGrows DEF Reserve
  <2>2. UNCHANGED <<readable, BeingRead, dropped, orphaned>>
    BY <1>1 DEF Reserve, historyVars, BeingRead
  <2>3. CASE available > 0
    <3>1. available' = available - 1 /\ current' = current
      BY <1>0, <1>1, <2>3 DEF Reserve, TypeOK
    <3>2. Live' = Live
      BY <1>0, <1>h, <2>1, <2>2, <3>1 DEF Live, TypeOK
    <3>3. QED
      BY <1>0, <2>2, <3>1, <3>2 DEF PoolInv, PoolAccounting, MaxNumberOfBuffers
  <2>4. CASE available = 0
    <3>1. /\ available' = available /\ current' = current + 1
          /\ current < MaxNumberOfBuffers
      BY <1>0, <1>1, <2>4 DEF Reserve, CanReserve, TypeOK
    <3>a. available \in Nat /\ current \in Nat /\ dropped \in Nat /\ orphaned \in Nat
      BY <1>0 DEF TypeOK
    <3>2. Live' = Live + 1 /\ Live \in Nat
      BY <1>h, <2>1, <2>2, <3>1, <3>a DEF Live
    <3>3. PoolAccounting'
      BY <2>2, <3>1, <3>2, <3>a DEF PoolInv, PoolAccounting
    <3>4. NumberOfBuffers <= current' /\ current' <= MaxNumberOfBuffers
      BY <3>1, <3>a DEF PoolInv, MaxNumberOfBuffers
    <3>5. QED
      BY <1>0, <3>3, <3>4 DEF PoolInv, MaxNumberOfBuffers
  <2>5. QED
    BY <1>0, <2>3, <2>4 DEF TypeOK
<1>2. ASSUME NEW w \in Writers, NEW size \in Sizes, Commit(w, size)
      PROVE  PoolInv'
  <2>1. Cardinality(Holding') = Cardinality(Holding) - 1
    BY <1>0, <1>2, HoldingShrinks DEF Commit
  <2>2. Len(readable') = Len(readable) + 1
    BY <1>0, <1>2 DEF Commit, TypeOK
  <2>3. UNCHANGED <<available, current, BeingRead, dropped, orphaned>>
    BY <1>2 DEF Commit, poolVars, BeingRead
  <2>4. Live' = Live
    BY <1>0, <1>h, <2>1, <2>2, <2>3 DEF Live, TypeOK
  <2>5. QED
    BY <1>0, <2>3, <2>4 DEF PoolInv, PoolAccounting, MaxNumberOfBuffers
<1>3. ASSUME NEW w \in Writers, Release(w)
      PROVE  PoolInv'
  <2> DEFINE held == Len(readable) + Cardinality(Holding') + BeingRead
  <2>1. Cardinality(Holding') = Cardinality(Holding) - 1
    BY <1>0, <1>3, HoldingShrinks DEF Release
  <2>2. Cardinality(Holding') \in Nat
    BY <1>0, <1>3, HoldingShrinks DEF Release
  <2>3. held \in Nat
    BY <1>h, <2>1, <2>2
  <2>u. UNCHANGED <<readable, BeingRead>>
    BY <1>3 DEF Release, BeingRead
  <2>a. available \in Nat /\ available' \in Nat
    BY <1>0 DEF TypeOK
  <2>4. Live = available + held + 1 /\ Live' = available' + held
    <3>1. Live = available + held + 1
      BY <1>h, <2>1, <2>2, <2>a DEF Live
    <3>2. Live' = available' + held
      BY <1>h, <2>2, <2>u, <2>a DEF Live
    <3>3. QED
      BY <3>1, <3>2
  <2>5. ReturnBuffer /\ UNCHANGED <<dropped, orphaned>>
    BY <1>3 DEF Release, historyVars
  <2> HIDE DEF held
  <2>6. QED
    BY <1>0, <2>3, <2>4, <2>5, ReturnKeepsAccounting DEF PoolInv
<1>4. ASSUME NEW w \in Writers, Drop(w)
      PROVE  PoolInv'
  <2>1. Cardinality(Holding') = Cardinality(Holding) - 1
    BY <1>0, <1>4, HoldingShrinks DEF Drop
  <2>2. UNCHANGED <<available, current, readable, BeingRead, orphaned>>
    BY <1>4 DEF Drop, poolVars, BeingRead
  <2>3. available \in Nat /\ dropped \in Nat /\ dropped' = dropped + 1
    BY <1>0, <1>4 DEF TypeOK, Drop
  <2>4. Cardinality(Holding') \in Nat
    BY <1>0, <1>4, HoldingShrinks DEF Drop
  <2>5. Live = Live' + 1 /\ Live' \in Nat
    BY <1>h, <2>1, <2>2, <2>3, <2>4 DEF Live
  <2>6. PoolAccounting'
    BY <2>2, <2>3, <2>5 DEF PoolInv, PoolAccounting
  <2>7. QED
    BY <1>0, <2>2, <2>6 DEF PoolInv, MaxNumberOfBuffers
<1>5. CASE GetReadableBuffer
  <2>1. Len(readable') = Len(readable) - 1 /\ reading' # NoBuffer
    <3>1. Head(readable) \in Packet
      BY <1>0, <1>5 DEF GetReadableBuffer, TypeOK
    <3>2. Head(readable) # NoBuffer
      BY <3>1 DEF Packet
    <3>3. QED
      BY <1>0, <1>5, <3>2 DEF GetReadableBuffer, TypeOK
  <2>2. Holding' = Holding
    BY <1>5 DEF GetReadableBuffer, Holding
  <2>3. UNCHANGED <<available, current, dropped, orphaned>>
    BY <1>5 DEF GetReadableBuffer, poolVars
  <2>4. BeingRead' = BeingRead + 1
    BY <1>5, <2>1 DEF GetReadableBuffer, BeingRead
  <2>5. available \in Nat
    BY <1>0 DEF TypeOK
  <2>6. Live' = Live
    BY <1>h, <2>1, <2>2, <2>3, <2>4, <2>5 DEF Live
  <2>7. QED
    BY <1>0, <2>3, <2>6 DEF PoolInv, PoolAccounting, MaxNumberOfBuffers
<1>6. CASE MarkRead
  <2> DEFINE held == Len(readable) + Cardinality(Holding)
  <2>1. held \in Nat
    BY <1>h
  <2>2. Holding' = Holding
    BY <1>6 DEF MarkRead, Holding
  <2>3. Live = available + held + 1 /\ Live' = available' + held
    BY <1>0, <1>h, <1>6, <2>2 DEF Live, BeingRead, MarkRead, TypeOK
  <2>4. ReturnBuffer /\ UNCHANGED <<dropped, orphaned>>
    BY <1>6 DEF MarkRead, historyVars
  <2> HIDE DEF held
  <2>5. QED
    BY <1>0, <2>1, <2>3, <2>4, ReturnKeepsAccounting DEF PoolInv
<1>7. CASE Reset
  <2>1. Holding' = Holding
    BY <1>7 DEF Reset, ResetPool, Holding
  <2>2. Len(readable') = 0
    BY <1>7 DEF Reset, ResetPool
  <2>3. /\ available' = NumberOfBuffers
        /\ current' = NumberOfBuffers
        /\ BeingRead' = 0
        /\ dropped' = 0
        /\ orphaned' = Cardinality(Holding)
    BY <1>7 DEF Reset, ResetPool, BeingRead
  <2>4. Live' = NumberOfBuffers + Cardinality(Holding)
    BY <1>h, <2>1, <2>2, <2>3, BufferManagerAssumption DEF Live
  <2>5. QED
    BY <1>0, <1>h, <2>3, <2>4, BufferManagerAssumption
    DEF PoolInv, PoolAccounting, MaxNumberOfBuffers
<1>8. CASE UNCHANGED bufferVars
  BY <1>8 DEF bufferVars, PoolInv, PoolAccounting, Live, BeingRead, Holding, TypeOK
<1>9. QED
  BY <1>1, <1>2, <1>3, <1>4, <1>5, <1>6, <1>7, <1>8 DEF Next, WriterStep

\* PoolInv holds in every reachable state of BufferManager.cpp's pool.
LEMMA PoolInvariant == Spec => []PoolInv
<1>1. Init => PoolInv
  <2> SUFFICES ASSUME Init PROVE PoolInv
    OBVIOUS
  <2>1. TypeOK
    BY BufferManagerAssumption DEF Init, TypeOK
  <2>2. Holding = {}
    BY DEF Init, Holding
  <2>3. Cardinality(Holding) = 0 /\ Len(readable) = 0
    BY <2>2, FS_EmptySet DEF Init
  <2>4. QED
    BY <2>1, <2>3, BufferManagerAssumption
    DEF Init, PoolInv, PoolAccounting, Live, BeingRead, MaxNumberOfBuffers
<1>2. PoolInv /\ [Next]_bufferVars => PoolInv'
  BY PoolStep
<1>3. QED
  BY <1>1, <1>2, PTL DEF Spec

\* m_CurrentNumberOfBuffers is the number of buffers that exist, up to those
\* destroyed outside the pool or carried across a Reset.
THEOREM PoolAccountingHolds == Spec => []PoolAccounting
<1>1. PoolInv => PoolAccounting
  BY DEF PoolInv
<1>2. QED
  BY <1>1, PoolInvariant, PTL

\* The profiling client never holds more packet memory than three times the
\* initial pool, plus what clients carried across a Reset.
THEOREM MemoryBoundedHolds == Spec => []MemoryBounded
<1>1. PoolInv => MemoryBounded
  <2> SUFFICES ASSUME PoolInv PROVE MemoryBounded
    OBVIOUS
  <2>1. Cardinality(Holding) \in Nat /\ Len(readable) \in Nat
    BY HoldingFinite DEF PoolInv, TypeOK
  <2>2. Live \in Nat
    BY <2>1 DEF Live, BeingRead, PoolInv, TypeOK
  <2>3. QED
    BY <2>2, BufferManagerAssumption
    DEF PoolInv, PoolAccounting, MemoryBounded, MaxNumberOfBuffers, TypeOK
<1>2. QED
  BY <1>1, PoolInvariant, PTL
------------------------------------------------------------------------------
\* The order of the queue is inductive with this: the reader takes no packet
\* that was not committed.
OrderInv ==
  /\ TypeOK
  /\ ReadableInOrder
  /\ \A w \in Numbered : taken[w] <= committed[w]

\* GetReadableBuffer takes the oldest packet of its builder: the rest of the
\* queue moves one place to the front.
LEMMA OrderTaken ==
  ASSUME OrderInv, GetReadableBuffer
  PROVE  ReadableInOrder' /\ \A w \in Numbered : taken'[w] <= committed'[w]
<1> USE BufferManagerAssumption
<1>. DEFINE h == Head(readable)
<1>1. /\ readable # <<>>
      /\ readable' = Tail(readable)
      /\ taken' = [taken EXCEPT ![h.src] = h.no]
      /\ committed' = committed
  BY DEF GetReadableBuffer
<1>2. /\ readable \in Seq(Packet)
      /\ taken \in [Writers -> Nat]
      /\ committed \in [Writers -> Nat]
  BY DEF OrderInv, TypeOK
<1>3. /\ h = readable[1]
      /\ h \in Packet
      /\ Len(readable) \in Nat \ {0}
      /\ Len(readable') = Len(readable) - 1
      /\ \A i \in 1..Len(readable') : readable'[i] = readable[i + 1]
      /\ \A i \in 1..Len(readable) : readable[i] \in Packet
  BY <1>1, <1>2
<1>. HIDE DEF h
<1>4. h.src \in Writers /\ h.no \in Nat
  BY <1>3 DEF Packet
<1>5. \A w \in Writers : taken'[w] = IF w = h.src THEN h.no ELSE taken[w]
  BY <1>1, <1>2, <1>4
<1>6. ASSUME NEW i \in 1..Len(readable'), readable'[i].src \in Numbered
      PROVE  /\ taken'[readable'[i].src] < readable'[i].no
             /\ readable'[i].no <= committed'[readable'[i].src]
  <2>1. i + 1 \in 1..Len(readable) /\ readable'[i] = readable[i + 1] /\ 1 \in 1..Len(readable)
    BY <1>3
  <2>2. /\ taken[readable[i + 1].src] < readable[i + 1].no
        /\ readable[i + 1].no <= committed[readable[i + 1].src]
    BY <1>6, <2>1 DEF OrderInv, ReadableInOrder
  <2>3. readable[i + 1].src = h.src => h.no < readable[i + 1].no
    BY <1>3, <1>6, <2>1 DEF OrderInv, ReadableInOrder
  <2>4. readable[i + 1].src \in Writers
    BY <1>3, <2>1 DEF Packet
  <2>5. QED
    BY <1>1, <1>5, <2>1, <2>2, <2>3, <2>4
<1>7. ASSUME NEW i \in 1..Len(readable'), NEW j \in 1..Len(readable'),
             i < j, readable'[i].src = readable'[j].src, readable'[i].src \in Numbered
      PROVE  readable'[i].no < readable'[j].no
  <2>1. /\ i + 1 \in 1..Len(readable) /\ j + 1 \in 1..Len(readable) /\ i + 1 < j + 1
        /\ readable'[i] = readable[i + 1] /\ readable'[j] = readable[j + 1]
    BY <1>3, <1>7
  <2>2. QED
    BY <1>7, <2>1 DEF OrderInv, ReadableInOrder
<1>8. ASSUME NEW w \in Numbered, NEW n \in (taken'[w] + 1)..committed'[w]
      PROVE  \E i \in 1..Len(readable') : readable'[i].src = w /\ readable'[i].no = n
  <2>1. w \in Writers /\ taken[w] \in Nat /\ committed[w] \in Nat /\ taken'[w] \in Nat
    BY <1>2, <1>4, <1>5
  <2>2. w = h.src => taken[w] < h.no
    BY <1>3 DEF OrderInv, ReadableInOrder
  <2>3. n \in (taken[w] + 1)..committed[w]
    BY <1>1, <1>5, <2>1, <2>2
  <2>4. PICK i \in 1..Len(readable) : readable[i].src = w /\ readable[i].no = n
    BY <2>3 DEF OrderInv, ReadableInOrder
  <2>5. i # 1
    BY <1>3, <1>5, <2>1, <2>4
  <2>6. i - 1 \in 1..Len(readable') /\ readable'[i - 1] = readable[i]
    BY <1>3, <2>4, <2>5
  <2>7. QED
    BY <2>4, <2>6
<1>9. ASSUME NEW w \in Numbered PROVE taken'[w] <= committed'[w]
  <2>1. w \in Writers
    OBVIOUS
  <2>2. w = h.src => h.no <= committed[w]
    BY <1>3 DEF OrderInv, ReadableInOrder
  <2>3. QED
    BY <1>1, <1>5, <2>1, <2>2 DEF OrderInv
<1>10. QED
  BY <1>6, <1>7, <1>8, <1>9 DEF ReadableInOrder

\* Commit puts a packet with the next number of its builder at the end.
LEMMA OrderCommitted ==
  ASSUME OrderInv, NEW w \in Writers, NEW size \in Sizes, Commit(w, size)
  PROVE  ReadableInOrder' /\ \A v \in Numbered : taken'[v] <= committed'[v]
<1> USE BufferManagerAssumption
<1>. DEFINE new == [src |-> w, no |-> NextNo(w), size |-> size]
<1>1. /\ readable' = Append(readable, new)
      /\ committed' = [committed EXCEPT ![w] = NextNo(w)]
      /\ taken' = taken
  BY DEF Commit
<1>2. /\ readable \in Seq(Packet)
      /\ taken \in [Writers -> Nat]
      /\ committed \in [Writers -> Nat]
  BY DEF OrderInv, TypeOK
<1>3. /\ new.src = w /\ new.no = NextNo(w)
      /\ NextNo(w) \in Nat
      /\ w \in Numbered => NextNo(w) = committed[w] + 1
  BY <1>2 DEF NextNo
<1>. HIDE DEF new
<1>4. /\ Len(readable) \in Nat
      /\ Len(readable') = Len(readable) + 1
      /\ \A i \in 1..Len(readable) : readable'[i] = readable[i] /\ readable[i] \in Packet
      /\ readable'[Len(readable) + 1] = new
  BY <1>1, <1>2
<1>5. \A v \in Writers : committed'[v] = IF v = w THEN NextNo(w) ELSE committed[v]
  BY <1>1, <1>2
<1>6. ASSUME NEW i \in 1..Len(readable), readable[i].src \in Numbered
      PROVE  /\ taken[readable[i].src] < readable[i].no
             /\ readable[i].no <= committed[readable[i].src]
             /\ readable[i].src = w => readable[i].no < NextNo(w)
             /\ readable[i].no <= committed'[readable[i].src]
  <2>1. readable[i].src \in Writers /\ readable[i].no \in Nat
    BY <1>4 DEF Packet
  <2>2. /\ taken[readable[i].src] < readable[i].no
        /\ readable[i].no <= committed[readable[i].src]
    BY <1>6 DEF OrderInv, ReadableInOrder
  <2>3. committed[readable[i].src] \in Nat
    BY <1>2, <2>1
  <2>4. QED
    BY <1>3, <1>5, <1>6, <2>1, <2>2, <2>3
<1>7. ASSUME NEW i \in 1..Len(readable'), readable'[i].src \in Numbered
      PROVE  /\ taken'[readable'[i].src] < readable'[i].no
             /\ readable'[i].no <= committed'[readable'[i].src]
  <2>1. CASE i \in 1..Len(readable)
    BY <1>1, <1>4, <1>6, <1>7, <2>1
  <2>2. CASE i = Len(readable) + 1
    <3>1. readable'[i] = new /\ w \in Numbered
      BY <1>3, <1>4, <1>7, <2>2
    <3>2. taken[w] <= committed[w] /\ taken[w] \in Nat /\ committed[w] \in Nat
      BY <1>2, <3>1 DEF OrderInv
    <3>3. QED
      BY <1>1, <1>3, <1>5, <3>1, <3>2
  <2>3. QED
    BY <1>4, <2>1, <2>2
<1>8. ASSUME NEW i \in 1..Len(readable'), NEW j \in 1..Len(readable'),
             i < j, readable'[i].src = readable'[j].src, readable'[i].src \in Numbered
      PROVE  readable'[i].no < readable'[j].no
  <2>1. i \in 1..Len(readable) /\ readable'[i] = readable[i]
    BY <1>4, <1>8
  <2>2. CASE j \in 1..Len(readable)
    BY <1>4, <1>8, <2>1, <2>2 DEF OrderInv, ReadableInOrder
  <2>3. CASE j = Len(readable) + 1
    BY <1>3, <1>4, <1>6, <1>8, <2>1, <2>3
  <2>4. QED
    BY <1>4, <2>2, <2>3
<1>9. ASSUME NEW v \in Numbered, NEW n \in (taken'[v] + 1)..committed'[v]
      PROVE  \E i \in 1..Len(readable') : readable'[i].src = v /\ readable'[i].no = n
  <2>1. v \in Writers /\ taken[v] \in Nat /\ committed[v] \in Nat
    BY <1>2
  <2>2. CASE v = w /\ n = NextNo(w)
    BY <1>3, <1>4, <2>2
  <2>3. CASE ~(v = w /\ n = NextNo(w))
    <3>1. n \in (taken[v] + 1)..committed[v]
      BY <1>1, <1>3, <1>5, <2>1, <2>3
    <3>2. PICK i \in 1..Len(readable) : readable[i].src = v /\ readable[i].no = n
      BY <3>1 DEF OrderInv, ReadableInOrder
    <3>3. QED
      BY <1>4, <3>2
  <2>4. QED
    BY <2>2, <2>3
<1>10. ASSUME NEW v \in Numbered PROVE taken'[v] <= committed'[v]
  <2>1. v \in Writers /\ taken[v] \in Nat /\ committed[v] \in Nat /\ taken[v] <= committed[v]
    BY <1>2 DEF OrderInv
  <2>2. QED
    BY <1>1, <1>3, <1>5, <2>1
<1>11. QED
  BY <1>7, <1>8, <1>9, <1>10 DEF ReadableInOrder

\* Only Commit, GetReadableBuffer and Reset touch the queue and the numbers.
LEMMA OrderStep ==
  ASSUME OrderInv, [Next]_bufferVars
  PROVE  OrderInv'
<1>1. TypeOK'
  BY TypeStep DEF OrderInv
<1>2. CASE UNCHANGED <<readable, committed, taken>>
  BY <1>1, <1>2 DEF OrderInv, ReadableInOrder
<1>3. ASSUME NEW w \in Writers, NEW size \in Sizes, Commit(w, size)
      PROVE  OrderInv'
  BY <1>1, <1>3, OrderCommitted DEF OrderInv
<1>4. CASE GetReadableBuffer
  BY <1>1, <1>4, OrderTaken DEF OrderInv
<1>5. CASE Reset
  <2>1. readable' = <<>> /\ taken' = committed /\ committed' = committed
    BY <1>5 DEF Reset, ResetPool
  <2>2. Len(readable') = 0
    BY <2>1
  <2>3. \A w \in Numbered : committed[w] \in Nat
    BY BufferManagerAssumption DEF OrderInv, TypeOK
  <2>4. QED
    BY <1>1, <2>1, <2>2, <2>3 DEF OrderInv, ReadableInOrder
<1>6. ASSUME NEW w \in Writers, WriterStep(w)
      PROVE  OrderInv'
  BY <1>2, <1>3, <1>6 DEF WriterStep, Reserve, Release, Drop, historyVars
<1>7. CASE MarkRead
  BY <1>2, <1>7 DEF MarkRead, historyVars
<1>8. QED
  BY <1>2, <1>4, <1>5, <1>6, <1>7 DEF Next, bufferVars

\* The readable list of BufferManager.cpp holds what each builder committed and
\* the reader has not taken, each packet once and in the builder's order.
THEOREM ReadableInOrderHolds == Spec => []ReadableInOrder
<1>1. Init => OrderInv
  <2> SUFFICES ASSUME Init PROVE OrderInv
    OBVIOUS
  <2>1. TypeOK
    BY BufferManagerAssumption DEF Init, TypeOK
  <2>2. /\ Len(readable) = 0
        /\ \A w \in Numbered : taken[w] = 0 /\ committed[w] = 0
    BY BufferManagerAssumption DEF Init
  <2>3. QED
    BY <2>1, <2>2 DEF OrderInv, ReadableInOrder
<1>2. OrderInv /\ [Next]_bufferVars => OrderInv'
  BY OrderStep
<1>3. OrderInv => ReadableInOrder
  BY DEF OrderInv
<1>4. QED
  BY <1>1, <1>2, <1>3, PTL DEF Spec
==============================================================================
