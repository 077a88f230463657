-------------------------- MODULE PackerCacheProofs -------------------------
(* Proofs about PackerCache for any number of goroutines, descriptors and  *)
(* nested messages: the lock excludes, the cache holds what it should, and *)
(* a lookup cannot be told from an analysis without a cache.               *)
EXTENDS PackerCache, TLAPS

InReader == {"rblocked", "reading", "runlock"}
InWriter == {"rechecking", "analyzing", "writing", "unlock"}
InLookup == Locations \ {"idle", "coding"}

(* Who holds, waits for or has announced the lock, by location. *)
LockInv ==
  /\ writer # NoProc => announced = writer /\ readers = {}
  /\ announced = NoProc => waiting = {}
  /\ readers \cap waiting = {}
  /\ \A p \in Procs :
       /\ p \in readers \cup waiting <=> pc[p] \in InReader
       /\ p \in waiting => pc[p] = "rblocked"
       /\ announced = p <=> pc[p] \in InWriter \cup {"lblocked"}
       /\ writer = p <=> pc[p] \in InWriter

(* What a goroutine knows of the cache between two of its steps. *)
CacheInv ==
  /\ CacheSound
  /\ StoredOnce
  /\ \A p \in Procs :
       /\ pc[p] \in {"analyzing", "writing"} => cache[NameOf[md[p]]] = NoDesc
       /\ pc[p] = "writing" => result[p] = md[p] /\ md[p] \in Valid

(* A schema made of a valid descriptor with the name of d. *)
NamedLike(s, d) == s \in Valid /\ NameOf[s] = NameOf[d]

(* What a lookup has found so far, by location. *)
AnswerInv ==
  \A p \in Procs :
    /\ pc[p] \in InLookup => md[p] \in Descs
    /\ pc[p] \notin InLookup => md[p] = NoDesc
    /\ pc[p] = "runlock" => result[p] = NoDesc \/ NamedLike(result[p], md[p])
    /\ pc[p] \in {"unlock", "return"} =>
         \/ result[p] = Invalid /\ md[p] \notin Valid
         \/ NamedLike(result[p], md[p])

(* The descriptors of the messages a goroutine is in. *)
PathInv == \A p \in Procs : pc[p] # "idle" => Len(path[p]) > 0

(* The invariant that is inductive. *)
IInv == TypeOK /\ LockInv /\ CacheInv /\ AnswerInv /\ PathInv

-----------------------------------------------------------------------------
(* What is assumed of the constants, as one fact. *)
LEMMA Constants == /\ NoProc \notin Procs
                   /\ NoDesc \notin Descs /\ Invalid \notin Descs /\ NoDesc # Invalid
                   /\ Valid \subseteq Descs
                   /\ NameOf \in [Descs -> Names]
                   /\ Children \in [Descs -> SUBSET Descs]
                   /\ MaxLookups \in Nat
  BY NoProcAssumption, DescsAssumption, NameOfAssumption, ChildrenAssumption,
     MaxLookupsAssumption

(* The message types of the fields of a message are descriptors. *)
LEMMA NestedDesc ==
  ASSUME TypeOK, PathInv, NEW p \in Procs, pc[p] = "coding",
         NEW d \in Children[path[p][Len(path[p])]]
  PROVE  d \in Descs
  <1>1. path[p] \in Seq(Descs) /\ Len(path[p]) > 0
    BY DEF TypeOK, PathInv
  <1>2. path[p][Len(path[p])] \in Descs
    BY <1>1
  <1> QED BY <1>2, Constants

(* The invariant holds before any call. *)
LEMMA InitInv == Init => IInv
  BY Constants
     DEF Init, MuInit, IInv, TypeOK, MuTypeOK, LockInv, CacheInv, CacheSound,
         StoredOnce, AnswerInv, PathInv, Locations, InReader, InWriter, InLookup

(* Each step leaves the lock with those the locations say hold it.         *)
LEMMA LockInvStep == IInv /\ [Next]_vars => LockInv'
  <1> SUFFICES ASSUME IInv, [Next]_vars PROVE LockInv'
    OBVIOUS
  <1> USE DEF IInv, Goto, muVars, callVars, TypeOK, MuTypeOK, LockInv, InReader, InWriter, Locations
  <1>1. ASSUME NEW p \in Procs, NEW o \in Ops, NEW d \in Descs, NEW k \in 0..MaxLookups,
              Call(p, o, d, k)
        PROVE  LockInv'
    BY <1>1, Constants DEF Call
  <1>2. ASSUME NEW p \in Procs, RLockCache(p) PROVE LockInv'
    BY <1>2, Constants DEF RLockCache, CallRLock
  <1>3. ASSUME NEW p \in Procs, EnterRead(p) PROVE LockInv'
    BY <1>3, Constants DEF EnterRead, HasRLock
  <1>4. ASSUME NEW p \in Procs, ReadCache(p) PROVE LockInv'
    BY <1>4, Constants DEF ReadCache
  <1>5. ASSUME NEW p \in Procs, RUnlockCache(p) PROVE LockInv'
    BY <1>5, Constants DEF RUnlockCache, RUnlock
  <1>6. ASSUME NEW p \in Procs, LockCache(p) PROVE LockInv'
    BY <1>6, Constants DEF LockCache, CallLock
  <1>7. ASSUME NEW p \in Procs, EnterWrite(p) PROVE LockInv'
    BY <1>7, Constants DEF EnterWrite, TakeLock
  <1>8. ASSUME NEW p \in Procs, Recheck(p) PROVE LockInv'
    BY <1>8, Constants DEF Recheck
  <1>9. ASSUME NEW p \in Procs, CallAnalyze(p) PROVE LockInv'
    BY <1>9, Constants DEF CallAnalyze, Analyze
  <1>10. ASSUME NEW p \in Procs, StoreSchema(p) PROVE LockInv'
    BY <1>10, Constants DEF StoreSchema
  <1>11. ASSUME NEW p \in Procs, UnlockCache(p) PROVE LockInv'
    BY <1>11, Constants DEF UnlockCache, Unlock
  <1>12. ASSUME NEW p \in Procs, LookupFails(p) PROVE LockInv'
    BY <1>12, Constants DEF LookupFails, Finish
  <1>13. ASSUME NEW p \in Procs, ValidateReturns(p) PROVE LockInv'
    BY <1>13, Constants DEF ValidateReturns, Finish
  <1>14. ASSUME NEW p \in Procs, BeginCoding(p) PROVE LockInv'
    BY <1>14, Constants DEF BeginCoding
  <1>15. ASSUME NEW p \in Procs, EnterNested(p) PROVE LockInv'
    BY <1>15, Constants DEF EnterNested
  <1>16. ASSUME NEW p \in Procs, LeaveNested(p) PROVE LockInv'
    BY <1>16, Constants DEF LeaveNested
  <1>17. ASSUME NEW p \in Procs, CodingReturns(p) PROVE LockInv'
    BY <1>17, Constants DEF CodingReturns, Finish
  <1>18. ASSUME NEW p \in Procs, CodingFails(p) PROVE LockInv'
    BY <1>18, Constants DEF CodingFails, Finish
  <1>19. CASE UNCHANGED vars
    BY <1>19 DEF vars
  <1> QED BY <1>1, <1>2, <1>3, <1>4, <1>5, <1>6, <1>7, <1>8, <1>9, <1>10, <1>11, <1>12, <1>13, <1>14, <1>15, <1>16, <1>17, <1>18, <1>19 DEF Next, CallAny, Lookup, Method

(* Each step of a lookup finds a schema of the name asked, or an error.    *)
LEMMA AnswerInvStep == IInv /\ [Next]_vars => AnswerInv'
  <1> SUFFICES ASSUME IInv, [Next]_vars PROVE AnswerInv'
    OBVIOUS
  <1> USE DEF IInv, Goto, muVars, callVars, TypeOK, AnswerInv, CacheInv, CacheSound, NamedLike, InLookup, Locations
  <1>1. ASSUME NEW p \in Procs, NEW o \in Ops, NEW d \in Descs, NEW k \in 0..MaxLookups,
              Call(p, o, d, k)
        PROVE  AnswerInv'
    BY <1>1, Constants DEF Call
  <1>2. ASSUME NEW p \in Procs, RLockCache(p) PROVE AnswerInv'
    BY <1>2, Constants DEF RLockCache, CallRLock
  <1>3. ASSUME NEW p \in Procs, EnterRead(p) PROVE AnswerInv'
    BY <1>3, Constants DEF EnterRead, HasRLock
  <1>4. ASSUME NEW p \in Procs, ReadCache(p) PROVE AnswerInv'
    BY <1>4, Constants DEF ReadCache
  <1>5. ASSUME NEW p \in Procs, RUnlockCache(p) PROVE AnswerInv'
    BY <1>5, Constants DEF RUnlockCache, RUnlock
  <1>6. ASSUME NEW p \in Procs, LockCache(p) PROVE AnswerInv'
    BY <1>6, Constants DEF LockCache, CallLock
  <1>7. ASSUME NEW p \in Procs, EnterWrite(p) PROVE AnswerInv'
    BY <1>7, Constants DEF EnterWrite, TakeLock
  <1>8. ASSUME NEW p \in Procs, Recheck(p) PROVE AnswerInv'
    BY <1>8, Constants DEF Recheck
  <1>9. ASSUME NEW p \in Procs, CallAnalyze(p) PROVE AnswerInv'
    BY <1>9, Constants DEF CallAnalyze, Analyze
  <1>10. ASSUME NEW p \in Procs, StoreSchema(p) PROVE AnswerInv'
    BY <1>10, Constants DEF StoreSchema
  <1>11. ASSUME NEW p \in Procs, UnlockCache(p) PROVE AnswerInv'
    BY <1>11, Constants DEF UnlockCache, Unlock
  <1>12. ASSUME NEW p \in Procs, LookupFails(p) PROVE AnswerInv'
    BY <1>12, Constants DEF LookupFails, Finish
  <1>13. ASSUME NEW p \in Procs, ValidateReturns(p) PROVE AnswerInv'
    BY <1>13, Constants DEF ValidateReturns, Finish
  <1>14. ASSUME NEW p \in Procs, BeginCoding(p) PROVE AnswerInv'
    BY <1>14, Constants DEF BeginCoding
  <1>15. ASSUME NEW p \in Procs, EnterNested(p) PROVE AnswerInv'
    <2>1. PICK d \in Children[path[p][Len(path[p])]] : md' = [md EXCEPT ![p] = d]
      BY <1>15 DEF EnterNested
    <2>2. d \in Descs
      BY <1>15, NestedDesc DEF EnterNested
    <2> QED BY <1>15, <2>1, <2>2 DEF EnterNested
  <1>16. ASSUME NEW p \in Procs, LeaveNested(p) PROVE AnswerInv'
    BY <1>16, Constants DEF LeaveNested
  <1>17. ASSUME NEW p \in Procs, CodingReturns(p) PROVE AnswerInv'
    BY <1>17, Constants DEF CodingReturns, Finish
  <1>18. ASSUME NEW p \in Procs, CodingFails(p) PROVE AnswerInv'
    BY <1>18, Constants DEF CodingFails, Finish
  <1>19. CASE UNCHANGED vars
    BY <1>19 DEF vars
  <1> QED BY <1>1, <1>2, <1>3, <1>4, <1>5, <1>6, <1>7, <1>8, <1>9, <1>10, <1>11, <1>12, <1>13, <1>14, <1>15, <1>16, <1>17, <1>18, <1>19 DEF Next, CallAny, Lookup, Method

(* Only the goroutine that found a name missing, still holding the write   *)
(* lock, stores under it.                                                  *)
LEMMA CacheInvStep == IInv /\ [Next]_vars => CacheInv'
  <1> SUFFICES ASSUME IInv, [Next]_vars PROVE CacheInv'
    OBVIOUS
  <1> USE DEF IInv, Goto, muVars, callVars, TypeOK, LockInv, InWriter, CacheInv, CacheSound, StoredOnce, AnswerInv, InLookup, Locations
  <1>1. ASSUME NEW p \in Procs, NEW o \in Ops, NEW d \in Descs, NEW k \in 0..MaxLookups,
              Call(p, o, d, k)
        PROVE  CacheInv'
    BY <1>1, Constants DEF Call
  <1>2. ASSUME NEW p \in Procs, RLockCache(p) PROVE CacheInv'
    BY <1>2, Constants DEF RLockCache, CallRLock
  <1>3. ASSUME NEW p \in Procs, EnterRead(p) PROVE CacheInv'
    BY <1>3, Constants DEF EnterRead, HasRLock
  <1>4. ASSUME NEW p \in Procs, ReadCache(p) PROVE CacheInv'
    BY <1>4, Constants DEF ReadCache
  <1>5. ASSUME NEW p \in Procs, RUnlockCache(p) PROVE CacheInv'
    BY <1>5, Constants DEF RUnlockCache, RUnlock
  <1>6. ASSUME NEW p \in Procs, LockCache(p) PROVE CacheInv'
    BY <1>6, Constants DEF LockCache, CallLock
  <1>7. ASSUME NEW p \in Procs, EnterWrite(p) PROVE CacheInv'
    BY <1>7, Constants DEF EnterWrite, TakeLock
  <1>8. ASSUME NEW p \in Procs, Recheck(p) PROVE CacheInv'
    BY <1>8, Constants DEF Recheck
  <1>9. ASSUME NEW p \in Procs, CallAnalyze(p) PROVE CacheInv'
    BY <1>9, Constants DEF CallAnalyze, Analyze
  <1>10. ASSUME NEW p \in Procs, StoreSchema(p) PROVE CacheInv'
    BY <1>10, Constants DEF StoreSchema
  <1>11. ASSUME NEW p \in Procs, UnlockCache(p) PROVE CacheInv'
    BY <1>11, Constants DEF UnlockCache, Unlock
  <1>12. ASSUME NEW p \in Procs, LookupFails(p) PROVE CacheInv'
    BY <1>12, Constants DEF LookupFails, Finish
  <1>13. ASSUME NEW p \in Procs, ValidateReturns(p) PROVE CacheInv'
    BY <1>13, Constants DEF ValidateReturns, Finish
  <1>14. ASSUME NEW p \in Procs, BeginCoding(p) PROVE CacheInv'
    BY <1>14, Constants DEF BeginCoding
  <1>15. ASSUME NEW p \in Procs, EnterNested(p) PROVE CacheInv'
    BY <1>15, Constants DEF EnterNested
  <1>16. ASSUME NEW p \in Procs, LeaveNested(p) PROVE CacheInv'
    BY <1>16, Constants DEF LeaveNested
  <1>17. ASSUME NEW p \in Procs, CodingReturns(p) PROVE CacheInv'
    BY <1>17, Constants DEF CodingReturns, Finish
  <1>18. ASSUME NEW p \in Procs, CodingFails(p) PROVE CacheInv'
    BY <1>18, Constants DEF CodingFails, Finish
  <1>19. CASE UNCHANGED vars
    BY <1>19 DEF vars
  <1> QED BY <1>1, <1>2, <1>3, <1>4, <1>5, <1>6, <1>7, <1>8, <1>9, <1>10, <1>11, <1>12, <1>13, <1>14, <1>15, <1>16, <1>17, <1>18, <1>19 DEF Next, CallAny, Lookup, Method

(* A goroutine within a call is in at least one message. *)
LEMMA PathInvStep == IInv /\ [Next]_vars => PathInv'
  <1> SUFFICES ASSUME IInv, [Next]_vars PROVE PathInv'
    OBVIOUS
  <1> USE DEF IInv, Goto, muVars, callVars, TypeOK, PathInv
  <1>1. ASSUME NEW p \in Procs, NEW o \in Ops, NEW d \in Descs, NEW k \in 0..MaxLookups,
              Call(p, o, d, k)
        PROVE  PathInv'
    BY <1>1, Constants DEF Call
  <1>2. ASSUME NEW p \in Procs, RLockCache(p) PROVE PathInv'
    BY <1>2, Constants DEF RLockCache, CallRLock
  <1>3. ASSUME NEW p \in Procs, EnterRead(p) PROVE PathInv'
    BY <1>3, Constants DEF EnterRead, HasRLock
  <1>4. ASSUME NEW p \in Procs, ReadCache(p) PROVE PathInv'
    BY <1>4, Constants DEF ReadCache
  <1>5. ASSUME NEW p \in Procs, RUnlockCache(p) PROVE PathInv'
    BY <1>5, Constants DEF RUnlockCache, RUnlock
  <1>6. ASSUME NEW p \in Procs, LockCache(p) PROVE PathInv'
    BY <1>6, Constants DEF LockCache, CallLock
  <1>7. ASSUME NEW p \in Procs, EnterWrite(p) PROVE PathInv'
    BY <1>7, Constants DEF EnterWrite, TakeLock
  <1>8. ASSUME NEW p \in Procs, Recheck(p) PROVE PathInv'
    BY <1>8, Constants DEF Recheck
  <1>9. ASSUME NEW p \in Procs, CallAnalyze(p) PROVE PathInv'
    BY <1>9, Constants DEF CallAnalyze, Analyze
  <1>10. ASSUME NEW p \in Procs, StoreSchema(p) PROVE PathInv'
    BY <1>10, Constants DEF StoreSchema
  <1>11. ASSUME NEW p \in Procs, UnlockCache(p) PROVE PathInv'
    BY <1>11, Constants DEF UnlockCache, Unlock
  <1>12. ASSUME NEW p \in Procs, LookupFails(p) PROVE PathInv'
    BY <1>12, Constants DEF LookupFails, Finish
  <1>13. ASSUME NEW p \in Procs, ValidateReturns(p) PROVE PathInv'
    BY <1>13, Constants DEF ValidateReturns, Finish
  <1>14. ASSUME NEW p \in Procs, BeginCoding(p) PROVE PathInv'
    BY <1>14, Constants DEF BeginCoding
  <1>15. ASSUME NEW p \in Procs, EnterNested(p) PROVE PathInv'
    BY <1>15, Constants DEF EnterNested
  <1>16. ASSUME NEW p \in Procs, LeaveNested(p) PROVE PathInv'
    BY <1>16, Constants DEF LeaveNested
  <1>17. ASSUME NEW p \in Procs, CodingReturns(p) PROVE PathInv'
    BY <1>17, Constants DEF CodingReturns, Finish
  <1>18. ASSUME NEW p \in Procs, CodingFails(p) PROVE PathInv'
    BY <1>18, Constants DEF CodingFails, Finish
  <1>19. CASE UNCHANGED vars
    BY <1>19 DEF vars
  <1> QED BY <1>1, <1>2, <1>3, <1>4, <1>5, <1>6, <1>7, <1>8, <1>9, <1>10, <1>11, <1>12, <1>13, <1>14, <1>15, <1>16, <1>17, <1>18, <1>19 DEF Next, CallAny, Lookup, Method

(* Each step keeps the types. *)
LEMMA TypeOKStep == IInv /\ [Next]_vars => TypeOK'
  <1> SUFFICES ASSUME IInv, [Next]_vars PROVE TypeOK'
    OBVIOUS
  <1> USE DEF IInv, Goto, muVars, callVars, TypeOK, MuTypeOK, AnswerInv, InLookup, PathInv, Locations
  <1>1. ASSUME NEW p \in Procs, NEW o \in Ops, NEW d \in Descs, NEW k \in 0..MaxLookups,
              Call(p, o, d, k)
        PROVE  TypeOK'
    BY <1>1, Constants DEF Call
  <1>2. ASSUME NEW p \in Procs, RLockCache(p) PROVE TypeOK'
    BY <1>2, Constants DEF RLockCache, CallRLock
  <1>3. ASSUME NEW p \in Procs, EnterRead(p) PROVE TypeOK'
    BY <1>3, Constants DEF EnterRead, HasRLock
  <1>4. ASSUME NEW p \in Procs, ReadCache(p) PROVE TypeOK'
    BY <1>4, Constants DEF ReadCache
  <1>5. ASSUME NEW p \in Procs, RUnlockCache(p) PROVE TypeOK'
    BY <1>5, Constants DEF RUnlockCache, RUnlock
  <1>6. ASSUME NEW p \in Procs, LockCache(p) PROVE TypeOK'
    BY <1>6, Constants DEF LockCache, CallLock
  <1>7. ASSUME NEW p \in Procs, EnterWrite(p) PROVE TypeOK'
    BY <1>7, Constants DEF EnterWrite, TakeLock
  <1>8. ASSUME NEW p \in Procs, Recheck(p) PROVE TypeOK'
    BY <1>8, Constants DEF Recheck
  <1>9. ASSUME NEW p \in Procs, CallAnalyze(p) PROVE TypeOK'
    BY <1>9, Constants DEF CallAnalyze, Analyze
  <1>10. ASSUME NEW p \in Procs, StoreSchema(p) PROVE TypeOK'
    <2>1. result[p] \in Descs /\ md[p] \in Descs
      BY <1>10, Constants DEF StoreSchema, CacheInv
    <2>2. cache' \in [Names -> Descs \cup {NoDesc}]
      BY <1>10, <2>1, Constants DEF StoreSchema
    <2>3. stored' \in [Names -> 0..2]
      BY <1>10, <2>1, Constants DEF StoreSchema
    <2> QED BY <1>10, <2>2, <2>3 DEF StoreSchema
  <1>11. ASSUME NEW p \in Procs, UnlockCache(p) PROVE TypeOK'
    BY <1>11, Constants DEF UnlockCache, Unlock
  <1>12. ASSUME NEW p \in Procs, LookupFails(p) PROVE TypeOK'
    BY <1>12, Constants DEF LookupFails, Finish
  <1>13. ASSUME NEW p \in Procs, ValidateReturns(p) PROVE TypeOK'
    <2>1. md[p] \in Descs
      BY <1>13 DEF ValidateReturns
    <2>2. validated' \subseteq Descs
      BY <1>13, <2>1 DEF ValidateReturns, Finish
    <2> QED BY <1>13, <2>2, Constants DEF ValidateReturns, Finish
  <1>14. ASSUME NEW p \in Procs, BeginCoding(p) PROVE TypeOK'
    BY <1>14, Constants DEF BeginCoding
  <1>15. ASSUME NEW p \in Procs, EnterNested(p) PROVE TypeOK'
    <2>1. PICK d \in Children[path[p][Len(path[p])]] :
            /\ md' = [md EXCEPT ![p] = d]
            /\ path' = [path EXCEPT ![p] = Append(path[p], d)]
      BY <1>15 DEF EnterNested
    <2>2. d \in Descs
      BY <1>15, NestedDesc DEF EnterNested
    <2>3. Append(path[p], d) \in Seq(Descs)
      BY <2>2
    <2>4. md' \in [Procs -> Descs \cup {NoDesc}] /\ path' \in [Procs -> Seq(Descs)]
      BY <2>1, <2>2, <2>3
    <2>5. left' \in [Procs -> 0..MaxLookups]
      BY <1>15, Constants DEF EnterNested
    <2> QED BY <1>15, <2>4, <2>5 DEF EnterNested
  <1>16. ASSUME NEW p \in Procs, LeaveNested(p) PROVE TypeOK'
    BY <1>16, Constants DEF LeaveNested
  <1>17. ASSUME NEW p \in Procs, CodingReturns(p) PROVE TypeOK'
    BY <1>17, Constants DEF CodingReturns, Finish
  <1>18. ASSUME NEW p \in Procs, CodingFails(p) PROVE TypeOK'
    BY <1>18, Constants DEF CodingFails, Finish
  <1>19. CASE UNCHANGED vars
    BY <1>19 DEF vars
  <1> QED BY <1>1, <1>2, <1>3, <1>4, <1>5, <1>6, <1>7, <1>8, <1>9, <1>10, <1>11, <1>12, <1>13, <1>14, <1>15, <1>16, <1>17, <1>18, <1>19 DEF Next, CallAny, Lookup, Method

(* Each step keeps the invariant. *)
LEMMA StepInv == IInv /\ [Next]_vars => IInv'
  BY TypeOKStep, LockInvStep, CacheInvStep, AnswerInvStep, PathInvStep DEF IInv

-----------------------------------------------------------------------------
(* The invariant holds in every behaviour, of any number of goroutines. *)
THEOREM Invariance == Spec => []IInv
  BY InitInv, StepInv, PTL DEF Spec

(* Every variable keeps its type. *)
THEOREM TypeCorrect == Spec => []TypeOK
  <1>1. IInv => TypeOK
    BY DEF IInv
  <1> QED BY <1>1, Invariance, PTL

(* The read lock, the write lock and the announcement of it keep every     *)
(* other goroutine out of the map while one writes it.                     *)
THEOREM MapIsGuarded == Spec => []NoMapRace
  <1>1. IInv => NoMapRace
    <2> SUFFICES ASSUME IInv, NEW p \in Procs, NEW q \in Procs,
                        pc[p] = "writing",
                        pc[q] \in {"reading", "rechecking", "writing"}
                 PROVE  p = q
      BY DEF NoMapRace
    <2>1. writer = p /\ readers = {}
      BY Constants DEF IInv, LockInv, InWriter
    <2>2. CASE pc[q] = "reading"
      <3>1. q \in readers \cup waiting /\ q \notin waiting
        BY <2>2 DEF IInv, LockInv, InReader
      <3> QED BY <2>1, <3>1
    <2>3. CASE pc[q] \in {"rechecking", "writing"}
      BY <2>1, <2>3 DEF IInv, LockInv, InWriter
    <2> QED BY <2>2, <2>3
  <1> QED BY <1>1, Invariance, PTL

(* The cache holds valid schemas, under their own names.                   *)
THEOREM CacheIsSound == Spec => []CacheSound
  <1>1. IInv => CacheSound
    BY DEF IInv, CacheInv
  <1> QED BY <1>1, Invariance, PTL

(* Each was stored once, however many goroutines missed it at one time:    *)
(* GetOrAnalyze looks again once it holds the write lock.                  *)
THEOREM StoredOnceAlways == Spec => []StoredOnce
  <1>1. IInv => StoredOnce
    BY DEF IInv, CacheInv
  <1> QED BY <1>1, Invariance, PTL

(* A goroutine that is coding, or about to ask for a lock, holds none. *)
THEOREM CodingHoldsNoLock == Spec => []CodesUnlocked
  <1>1. IInv => CodesUnlocked
    BY DEF IInv, LockInv, CodesUnlocked, InReader, InWriter
  <1> QED BY <1>1, Invariance, PTL

-----------------------------------------------------------------------------
(* Refinement of SchemaLookup, where no two descriptors share a name.      *)

NamesUnique == \A c, d \in Descs : NameOf[c] = NameOf[d] => c = d

bar == [p \in Procs |-> AbstractLookup(p)]

(* Every step is an Ask, an Answer or a Take of SchemaLookup, or a stutter. *)
LEMMA StepRefines ==
  ASSUME NamesUnique, IInv, [Next]_vars
  PROVE  [Abstract!LNext]_bar
  <1> DEFINE Goes(p, l, d, s) == /\ pc' = [pc EXCEPT ![p] = l]
                                 /\ md' = [md EXCEPT ![p] = d]
                                 /\ result' = [result EXCEPT ![p] = s]
  <1>0. TypeOK /\ AnswerInv
    BY DEF IInv
  <1>a. ASSUME NEW p \in Procs, NEW l \in Locations, NEW d, NEW s, Goes(p, l, d, s)
        PROVE  bar' = [bar EXCEPT ![p] = [md |-> d,
                                          answer |-> IF l = "return" THEN s ELSE NoDesc]]
    <2>1. /\ pc'[p] = l /\ md'[p] = d /\ result'[p] = s
          /\ \A q \in Procs : q # p => /\ pc'[q] = pc[q]
                                       /\ md'[q] = md[q] /\ result'[q] = result[q]
      BY <1>0, <1>a DEF TypeOK
    <2> QED BY <2>1 DEF bar, AbstractLookup
  <1>b. ASSUME NEW p \in Procs, NEW d \in Descs, pc[p] \in {"idle", "coding"},
               Goes(p, "rlock", d, NoDesc)
        PROVE  Abstract!LNext
    <2>1. md[p] = NoDesc
      BY <1>0, <1>b DEF AnswerInv, InLookup
    <2>2. bar[p] = Abstract!Idle
      BY <1>b, <2>1 DEF bar, AbstractLookup, Abstract!Idle
    <2>3. bar' = [bar EXCEPT ![p] = [md |-> d, answer |-> NoDesc]]
      BY <1>a, <1>b DEF Locations
    <2>4. Abstract!Ask(p, d)
      BY <2>2, <2>3 DEF Abstract!Ask, bar
    <2> QED BY <2>4 DEF Abstract!LNext
  <1>c. ASSUME NEW p \in Procs, pc[p] \in {"runlock", "unlock"}, result[p] # NoDesc,
               Goes(p, "return", md[p], result[p])
        PROVE  Abstract!LNext
    <2>1. md[p] \in Descs /\ md[p] # NoDesc
      BY <1>0, <1>c, Constants DEF AnswerInv, InLookup, Locations
    <2>2. result[p] = Abstract!AnalysisOf(md[p])
      BY <1>0, <1>c, <2>1, Constants
         DEF AnswerInv, NamedLike, NamesUnique, Abstract!AnalysisOf
    <2>3. bar[p] = [md |-> md[p], answer |-> NoDesc]
      BY <1>c DEF bar, AbstractLookup
    <2>4. bar' = [bar EXCEPT ![p] = [md |-> md[p], answer |-> result[p]]]
      BY <1>a, <1>c, ZenonT(30) DEF Locations
    <2>5. bar' = [bar EXCEPT ![p] = [md |-> bar[p].md,
                                     answer |-> Abstract!AnalysisOf(bar[p].md)]]
      BY <2>2, <2>3, <2>4
    <2>6. Abstract!Answer(p)
      BY <2>1, <2>3, <2>5 DEF Abstract!Answer, bar
    <2> QED BY <2>6 DEF Abstract!LNext
  <1>d. ASSUME NEW p \in Procs, pc[p] = "return",
               \E l \in {"idle", "coding"} : Goes(p, l, NoDesc, NoDesc)
        PROVE  Abstract!LNext
    <2>1. PICK l \in {"idle", "coding"} : Goes(p, l, NoDesc, NoDesc)
      BY <1>d
    <2>2. result[p] # NoDesc
      BY <1>0, <1>d, Constants DEF AnswerInv, NamedLike
    <2>3. bar[p].answer # NoDesc
      BY <1>d, <2>2 DEF bar, AbstractLookup
    <2>4. bar' = [bar EXCEPT ![p] = Abstract!Idle]
      BY <1>a, <2>1 DEF Locations, Abstract!Idle
    <2>5. Abstract!Take(p)
      BY <2>3, <2>4 DEF Abstract!Take, bar
    <2> QED BY <2>5 DEF Abstract!LNext
  <1>e. ASSUME NEW p \in Procs, NEW l \in Locations, pc[p] # "return", l # "return",
               \E s : Goes(p, l, md[p], s)
        PROVE  UNCHANGED bar
    <2>1. PICK s : Goes(p, l, md[p], s)
      BY <1>e
    <2>2. bar' = [bar EXCEPT ![p] = [md |-> md[p], answer |-> NoDesc]]
      BY <1>a, <1>e, <2>1
    <2>3. bar[p] = [md |-> md[p], answer |-> NoDesc]
      BY <1>e DEF bar, AbstractLookup
    <2> QED BY <2>2, <2>3 DEF bar
  <1>f. \A p \in Procs : /\ md = [md EXCEPT ![p] = md[p]]
                         /\ result = [result EXCEPT ![p] = result[p]]
    BY <1>0 DEF TypeOK
  <1> USE DEF Goto
  <1>1. ASSUME NEW p \in Procs, CallAny(p) PROVE Abstract!LNext
    BY <1>1, <1>b DEF CallAny, Call
  <1>2. ASSUME NEW p \in Procs, RLockCache(p) PROVE UNCHANGED bar
    BY <1>2, <1>e, <1>f DEF RLockCache, Locations
  <1>3. ASSUME NEW p \in Procs, EnterRead(p) PROVE UNCHANGED bar
    BY <1>3, <1>e, <1>f DEF EnterRead, Locations
  <1>4. ASSUME NEW p \in Procs, ReadCache(p) PROVE UNCHANGED bar
    BY <1>4, <1>e, <1>f DEF ReadCache, Locations
  <1>5. ASSUME NEW p \in Procs, RUnlockCache(p) PROVE [Abstract!LNext]_bar
    <2>1. CASE result[p] # NoDesc
      BY <1>5, <2>1, <1>c, <1>f DEF RUnlockCache
    <2>2. CASE result[p] = NoDesc
      BY <1>5, <2>2, <1>e, <1>f DEF RUnlockCache, Locations
    <2> QED BY <2>1, <2>2
  <1>6. ASSUME NEW p \in Procs, LockCache(p) PROVE UNCHANGED bar
    BY <1>6, <1>e, <1>f DEF LockCache, Locations
  <1>7. ASSUME NEW p \in Procs, EnterWrite(p) PROVE UNCHANGED bar
    BY <1>7, <1>e, <1>f DEF EnterWrite, Locations
  <1>8. ASSUME NEW p \in Procs, Recheck(p) PROVE UNCHANGED bar
    <2>1. PICK l \in {"unlock", "analyzing"} : pc' = [pc EXCEPT ![p] = l]
      BY <1>8 DEF Recheck
    <2> QED BY <1>8, <2>1, <1>e, <1>f DEF Recheck, Locations
  <1>9. ASSUME NEW p \in Procs, CallAnalyze(p) PROVE UNCHANGED bar
    <2>1. PICK l \in {"writing", "unlock"} : pc' = [pc EXCEPT ![p] = l]
      BY <1>9 DEF CallAnalyze
    <2> QED BY <1>9, <2>1, <1>e, <1>f DEF CallAnalyze, Locations
  <1>10. ASSUME NEW p \in Procs, StoreSchema(p) PROVE UNCHANGED bar
    BY <1>10, <1>e, <1>f DEF StoreSchema, Locations
  <1>11. ASSUME NEW p \in Procs, UnlockCache(p) PROVE Abstract!LNext
    <2>1. result[p] # NoDesc
      BY <1>0, <1>11, Constants DEF UnlockCache, AnswerInv, NamedLike
    <2> QED BY <1>11, <2>1, <1>c, <1>f DEF UnlockCache
  <1>12. ASSUME NEW p \in Procs, LookupFails(p) \/ ValidateReturns(p) \/ BeginCoding(p)
         PROVE  Abstract!LNext
    BY <1>12, <1>d DEF LookupFails, ValidateReturns, BeginCoding, Finish
  <1>13. ASSUME NEW p \in Procs, EnterNested(p) PROVE Abstract!LNext
    <2>1. PICK d \in Children[path[p][Len(path[p])]] : md' = [md EXCEPT ![p] = d]
      BY <1>13 DEF EnterNested
    <2>2. d \in Descs
      BY <1>0, <1>13, NestedDesc DEF EnterNested, IInv
    <2> QED BY <1>13, <2>1, <2>2, <1>b DEF EnterNested
  <1>14. ASSUME NEW p \in Procs, LeaveNested(p) PROVE UNCHANGED bar
    BY <1>14 DEF LeaveNested, bar, AbstractLookup
  <1>15. ASSUME NEW p \in Procs, CodingReturns(p) \/ CodingFails(p)
         PROVE  UNCHANGED bar
    <2>1. md[p] = NoDesc
      BY <1>0, <1>15 DEF CodingReturns, CodingFails, AnswerInv, InLookup
    <2> QED BY <1>15, <2>1, <1>e DEF CodingReturns, CodingFails, Finish, Locations
  <1>16. CASE UNCHANGED vars
    BY <1>16 DEF vars, bar, AbstractLookup
  <1> QED
    BY <1>1, <1>2, <1>3, <1>4, <1>5, <1>6, <1>7, <1>8, <1>9, <1>10, <1>11, <1>12,
       <1>13, <1>14, <1>15, <1>16 DEF Next, Lookup, Method

(* Where no two descriptors share a full name, the locks and the cache     *)
(* implement the plain lookup: every answer is the analysis of the         *)
(* descriptor asked.                                                       *)
THEOREM Refinement == ASSUME NamesUnique PROVE Spec => RefinesSchemaLookup
  <1>1. Init => Abstract!LInit
    BY DEF Init, Abstract!LInit, Abstract!Idle, AbstractLookup
  <1>2. IInv /\ [Next]_vars => [Abstract!LNext]_bar
    BY StepRefines
  <1> QED BY <1>1, <1>2, Invariance, PTL
          DEF Spec, RefinesSchemaLookup, Abstract!LSpec, bar
=============================================================================
