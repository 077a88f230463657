----------------------------- MODULE PackerCache ----------------------------
(***************************************************************************)
(* Packer of bitpacker/packer.go, used by several goroutines: Pack, Unpack *)
(* and Validate look the schema of a message descriptor up in a cache that *)
(* a RWMutex guards, and Pack and Unpack look up the schemas of the nested *)
(* messages they come to, one after the other, with no lock held between.  *)
(* A schema is named by the descriptor it was built from: it holds that    *)
(* descriptor's field descriptors.                                         *)
(***************************************************************************)
EXTENDS RWMutex, Naturals, Sequences

CONSTANTS Descs,      \* message descriptors
          NoDesc,     \* no descriptor, no schema
          Invalid,    \* the answer of a lookup that found a ValidationError
          Valid,      \* the descriptors AnalyzeMessage accepts
          Names,      \* full names
          NameOf,     \* md.FullName()
          Ops,        \* the methods the program calls
          Children,   \* the message types of a descriptor's fields
          MaxLookups  \* bound: nested messages in the message of one call

ASSUME DescsAssumption == /\ NoDesc \notin Descs /\ Invalid \notin Descs
                          /\ NoDesc # Invalid
                          /\ Valid \subseteq Descs
ASSUME NameOfAssumption == NameOf \in [Descs -> Names]
ASSUME ChildrenAssumption == Children \in [Descs -> SUBSET Descs]
ASSUME OpsAssumption == Ops \subseteq {"Pack", "Unpack", "Validate"}
ASSUME MaxLookupsAssumption == MaxLookups \in Nat

VARIABLES cache,      \* Packer.cache: full name -> schema, or NoDesc
          pc,         \* where each goroutine is
          op,         \* the exported method it is in
          path,       \* descriptors of the messages it is in, outermost first
          md,         \* the descriptor it is looking up
          result,     \* the schema its lookup has found
          left,       \* nested messages its message still has
          stored,     \* ghost: how often an entry was stored under a name
          validated   \* ghost: the descriptors Validate has accepted

callVars == <<op, path, left, validated>>
vars == <<muVars, cache, pc, md, result, stored, callVars>>

Locations == {"idle", "rlock", "rblocked", "reading", "runlock", "lock",
              "lblocked", "rechecking", "analyzing", "writing", "unlock",
              "return", "coding"}

Init == /\ MuInit
        /\ cache = [n \in Names |-> NoDesc]
        /\ pc = [p \in Procs |-> "idle"]
        /\ op = [p \in Procs |-> "none"]
        /\ path = [p \in Procs |-> <<>>]
        /\ md = [p \in Procs |-> NoDesc]
        /\ result = [p \in Procs |-> NoDesc]
        /\ left = [p \in Procs |-> 0]
        /\ stored = [n \in Names |-> 0]
        /\ validated = {}

Goto(p, from, to) == pc[p] = from /\ pc' = [pc EXCEPT ![p] = to]

-----------------------------------------------------------------------------
(* getOrAnalyze, one step per use of the lock or of the map *)

RLockCache(p) == /\ Goto(p, "rlock", "rblocked")
                 /\ CallRLock(p)
                 /\ UNCHANGED <<cache, md, result, stored, callVars>>

(* mutant: the map is read without the lock *)
EnterReadUnlocked(p) == /\ Goto(p, "rblocked", "reading")
                        /\ UNCHANGED <<muVars, cache, md, result, stored, callVars>>

EnterRead(p) == /\ Goto(p, "rblocked", "reading")
                /\ HasRLock(p)
                /\ UNCHANGED <<muVars, cache, md, result, stored, callVars>>

ReadCache(p) == /\ Goto(p, "reading", "runlock")
                /\ result' = [result EXCEPT ![p] = cache[NameOf[md[p]]]]
                /\ UNCHANGED <<muVars, cache, md, stored, callVars>>

(* mutant: a hit returns with the read lock held *)
RUnlockCacheOnMiss(p) ==
  /\ Goto(p, "runlock", IF result[p] # NoDesc THEN "return" ELSE "lock")
  /\ IF result[p] # NoDesc THEN UNCHANGED muVars ELSE RUnlock(p)
  /\ UNCHANGED <<cache, md, result, stored, callVars>>

RUnlockCache(p) == /\ Goto(p, "runlock", IF result[p] # NoDesc THEN "return" ELSE "lock")
                   /\ RUnlock(p)
                   /\ UNCHANGED <<cache, md, result, stored, callVars>>

LockCache(p) == /\ Goto(p, "lock", "lblocked")
                /\ CallLock(p)
                /\ UNCHANGED <<cache, md, result, stored, callVars>>

EnterWrite(p) == /\ Goto(p, "lblocked", "rechecking")
                 /\ TakeLock(p)
                 /\ UNCHANGED <<cache, md, result, stored, callVars>>

(* mutants: no second check; a second check that forgets what it found *)
RecheckNothing(p) == /\ Goto(p, "rechecking", "analyzing")
                     /\ UNCHANGED <<muVars, cache, md, result, stored, callVars>>

RecheckForgets(p) ==
  /\ Goto(p, "rechecking", IF cache[NameOf[md[p]]] # NoDesc THEN "unlock" ELSE "analyzing")
  /\ UNCHANGED <<muVars, cache, md, result, stored, callVars>>

(* Another goroutine may have stored the schema between the two locks. *)
Recheck(p) ==
  LET s == cache[NameOf[md[p]]]
  IN /\ Goto(p, "rechecking", IF s # NoDesc THEN "unlock" ELSE "analyzing")
     /\ result' = [result EXCEPT ![p] = s]
     /\ UNCHANGED <<muVars, cache, md, stored, callVars>>

(* AnalyzeMessage *)
Analyze(d) == IF d \in Valid THEN d ELSE Invalid

(* mutant: the error is not looked at before the schema is stored *)
CallAnalyzeUnchecked(p) ==
  /\ Goto(p, "analyzing", "writing")
  /\ result' = [result EXCEPT ![p] = Analyze(md[p])]
  /\ UNCHANGED <<muVars, cache, md, stored, callVars>>

CallAnalyze(p) ==
  /\ Goto(p, "analyzing", IF md[p] \in Valid THEN "writing" ELSE "unlock")
  /\ result' = [result EXCEPT ![p] = Analyze(md[p])]
  /\ UNCHANGED <<muVars, cache, md, stored, callVars>>

StoreSchema(p) ==
  LET n == NameOf[md[p]]
  IN /\ Goto(p, "writing", "unlock")
     /\ cache' = [cache EXCEPT ![n] = result[p]]
     /\ stored' = [stored EXCEPT ![n] = IF @ < 2 THEN @ + 1 ELSE @]
     /\ UNCHANGED <<muVars, md, result, callVars>>

(* the deferred Unlock *)
UnlockCache(p) == /\ Goto(p, "unlock", "return")
                  /\ Unlock(p)
                  /\ UNCHANGED <<cache, md, result, stored, callVars>>

-----------------------------------------------------------------------------
(* Pack, Unpack and Validate *)

Call(p, o, d, n) ==
  /\ Goto(p, "idle", "rlock")
  /\ op' = [op EXCEPT ![p] = o]
  /\ md' = [md EXCEPT ![p] = d]
  /\ path' = [path EXCEPT ![p] = <<d>>]
  /\ left' = [left EXCEPT ![p] = n]
  /\ result' = [result EXCEPT ![p] = NoDesc]
  /\ UNCHANGED <<muVars, cache, stored, validated>>

Finish(p, accepted) ==
  /\ pc' = [pc EXCEPT ![p] = "idle"]
  /\ validated' = validated \cup accepted
  /\ path' = [path EXCEPT ![p] = <<>>]
  /\ left' = [left EXCEPT ![p] = 0]
  /\ md' = [md EXCEPT ![p] = NoDesc]
  /\ result' = [result EXCEPT ![p] = NoDesc]
  /\ op' = [op EXCEPT ![p] = "none"]
  /\ UNCHANGED <<muVars, cache, stored>>

(* mutant: a failed lookup is tried again *)
LookupFailsRetried(p) == /\ result[p] = Invalid
                         /\ Goto(p, "return", "rlock")
                         /\ result' = [result EXCEPT ![p] = NoDesc]
                         /\ UNCHANGED <<muVars, cache, md, stored, callVars>>

(* The lookup failed: the error goes through every level to the caller. *)
LookupFails(p) == /\ pc[p] = "return" /\ result[p] = Invalid
                  /\ Finish(p, {})

ValidateReturns(p) == /\ pc[p] = "return" /\ result[p] # Invalid
                      /\ op[p] = "Validate"
                      /\ Finish(p, {md[p]})

(* The message is coded unit by unit with the schema found. *)
BeginCoding(p) == /\ result[p] # Invalid /\ op[p] # "Validate"
                  /\ Goto(p, "return", "coding")
                  /\ md' = [md EXCEPT ![p] = NoDesc]
                  /\ result' = [result EXCEPT ![p] = NoDesc]
                  /\ UNCHANGED <<muVars, cache, stored, callVars>>

(* A unit that holds a nested message, or an element that is one: it looks *)
(* its schema up again (Unpack does so once for all elements of a list).   *)
EnterNested(p) ==
  /\ Goto(p, "coding", "rlock")
  /\ left[p] > 0
  /\ left' = [left EXCEPT ![p] = @ - 1]
  /\ \E d \in Children[path[p][Len(path[p])]] :
       /\ path' = [path EXCEPT ![p] = Append(@, d)]
       /\ md' = [md EXCEPT ![p] = d]
  /\ result' = [result EXCEPT ![p] = NoDesc]
  /\ UNCHANGED <<muVars, cache, stored, op, validated>>

(* encodeMessage or decodeMessage returns to the enclosing message. *)
LeaveNested(p) ==
  /\ pc[p] = "coding" /\ Len(path[p]) > 1
  /\ path' = [path EXCEPT ![p] = SubSeq(@, 1, Len(@) - 1)]
  /\ UNCHANGED <<muVars, cache, pc, md, result, stored, op, left, validated>>

(* The whole message is coded; or a value is out of range, or the stream   *)
(* too short, and the call returns from where it is.                       *)
CodingReturns(p) == /\ pc[p] = "coding" /\ Len(path[p]) = 1
                    /\ Finish(p, {})

CodingFails(p) == /\ pc[p] = "coding"
                  /\ Finish(p, {})

Lookup(p) == \/ RLockCache(p) \/ EnterRead(p) \/ ReadCache(p) \/ RUnlockCache(p)
             \/ EnterWrite(p) \/ Recheck(p) \/ CallAnalyze(p) \/ StoreSchema(p)
             \/ UnlockCache(p)

Method(p) == \/ LookupFails(p) \/ ValidateReturns(p) \/ BeginCoding(p)
             \/ EnterNested(p) \/ LeaveNested(p) \/ CodingReturns(p) \/ CodingFails(p)

CallAny(p) == \E o \in Ops, d \in Descs, n \in 0..MaxLookups :
                /\ n = 0 \/ (o # "Validate" /\ Children[d] # {})
                /\ Call(p, o, d, n)

Next == \E p \in Procs : CallAny(p) \/ Lookup(p) \/ LockCache(p) \/ Method(p)

(* A goroutine that can run does, and Go's mutexes do not starve a waiter  *)
(* (sync.Mutex hands itself to the first in line after a millisecond).     *)
Fairness == \A p \in Procs : WF_vars(Lookup(p) \/ Method(p)) /\ SF_vars(LockCache(p))

Spec == Init /\ [][Next]_vars
FairSpec == Spec /\ Fairness

-----------------------------------------------------------------------------
TypeOK == /\ MuTypeOK
          /\ cache \in [Names -> Descs \cup {NoDesc}]
          /\ pc \in [Procs -> Locations]
          /\ md \in [Procs -> Descs \cup {NoDesc}]
          /\ result \in [Procs -> Descs \cup {NoDesc, Invalid}]
          /\ stored \in [Names -> 0..2]
          /\ op \in [Procs -> Ops \cup {"none"}]
          /\ path \in [Procs -> Seq(Descs)]
          /\ left \in [Procs -> 0..MaxLookups]
          /\ validated \subseteq Descs

(* No goroutine touches the cache's map while another writes it, which Go  *)
(* would answer by killing the program: Packer is safe for concurrent use. *)
NoMapRace ==
  \A p, q \in Procs :
    /\ pc[p] = "writing"
    /\ pc[q] \in {"reading", "rechecking", "writing"}
    => p = q

(* The cache holds, under a name, only a schema AnalyzeMessage made of a   *)
(* valid descriptor of that name, however lookups interleave.              *)
CacheSound == \A n \in Names : cache[n] # NoDesc =>
                cache[n] \in Valid /\ NameOf[cache[n]] = n

(* Goroutines that miss together store the schema once: the second check   *)
(* makes all of them share one *MessageSchema.                             *)
StoredOnce == \A n \in Names : stored[n] = IF cache[n] = NoDesc THEN 0 ELSE 1

(* Messages are coded with no lock held, so that the lookup of a nested    *)
(* message can take them again.                                            *)
CodesUnlocked == \A p \in Procs : pc[p] \in {"coding", "rlock", "lock"} =>
                   p \notin readers /\ announced # p /\ writer # p

(* Every call of Pack, Unpack or Validate returns. *)
CallsReturn == \A p \in Procs : pc[p] = "rlock" ~> pc[p] = "idle"

AbstractLookup(p) ==
  [md |-> md[p],
   answer |-> IF pc[p] = "return" THEN result[p] ELSE NoDesc]

Abstract == INSTANCE SchemaLookup WITH
              Pending <- NoDesc,
              lookup <- [p \in Procs |-> AbstractLookup(p)]

(* A lookup answers the analysis of the descriptor it was given. *)
RefinesSchemaLookup == Abstract!LSpec

(* Validate "checks that all fields in desc have valid bitpacker           *)
(* annotations, recursively including nested messages" (packer.go): a type *)
(* it has accepted never makes Pack or Unpack fail with a ValidationError. *)
ValidateCoversNested ==
  [][\A p \in Procs : LookupFails(p) => path[p][1] \notin validated]_vars
=============================================================================
