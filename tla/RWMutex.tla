------------------------------- MODULE RWMutex ------------------------------
(***************************************************************************)
(* The sync.RWMutex of Go's standard library, as bitpacker/packer.go uses  *)
(* it.  A Lock first announces itself (only one may, the library's inner   *)
(* mutex sees to that), which holds back every later RLock, then waits for *)
(* the readers inside to leave.  Unlock lets in all the readers that have  *)
(* come meanwhile, before another Lock can announce itself.  A goroutine   *)
(* that calls RLock while it holds it can therefore wait for ever.         *)
(***************************************************************************)
EXTENDS FiniteSets

CONSTANTS Procs,    \* goroutines
          NoProc    \* no goroutine

ASSUME NoProcAssumption == NoProc \notin Procs

VARIABLES readers,   \* goroutines that hold the read lock
          waiting,   \* goroutines held back in RLock
          announced, \* the goroutine that has announced a Lock, or NoProc
          writer     \* the goroutine that holds the write lock, or NoProc

muVars == <<readers, waiting, announced, writer>>

MuInit == readers = {} /\ waiting = {} /\ announced = NoProc /\ writer = NoProc

MuTypeOK == /\ readers \subseteq Procs /\ waiting \subseteq Procs
            /\ announced \in Procs \cup {NoProc}
            /\ writer \in Procs \cup {NoProc}

CallRLock(p) ==
  /\ \/ announced = NoProc /\ readers' = readers \cup {p} /\ UNCHANGED waiting
     \/ announced # NoProc /\ waiting' = waiting \cup {p} /\ UNCHANGED readers
  /\ UNCHANGED <<announced, writer>>

HasRLock(p) == p \in readers

RUnlock(p) == /\ readers' = readers \ {p}
              /\ UNCHANGED <<waiting, announced, writer>>

CallLock(p) == /\ announced = NoProc
               /\ announced' = p
               /\ UNCHANGED <<readers, waiting, writer>>

TakeLock(p) == /\ announced = p /\ writer = NoProc /\ readers = {}
               /\ writer' = p
               /\ UNCHANGED <<readers, waiting, announced>>

Unlock(p) == /\ writer = p
             /\ writer' = NoProc
             /\ announced' = NoProc
             /\ readers' = readers \cup waiting
             /\ waiting' = {}
=============================================================================
