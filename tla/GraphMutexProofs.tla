-------------------------- MODULE GraphMutexProofs --------------------------
(***************************************************************************)
(* For any number of workers, iterations and requests: the mutex excludes, *)
(* and without test nodes the graph is free of races.                      *)
(***************************************************************************)
EXTENDS GraphMutex, TLAPS

MutexTypeOK ==
    /\ at \in [Proc -> Places]
    /\ section \in [Proc -> Nat]
    /\ announced \in Proc \cup {Nobody}

IndInv == MutexTypeOK /\ MutexInv

USE DEF Proc, Places, Reading, Inside

\* The mutex starts unlocked.
LEMMA InitInd == Init => IndInv
  BY MutexAssumption DEF Init, IndInv, MutexTypeOK, MutexInv

\* Where a goroutine is decides which lock its section asked for, and only a
\* step of its own changes the section.
LEMMA SectionKept ==
  ASSUME NEW p \in Proc, section'[p] = section[p]
  PROVE  Updates(p)' <=> Updates(p)
  BY DEF Updates, SectionOf

\* The lock that a section takes is the one that its purpose needs.
LEMMA LocksMatch == ASSUME NEW p \in Proc PROVE TakesWriteLock(p) <=> Updates(p)
  BY DEF TakesWriteLock, Updates

\* Every step of a goroutine keeps the mutex exclusive.
LEMMA StepInd ==
  ASSUME IndInv, NEW p \in Proc, Step(p)
  PROVE  IndInv'
<1> USE DEF IndInv, MutexTypeOK
<1>1. CASE RLock(p)
  <2>1. \A q \in Proc : Updates(q)' <=> Updates(q)
    BY <1>1, SectionKept DEF RLock
  <2>2. announced = Nobody => \A q \in Proc : at[q] # "writing"
    BY MutexAssumption DEF MutexInv
  <2> QED BY <1>1, <2>1, <2>2, LocksMatch DEF RLock, Goto, MayEnter, MutexInv
<1>2. CASE RLockAgain(p)
  <2>1. \A q \in Proc : Updates(q)' <=> Updates(q)
    BY <1>2, SectionKept DEF RLockAgain
  <2> QED BY <1>2, <2>1 DEF RLockAgain, Goto, MutexInv
<1>3. CASE RUnlock(p)
  <2>1. \A q \in Proc \ {p} : Updates(q)' <=> Updates(q)
    BY <1>3, SectionKept DEF RUnlock, MoveOn
  <2> QED BY <1>3, <2>1 DEF RUnlock, Goto, MoveOn, MutexInv
<1>4. CASE Lock(p)
  <2>1. \A q \in Proc : Updates(q)' <=> Updates(q)
    BY <1>4, SectionKept DEF Lock
  <2> QED BY <1>4, <2>1 DEF Lock, Goto, MayEnter, MutexInv
<1>5. CASE Announce(p)
  <2>1. \A q \in Proc : Updates(q)' <=> Updates(q)
    BY <1>5, SectionKept DEF Announce
  <2> QED BY <1>5, <2>1, MutexAssumption DEF Announce, Goto, MutexInv
<1>6. CASE EnterWrite(p)
  <2>1. \A q \in Proc : Updates(q)' <=> Updates(q)
    BY <1>6, SectionKept DEF EnterWrite
  <2> QED BY <1>6, <2>1 DEF EnterWrite, Goto, MutexInv
<1>7. CASE Unlock(p)
  <2>1. \A q \in Proc \ {p} : Updates(q)' <=> Updates(q)
    BY <1>7, SectionKept DEF Unlock, MoveOn
  <2>2. \A q \in Proc \ {p} : at[q] \notin {"parkedWrite", "writing"}
    BY <1>7 DEF Unlock, MutexInv
  <2>3. \A q \in Proc : at'[q] \notin {"parkedWrite", "writing"}
    BY <1>7, <2>2 DEF Unlock
  <2>4. MutexTypeOK'
    BY <1>7 DEF Unlock, MoveOn
  <2>5. \A q \in Proc : at'[q] \in Reading \cup {"parkedRead"} =>
            q # p /\ at[q] \in Reading \cup {"parkedRead"}
    BY <1>7 DEF Unlock
  <2> QED BY <2>1, <2>3, <2>4, <2>5 DEF MutexInv
<1>8. CASE SkipSection(p)
  <2>1. \A q \in Proc \ {p} : Updates(q)' <=> Updates(q)
    BY <1>8, SectionKept DEF SkipSection, MoveOn
  <2> QED BY <1>8, <2>1 DEF SkipSection, MayEnter, MoveOn, MutexInv
<1>9. CASE LeaveLoop(p)
  <2>1. \A q \in Proc \ {p} : Updates(q)' <=> Updates(q)
    BY <1>9, SectionKept DEF LeaveLoop
  <2>2. section' \in [Proc -> Nat]
    BY <1>9, MutexAssumption DEF LeaveLoop, LastSection
  <2> QED BY <1>9, <2>1, <2>2 DEF LeaveLoop, MayEnter, MutexInv
<1> QED
  BY <1>1, <1>2, <1>3, <1>4, <1>5, <1>6, <1>7, <1>8, <1>9 DEF Step

\* Nothing that happens between the goroutines leaves the invariant.
LEMMA NextInd == IndInv /\ [Next]_vars => IndInv'
<1> SUFFICES ASSUME IndInv, [Next]_vars PROVE IndInv'
  OBVIOUS
<1>1. CASE Next
  BY <1>1, StepInd DEF Next
<1>2. CASE UNCHANGED vars
  BY <1>2 DEF vars, IndInv, MutexTypeOK, MutexInv, Updates, SectionOf
<1> QED BY <1>1, <1>2

\* Whoever holds graphMutex for writing holds it alone, for every number of
\* workers, iterations and requests.
THEOREM MutexExcludes == Spec => []MutexInv
<1>1. IndInv => MutexInv
  BY DEF IndInv
<1> QED BY InitInd, NextInd, <1>1, PTL DEF Spec

\* When no test node makes ConvertNodesToRequests edit the graph under its read
\* lock, nobody ever reads or changes the graph while another changes it.
THEOREM NoRaceWithoutTests ==
  ASSUME WithTests = FALSE
  PROVE  Spec => []GraphRaceFree
<1>1. IndInv => GraphRaceFree
  <2> SUFFICES ASSUME IndInv, NEW p \in Proc, NEW q \in Proc,
                      p # q, at[p] \in Inside, Edits(p)
               PROVE  at[q] \notin Inside
    BY DEF GraphRaceFree
  <2>1. Updates(p)
    BY DEF Edits
  <2>2. at[p] = "writing"
    BY <2>1 DEF IndInv, MutexInv
  <2> QED BY <2>2 DEF IndInv, MutexInv
<1> QED BY InitInd, NextInd, <1>1, PTL DEF Spec
=============================================================================
