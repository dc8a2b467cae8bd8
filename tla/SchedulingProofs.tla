-------------------------- MODULE SchedulingProofs --------------------------
(***************************************************************************)
(* What decides who may run and what runs next: the file lock (module      *)
(* FileLock) and the factory's choice among the repositories' work items   *)
(* (module Portfolio).                                                     *)
(***************************************************************************)
EXTENDS FileLock, Portfolio, FiniteSetTheorems, SequenceTheorems, FunctionTheorems, WellFoundedInduction, TLAPS

-----------------------------------------------------------------------------
(***************************************************************************)
(* The file lock, for any number of processes and lock objects. First what *)
(* survives every race (RacingInv under Spec), then mutual exclusion for   *)
(* the careful use of the lock (CarefulInv under CarefulSpec).             *)
(***************************************************************************)

\* A new holder of a lineage adds one to the number of its holders.
LEMMA HoldersGrow ==
    ASSUME NEW o \in Obj, NEW t \in Token, TypeOK, token[o] = NoToken,
           token' = [token EXCEPT ![o] = t]
    PROVE  /\ Cardinality(Holders(t)') = Cardinality(Holders(t)) + 1
           /\ \A u \in Token : u # t => Holders(u)' = Holders(u)
  <1>1. token \in [Obj -> Token \cup {NoToken}]
    BY DEF TypeOK
  <1>2. Holders(t)' = Holders(t) \cup {o} /\ o \notin Holders(t)
    BY <1>1, FileLockAssumption DEF Holders
  <1>3. IsFiniteSet(Holders(t))
    BY FS_Subset, FileLockAssumption DEF Holders
  <1>4. Cardinality(Holders(t)') = Cardinality(Holders(t)) + 1
    BY <1>2, <1>3, FS_AddElement
  <1>5. \A u \in Token : u # t => Holders(u)' = Holders(u)
    BY <1>1, FileLockAssumption DEF Holders
  <1> QED
    BY <1>4, <1>5

\* A holder that leaves takes one from the number of holders of its lineage.
LEMMA HoldersShrink ==
    ASSUME NEW o \in Obj, NEW t \in Token, TypeOK, token[o] = t,
           token' = [token EXCEPT ![o] = NoToken]
    PROVE  /\ IsFiniteSet(Holders(t))
           /\ Holders(t)' = Holders(t) \ {o}
           /\ Cardinality(Holders(t)) \in Nat \ {0}
           /\ Cardinality(Holders(t)') = Cardinality(Holders(t)) - 1
           /\ \A u \in Token : u # t => Holders(u)' = Holders(u)
  <1>1. token \in [Obj -> Token \cup {NoToken}]
    BY DEF TypeOK
  <1>2. Holders(t)' = Holders(t) \ {o} /\ o \in Holders(t)
    BY <1>1, FileLockAssumption DEF Holders
  <1>3. IsFiniteSet(Holders(t))
    BY FS_Subset, FileLockAssumption DEF Holders
  <1>4. Cardinality(Holders(t) \ {o}) = Cardinality(Holders(t)) - 1
    BY <1>2, <1>3, FS_RemoveElement
  <1>5. Cardinality(Holders(t)) \in Nat /\ Cardinality(Holders(t)) # 0
    BY <1>2, <1>3, FS_CardinalityType, FS_EmptySet
  <1>6. \A u \in Token : u # t => Holders(u)' = Holders(u)
    BY <1>1, FileLockAssumption DEF Holders
  <1> QED
    BY <1>2, <1>3, <1>4, <1>5, <1>6

-----------------------------------------------------------------------------
LEMMA InitTypeOK == Init => TypeOK
  BY FileLockAssumption, ContentAssumption DEF Init, TypeOK, Acquiring, Releasing

\* Every step keeps every variable in its type.
LEMMA NextTypeOK == TypeOK /\ [Next]_vars => TypeOK'
  <1> SUFFICES ASSUME TypeOK, [Next]_vars PROVE TypeOK'
    OBVIOUS
  <1> USE FileLockAssumption, ContentAssumption DEF TypeOK, Goto, Acquiring, Releasing, Meta
  <1>1. ASSUME NEW o \in Obj, NEW t \in Handed(o), Join(o, t) PROVE TypeOK'
    BY <1>1 DEF Join, Handed
  <1>2. ASSUME NEW o \in Obj, Begin(o) \/ Exists(o) PROVE TypeOK'
    BY <1>2 DEF Begin, Exists
  <1>3. ASSUME NEW o \in Obj, Load(o) PROVE TypeOK'
    BY <1>3 DEF Load
  <1>4. ASSUME NEW o \in Obj, ClassifyOwner(o) PROVE TypeOK'
    BY <1>4 DEF ClassifyOwner
  <1>5. ASSUME NEW o \in Obj, Unlink(o) \/ Link(o) PROVE TypeOK'
    BY <1>5 DEF Unlink, Link, Self
  <1>6. ASSUME NEW o \in Obj, Register(o) PROVE TypeOK'
    BY <1>6 DEF Register, Fresh
  <1>7. ASSUME NEW o \in Obj, Leave(o) \/ LastOut(o) PROVE TypeOK'
    <2>1. depth' \in [Token -> Int]
      <3>1. CASE token[o] \in Token
        BY <3>1, <1>7 DEF Leave, LastOut
      <3>2. CASE token[o] \notin Token
        BY <3>2, <1>7 DEF Leave, LastOut
      <3> QED
        BY <3>1, <3>2
    <2> QED
      BY <2>1, <1>7 DEF Leave, LastOut
  <1>8. ASSUME NEW o \in Obj, ReleaseExists(o) \/ ReleaseLoad(o) \/ ReleaseUnlink(o)
        PROVE TypeOK'
    BY <1>8 DEF ReleaseExists, ReleaseLoad, ReleaseUnlink
  <1>9. CASE ReclaimRead \/ ReclaimUnlink
    BY <1>9 DEF ReclaimRead, ReclaimUnlink
  <1>10. ASSUME NEW p \in Proc, Crash(p) PROVE TypeOK'
    BY <1>10 DEF Crash
  <1>11. ASSUME NEW p \in Proc, Recycle(p) PROVE TypeOK'
    BY <1>11 DEF Recycle
  <1>12. CASE UNCHANGED vars
    BY <1>12 DEF vars
  <1> QED
    BY <1>1, <1>2, <1>3, <1>4, <1>5, <1>6, <1>7, <1>8, <1>9, <1>10, <1>11, <1>12
    DEF Next, Step

\* Every reachable state of the lock is well typed.
THEOREM TypeCorrect == Spec => []TypeOK
  BY InitTypeOK, NextTypeOK, PTL DEF Spec

-----------------------------------------------------------------------------
(* The parts of RacingInv, one lemma each. *)

\* The actions that touch no lineage: token, registry and depth stay.
Plain(o) ==
    \/ Begin(o) \/ Exists(o) \/ Load(o) \/ ClassifyOwner(o) \/ Unlink(o) \/ Link(o)
    \/ ReleaseExists(o) \/ ReleaseLoad(o) \/ ReleaseUnlink(o)

LEMMA PlainKeepsLineages ==
    ASSUME NEW o \in Obj, Plain(o), TypeOK
    PROVE  /\ UNCHANGED <<token, registry, depth, alive, born, human>>
           /\ pc[o] # "held" /\ pc'[o] # "held"
           /\ pc' = [pc EXCEPT ![o] = pc'[o]]
  BY DEF Plain, Begin, Exists, Load, ClassifyOwner, Unlink, Link,
         ReleaseExists, ReleaseLoad, ReleaseUnlink, Goto, TypeOK

\* Next, with the plain actions taken together.
LEMMA NextCases ==
    ASSUME [Next]_vars
    PROVE  \/ \E o \in Obj : Plain(o)
           \/ \E o \in Obj : \E t \in Handed(o) : Join(o, t)
           \/ \E o \in Obj : Register(o)
           \/ \E o \in Obj : Leave(o)
           \/ \E o \in Obj : LastOut(o)
           \/ ReclaimRead \/ ReclaimUnlink
           \/ \E p \in Proc : Crash(p)
           \/ \E p \in Proc : Recycle(p)
           \/ UNCHANGED vars
  BY DEF Next, Step, Plain

LEMMA HeldHasTokenStep ==
    ASSUME TypeOK, HeldHasToken, [Next]_vars
    PROVE  HeldHasToken'
  <1> USE FileLockAssumption DEF HeldHasToken, TypeOK
  <1>1. ASSUME NEW o \in Obj, Plain(o) PROVE HeldHasToken'
    BY <1>1, PlainKeepsLineages
  <1>2. ASSUME NEW o \in Obj, NEW t \in Handed(o), Join(o, t) PROVE HeldHasToken'
    BY <1>2 DEF Join, Goto
  <1>3. ASSUME NEW o \in Obj, Register(o) PROVE HeldHasToken'
    BY <1>3 DEF Register, Fresh, Goto
  <1>4. ASSUME NEW o \in Obj, Leave(o) \/ LastOut(o) PROVE HeldHasToken'
    BY <1>4 DEF Leave, LastOut, Goto
  <1>5. ASSUME NEW p \in Proc, Crash(p) PROVE HeldHasToken'
    BY <1>5 DEF Crash
  <1>6. ASSUME NEW p \in Proc, Recycle(p) PROVE HeldHasToken'
    BY <1>6 DEF Recycle
  <1>7. CASE ReclaimRead \/ ReclaimUnlink \/ UNCHANGED vars
    BY <1>7 DEF ReclaimRead, ReclaimUnlink, vars
  <1> QED
    BY <1>1, <1>2, <1>3, <1>4, <1>5, <1>6, <1>7, NextCases

LEMMA LineageStep ==
    ASSUME TypeOK, HeldHasToken, LineageInProcess, [Next]_vars
    PROVE  LineageInProcess'
  <1> USE FileLockAssumption DEF LineageInProcess, TypeOK
  <1>1. ASSUME NEW o \in Obj, Plain(o) PROVE LineageInProcess'
    BY <1>1, PlainKeepsLineages
  <1>2. ASSUME NEW o \in Obj, NEW t \in Handed(o), Join(o, t) PROVE LineageInProcess'
    <2>1. PICK q \in Obj : ProcOf[q] = ProcOf[o] /\ token[q] = t /\ t # NoToken
      BY <1>2 DEF Join, Handed
    <2> QED
      BY <1>2, <2>1 DEF Join
  <1>3. ASSUME NEW o \in Obj, Register(o) PROVE LineageInProcess'
    BY <1>3 DEF Register, Fresh
  <1>4. ASSUME NEW o \in Obj, Leave(o) \/ LastOut(o) PROVE LineageInProcess'
    BY <1>4 DEF Leave, LastOut
  <1>5. ASSUME NEW p \in Proc, Crash(p) PROVE LineageInProcess'
    BY <1>5 DEF Crash
  <1>6. ASSUME NEW p \in Proc, Recycle(p) PROVE LineageInProcess'
    BY <1>6 DEF Recycle
  <1>7. CASE ReclaimRead \/ ReclaimUnlink \/ UNCHANGED vars
    BY <1>7 DEF ReclaimRead, ReclaimUnlink, vars
  <1> QED
    BY <1>1, <1>2, <1>3, <1>4, <1>5, <1>6, <1>7, NextCases

LEMMA BirthsStep ==
    ASSUME TypeOK, BirthsPast, [Next]_vars
    PROVE  BirthsPast'
  <1> USE FileLockAssumption, ContentAssumption DEF BirthsPast, TypeOK, Meta
  <1>1. ASSUME NEW o \in Obj, Plain(o) PROVE BirthsPast'
    <2>1. UNCHANGED born
      BY <1>1, PlainKeepsLineages
    <2>2. CASE Begin(o) \/ Exists(o) \/ ClassifyOwner(o) \/ ReleaseExists(o) \/ ReleaseLoad(o)
      BY <2>1, <2>2 DEF Begin, Exists, ClassifyOwner, ReleaseExists, ReleaseLoad
    <2>3. CASE Load(o)
      BY <2>1, <2>3 DEF Load
    <2>4. CASE Unlink(o) \/ ReleaseUnlink(o)
      BY <2>1, <2>4 DEF Unlink, ReleaseUnlink
    <2>5. CASE Link(o)
      BY <2>1, <2>5 DEF Link, Self
    <2> QED
      BY <1>1, <2>2, <2>3, <2>4, <2>5 DEF Plain
  <1>2. ASSUME NEW o \in Obj, NEW t \in Handed(o), Join(o, t) PROVE BirthsPast'
    BY <1>2 DEF Join
  <1>3. ASSUME NEW o \in Obj, Register(o) PROVE BirthsPast'
    BY <1>3 DEF Register
  <1>4. ASSUME NEW o \in Obj, Leave(o) \/ LastOut(o) PROVE BirthsPast'
    BY <1>4 DEF Leave, LastOut
  <1>5. ASSUME NEW p \in Proc, Crash(p) PROVE BirthsPast'
    BY <1>5 DEF Crash
  <1>6. ASSUME NEW p \in Proc, Recycle(p) PROVE BirthsPast'
    BY <1>6 DEF Recycle
  <1>7. CASE ReclaimRead \/ ReclaimUnlink \/ UNCHANGED vars
    BY <1>7 DEF ReclaimRead, ReclaimUnlink, vars
  <1> QED
    BY <1>1, <1>2, <1>3, <1>4, <1>5, <1>6, <1>7, NextCases

LEMMA LiveStep ==
    ASSUME TypeOK, OnlyLiveActs, [Next]_vars
    PROVE  OnlyLiveActs'
  <1> USE FileLockAssumption DEF OnlyLiveActs, TypeOK
  <1>1. ASSUME NEW o \in Obj, Plain(o) PROVE OnlyLiveActs'
    <2>1. alive[ProcOf[o]]
      BY <1>1 DEF Plain, Begin, Exists, Load, ClassifyOwner, Unlink, Link,
                  ReleaseExists, ReleaseLoad, ReleaseUnlink
    <2> QED
      BY <1>1, <2>1, PlainKeepsLineages
  <1>2. ASSUME NEW o \in Obj, NEW t \in Handed(o), Join(o, t) PROVE OnlyLiveActs'
    BY <1>2 DEF Join, Goto
  <1>3. ASSUME NEW o \in Obj, Register(o) PROVE OnlyLiveActs'
    BY <1>3 DEF Register, Goto
  <1>4. ASSUME NEW o \in Obj, Leave(o) \/ LastOut(o) PROVE OnlyLiveActs'
    BY <1>4 DEF Leave, LastOut, Goto
  <1>5. ASSUME NEW p \in Proc, Crash(p) PROVE OnlyLiveActs'
    BY <1>5 DEF Crash
  <1>6. ASSUME NEW p \in Proc, Recycle(p) PROVE OnlyLiveActs'
    BY <1>6 DEF Recycle
  <1>7. CASE ReclaimRead \/ ReclaimUnlink \/ UNCHANGED vars
    BY <1>7 DEF ReclaimRead, ReclaimUnlink, vars
  <1> QED
    BY <1>1, <1>2, <1>3, <1>4, <1>5, <1>6, <1>7, NextCases

\* The depth of a lineage stays the number of its holders: re-entry and release
\* are atomic under _OWNERSHIP_GUARD, and a crash ends whole lineages.
LEMMA DepthStep ==
    ASSUME TypeOK, HeldHasToken, LineageInProcess, DepthCountsHolders, [Next]_vars
    PROVE  DepthCountsHolders'
  <1> SUFFICES ASSUME NEW u \in Token, Holders(u)' # {}
               PROVE  depth'[u] = Cardinality(Holders(u)')
    BY DEF DepthCountsHolders
  <1>u. Holders(u) # {} => depth[u] = Cardinality(Holders(u))
    BY DEF DepthCountsHolders
  <1>1. ASSUME NEW o \in Obj, Plain(o) PROVE depth'[u] = Cardinality(Holders(u)')
    BY <1>1, <1>u, PlainKeepsLineages DEF Holders
  <1>2. ASSUME NEW o \in Obj, NEW t \in Handed(o), Join(o, t)
        PROVE depth'[u] = Cardinality(Holders(u)')
    <2>1. t \in Token /\ Holders(t) # {} /\ token[o] = NoToken
      BY <1>2, FileLockAssumption DEF Join, Handed, Holders, HeldHasToken, TypeOK
    <2>2. depth[t] = Cardinality(Holders(t))
      BY <2>1 DEF DepthCountsHolders
    <2>3. token' = [token EXCEPT ![o] = t] /\ depth' = [depth EXCEPT ![t] = depth[t] + 1]
      BY <1>2 DEF Join
    <2>4. /\ Cardinality(Holders(t)') = Cardinality(Holders(t)) + 1
          /\ u # t => Holders(u)' = Holders(u)
      BY <2>1, <2>3, HoldersGrow
    <2> QED
      BY <1>u, <2>1, <2>2, <2>3, <2>4 DEF TypeOK
  <1>3. ASSUME NEW o \in Obj, Register(o) PROVE depth'[u] = Cardinality(Holders(u)')
    <2>1. PICK t \in Fresh : token' = [token EXCEPT ![o] = t] /\ depth' = [depth EXCEPT ![t] = 1]
      BY <1>3 DEF Register
    <2>2. t \in Token /\ Holders(t) = {} /\ token[o] = NoToken
      BY <1>3, <2>1 DEF Fresh, Holders, Register, HeldHasToken, TypeOK
    <2>3. /\ Cardinality(Holders(t)') = Cardinality(Holders(t)) + 1
          /\ u # t => Holders(u)' = Holders(u)
      BY <2>1, <2>2, HoldersGrow
    <2>4. Cardinality(Holders(t)') = 1
      BY <2>2, <2>3, FS_EmptySet
    <2> QED
      BY <1>u, <2>1, <2>2, <2>3, <2>4 DEF TypeOK
  <1>4. ASSUME NEW o \in Obj, Leave(o) \/ LastOut(o)
        PROVE depth'[u] = Cardinality(Holders(u)')
    <2> DEFINE t == token[o]
    <2>1. t \in Token /\ o \in Holders(t)
      BY <1>4 DEF Leave, LastOut, HeldHasToken, TypeOK, Holders
    <2>2. /\ token' = [token EXCEPT ![o] = NoToken]
          /\ depth' = [depth EXCEPT ![t] = depth[t] - 1]
      BY <1>4 DEF Leave, LastOut
    <2>3. \A w \in Token : w = t =>
             Cardinality(Holders(w)') = Cardinality(Holders(w)) - 1
      BY <2>2, HoldersShrink
    <2>4. u # t => Holders(u)' = Holders(u)
      BY <2>1, <2>2, HoldersShrink
    <2>5. depth[t] = Cardinality(Holders(t))
      BY <2>1 DEF DepthCountsHolders
    <2>6. CASE u = t
      BY <2>1, <2>2, <2>3, <2>5, <2>6 DEF TypeOK
    <2>7. CASE u # t
      BY <1>u, <2>1, <2>2, <2>4, <2>7 DEF TypeOK
    <2> QED
      BY <2>6, <2>7
  <1>5. ASSUME NEW p \in Proc, Crash(p) PROVE depth'[u] = Cardinality(Holders(u)')
    <2>1. \A o \in Obj : token[o] = u => ProcOf[o] # p
      BY <1>5, FileLockAssumption DEF Crash, Holders, LineageInProcess, TypeOK
    <2>2. Holders(u)' = Holders(u)
      BY <1>5, <2>1, FileLockAssumption DEF Crash, Holders, TypeOK
    <2>3. depth'[u] = depth[u]
      BY <1>5, <2>1 DEF Crash, TypeOK
    <2> QED
      BY <1>u, <2>2, <2>3
  <1>6. ASSUME NEW p \in Proc, Recycle(p) PROVE depth'[u] = Cardinality(Holders(u)')
    BY <1>6, <1>u DEF Recycle, Holders
  <1>7. CASE ReclaimRead \/ ReclaimUnlink \/ UNCHANGED vars
    BY <1>7, <1>u DEF ReclaimRead, ReclaimUnlink, vars, Holders
  <1> QED
    BY <1>1, <1>2, <1>3, <1>4, <1>5, <1>6, <1>7, NextCases

\* No step leaves the file of a running process behind: an object gives its
\* possession up only by removing the file, by finding it gone or another's, or
\* to another holder of its lineage.
LEMMA OrphanStep ==
    ASSUME TypeOK, HeldHasToken, LineageInProcess, BirthsPast, OnlyLiveActs,
           DepthCountsHolders, NoOrphan, [Next]_vars
    PROVE  NoOrphan'
  <1> DEFINE Covers(o) == ProcOf[o] = file.pid /\ pc[o] \in {"register", "held"} \cup Releasing
  <1> SUFFICES ASSUME (file \in Meta)', ~Dead(file)' PROVE (\E o \in Obj : Covers(o))'
    BY DEF NoOrphan
  <1>c. file \in Meta /\ ~Dead(file) => \E o \in Obj : Covers(o)
    BY DEF NoOrphan
  <1> USE FileLockAssumption, ContentAssumption DEF Dead, TypeOK, Releasing
  <1>1. ASSUME NEW o \in Obj, Plain(o) PROVE (\E q \in Obj : Covers(q))'
    <2>0. UNCHANGED <<alive, born>>
      BY <1>1, PlainKeepsLineages
    <2>1. CASE Begin(o) \/ Exists(o) \/ Load(o) \/ ClassifyOwner(o)
      BY <1>c, <2>0, <2>1 DEF Begin, Exists, Load, ClassifyOwner, Goto
    <2>2. CASE Unlink(o) \/ ReleaseUnlink(o)
      BY <2>2 DEF Unlink, ReleaseUnlink
    <2>3. CASE Link(o)
      <3>1. CASE file = NoFile
        BY <2>3, <3>1 DEF Link, Self, Goto
      <3>2. CASE file # NoFile
        BY <1>c, <2>0, <2>3, <3>2 DEF Link, Goto
      <3> QED
        BY <3>1, <3>2
    <2>4. CASE ReleaseExists(o)
      BY <1>c, <2>0, <2>4 DEF ReleaseExists, Goto
    <2>5. CASE ReleaseLoad(o)
      BY <1>c, <2>0, <2>5 DEF ReleaseLoad, Goto
    <2> QED
      BY <1>1, <2>1, <2>2, <2>3, <2>4, <2>5 DEF Plain
  <1>2. ASSUME NEW o \in Obj, NEW t \in Handed(o), Join(o, t) PROVE (\E q \in Obj : Covers(q))'
    BY <1>2, <1>c DEF Join, Goto
  <1>3. ASSUME NEW o \in Obj, Register(o) PROVE (\E q \in Obj : Covers(q))'
    BY <1>3, <1>c DEF Register, Goto
  <1>4. ASSUME NEW o \in Obj, Leave(o) PROVE (\E q \in Obj : Covers(q))'
    <2>1. token[o] \in Token /\ o \in Holders(token[o])
      BY <1>4 DEF Leave, HeldHasToken, Holders
    <2>2. IsFiniteSet(Holders(token[o]))
      BY FS_Subset DEF Holders
    <2>3. Cardinality(Holders(token[o])) > 1
      BY <1>4, <2>1 DEF Leave, DepthCountsHolders
    <2>s. Cardinality({o}) = 1
      BY FS_Singleton, Zenon
    <2>4. Holders(token[o]) # {o}
      <3> HIDE FileLockAssumption, ContentAssumption DEF Dead, TypeOK, Releasing
      <3> HIDE DEF Covers
      <3>1. CASE Holders(token[o]) = {o}
        BY ONLY <2>3, <2>s, <3>1, SMT
      <3> QED
        BY <3>1
    <2>5. PICK q \in Obj : q # o /\ token[q] = token[o]
      BY <2>1, <2>4 DEF Holders
    <2>6. ProcOf[q] = ProcOf[o] /\ pc[q] = "held"
      BY <2>1, <2>5 DEF LineageInProcess, HeldHasToken
    <2> QED
      BY <1>4, <1>c, <2>5, <2>6 DEF Leave, Goto
  <1>5. ASSUME NEW o \in Obj, LastOut(o) PROVE (\E q \in Obj : Covers(q))'
    BY <1>5, <1>c DEF LastOut, Goto
  <1>6. ASSUME NEW p \in Proc, Crash(p) PROVE (\E q \in Obj : Covers(q))'
    <2>1. file' = file /\ file.pid \in Proc /\ file.pid # p
      BY <1>6 DEF Crash, Meta
    <2>2. PICK q \in Obj : Covers(q)
      BY <1>6, <1>c, <2>1 DEF Crash
    <2> QED
      BY <1>6, <2>1, <2>2 DEF Crash
  <1>7. ASSUME NEW p \in Proc, Recycle(p) PROVE (\E q \in Obj : Covers(q))'
    <2>1. file' = file /\ file.pid \in Proc /\ file.pid # p
      BY <1>7 DEF Recycle, Meta, BirthsPast
    <2> QED
      BY <1>7, <1>c, <2>1 DEF Recycle
  <1>8. CASE ReclaimRead \/ ReclaimUnlink \/ UNCHANGED vars
    BY <1>8, <1>c DEF ReclaimRead, ReclaimUnlink, vars
  <1> QED
    BY <1>1, <1>2, <1>3, <1>4, <1>5, <1>6, <1>7, <1>8, NextCases

-----------------------------------------------------------------------------
LEMMA InitRacing == Init => RacingInv
  <1> SUFFICES ASSUME Init PROVE RacingInv
    OBVIOUS
  <1>1. TypeOK
    BY InitTypeOK
  <1>2. HeldHasToken /\ LineageInProcess /\ OnlyLiveActs /\ BirthsPast /\ NoOrphan
    BY FileLockAssumption, ContentAssumption
    DEF Init, HeldHasToken, LineageInProcess, OnlyLiveActs, BirthsPast, NoOrphan
  <1>3. DepthCountsHolders
    BY FileLockAssumption DEF Init, DepthCountsHolders, Holders
  <1> QED
    BY <1>1, <1>2, <1>3 DEF RacingInv

LEMMA NextRacing == RacingInv /\ [Next]_vars => RacingInv'
  BY NextTypeOK, HeldHasTokenStep, LineageStep, BirthsStep, LiveStep, DepthStep, OrphanStep
  DEF RacingInv

\* However acquisitions, releases and crashes race, the depth of a lineage is
\* the number of its holders.
THEOREM DepthCorrect == Spec => []DepthCountsHolders
  <1>1. RacingInv => DepthCountsHolders
    BY DEF RacingInv
  <1> QED
    BY <1>1, InitRacing, NextRacing, PTL DEF Spec

\* However acquisitions, releases and crashes race, no file that names a running
\* process is left without an object of that process to remove it.
THEOREM NoOrphanCorrect == Spec => []NoOrphan
  <1>1. RacingInv => NoOrphan
    BY DEF RacingInv
  <1> QED
    BY <1>1, InitRacing, NextRacing, PTL DEF Spec

-----------------------------------------------------------------------------
(* Mutual exclusion when acquisitions and reclamations do not overlap. *)

\* A careful step is a step.
LEMMA CarefulIsNext == [CarefulNext]_vars => [Next]_vars
  BY DEF CarefulNext, Next

\* CarefulNext, one disjunct per kind of step.
LEMMA CarefulCases ==
    ASSUME [CarefulNext]_vars
    PROVE  \/ \E o \in Obj : Quiet /\ Begin(o)
           \/ \E o \in Obj : Plain(o) /\ pc[o] # "idle"
           \/ \E o \in Obj : \E t \in Handed(o) : Join(o, t)
           \/ \E o \in Obj : Register(o)
           \/ \E o \in Obj : Leave(o)
           \/ \E o \in Obj : LastOut(o)
           \/ Quiet /\ file \in Meta /\ Dead(file) /\ ReclaimRead
           \/ ReclaimUnlink
           \/ \E p \in Proc : Crash(p)
           \/ \E p \in Proc : Recycle(p)
           \/ UNCHANGED vars
  <1>1. ASSUME NEW o \in Obj,
               \/ Exists(o) \/ Load(o) \/ ClassifyOwner(o) \/ Unlink(o) \/ Link(o)
               \/ ReleaseExists(o) \/ ReleaseLoad(o) \/ ReleaseUnlink(o)
        PROVE  Plain(o) /\ pc[o] # "idle"
    BY <1>1 DEF Plain, Exists, Load, ClassifyOwner, Unlink, Link,
                ReleaseExists, ReleaseLoad, ReleaseUnlink
  <1> QED
    BY <1>1 DEF CarefulNext, Step

\* One acquisition or reclamation at a time: a step begins one only when none is
\* under way.
LEMMA OneAcquirerStep ==
    ASSUME TypeOK, OneAcquirer, [CarefulNext]_vars
    PROVE  OneAcquirer'
  <1> USE FileLockAssumption DEF OneAcquirer, TypeOK, Acquiring, Releasing
  <1>1. ASSUME NEW o \in Obj, Quiet, Begin(o) PROVE OneAcquirer'
    BY <1>1 DEF Quiet, Begin, Goto
  <1>2. ASSUME NEW o \in Obj, Plain(o), pc[o] # "idle" PROVE OneAcquirer'
    <2>1. pc'[o] \in Acquiring => pc[o] \in Acquiring
      BY <1>2 DEF Plain, Begin, Exists, Load, ClassifyOwner, Unlink, Link,
                  ReleaseExists, ReleaseLoad, ReleaseUnlink, Goto
    <2> QED
      BY <1>2, <2>1, PlainKeepsLineages
  <1>3. ASSUME NEW o \in Obj, NEW t \in Handed(o), Join(o, t) PROVE OneAcquirer'
    BY <1>3 DEF Join, Goto
  <1>4. ASSUME NEW o \in Obj, Register(o) PROVE OneAcquirer'
    BY <1>4 DEF Register, Goto
  <1>5. ASSUME NEW o \in Obj, Leave(o) \/ LastOut(o) PROVE OneAcquirer'
    BY <1>5 DEF Leave, LastOut, Goto
  <1>6. CASE Quiet /\ file \in Meta /\ Dead(file) /\ ReclaimRead
    BY <1>6 DEF Quiet, ReclaimRead
  <1>7. ASSUME NEW p \in Proc, Crash(p) PROVE OneAcquirer'
    BY <1>7 DEF Crash
  <1>8. ASSUME NEW p \in Proc, Recycle(p) PROVE OneAcquirer'
    BY <1>8 DEF Recycle
  <1>9. CASE ReclaimUnlink \/ UNCHANGED vars
    BY <1>9 DEF ReclaimUnlink, vars
  <1> QED
    BY <1>1, <1>2, <1>3, <1>4, <1>5, <1>6, <1>7, <1>8, <1>9, CarefulCases

\* While an object is about to unlink, nobody else publishes a file and a dead
\* owner stays dead.
LEMMA UnlinkStep ==
    ASSUME TypeOK, BirthsPast, OneAcquirer, UnlinkIsSafe, [CarefulNext]_vars
    PROVE  UnlinkIsSafe'
  <1> USE FileLockAssumption, ContentAssumption
      DEF UnlinkIsSafe, TypeOK, Acquiring, Releasing, Meta, Dead
  <1>1. ASSUME NEW o \in Obj, Quiet, Begin(o) PROVE UnlinkIsSafe'
    BY <1>1 DEF Begin, Goto
  <1>2. ASSUME NEW o \in Obj, Plain(o), pc[o] # "idle" PROVE UnlinkIsSafe'
    <2>0. UNCHANGED <<alive, born, human>>
      BY <1>2, PlainKeepsLineages
    <2>1. CASE Exists(o) \/ ReleaseExists(o) \/ ReleaseLoad(o)
      BY <2>0, <2>1 DEF Exists, ReleaseExists, ReleaseLoad, Goto
    <2>2. CASE Load(o)
      BY <2>0, <2>2 DEF Load, Goto, OneAcquirer
    <2>3. CASE ClassifyOwner(o)
      <3>1. pc'[o] = "unlink" => (file \in Meta => Dead(file))
        BY <2>3 DEF ClassifyOwner, ClassifyFor, Classify, Goto
      <3>2. UNCHANGED file /\ \A q \in Obj : q # o => pc'[q] = pc[q] /\ seen'[q] = seen[q]
        BY <2>3 DEF ClassifyOwner, Goto
      <3>3. pc'[o] # "classify"
        BY <2>3 DEF ClassifyOwner, Goto
      <3> QED
        BY <2>0, <3>1, <3>2, <3>3
    <2>4. CASE Unlink(o) \/ ReleaseUnlink(o)
      BY <2>0, <2>4 DEF Unlink, ReleaseUnlink, Goto
    <2>5. CASE Link(o)
      <3>1. \A q \in Obj : pc'[q] \notin {"unlink", "classify"}
        BY <2>5 DEF Link, Goto, OneAcquirer
      <3>2. human # "unlink"
        BY <2>5 DEF Link, OneAcquirer
      <3> QED
        BY <2>0, <3>1, <3>2
    <2> QED
      BY <1>2, <2>1, <2>2, <2>3, <2>4, <2>5 DEF Plain, Begin
  <1>3. ASSUME NEW o \in Obj, NEW t \in Handed(o), Join(o, t) PROVE UnlinkIsSafe'
    BY <1>3 DEF Join, Goto
  <1>4. ASSUME NEW o \in Obj, Register(o) PROVE UnlinkIsSafe'
    BY <1>4 DEF Register, Goto
  <1>5. ASSUME NEW o \in Obj, Leave(o) \/ LastOut(o) PROVE UnlinkIsSafe'
    BY <1>5 DEF Leave, LastOut, Goto
  <1>6. CASE Quiet /\ file \in Meta /\ Dead(file) /\ ReclaimRead
    BY <1>6 DEF ReclaimRead
  <1>7. ASSUME NEW p \in Proc, Crash(p) PROVE UnlinkIsSafe'
    BY <1>7 DEF Crash
  <1>8. ASSUME NEW p \in Proc, Recycle(p) PROVE UnlinkIsSafe'
    BY <1>8 DEF Recycle, BirthsPast
  <1>9. CASE ReclaimUnlink \/ UNCHANGED vars
    BY <1>9 DEF ReclaimUnlink, vars
  <1> QED
    BY <1>1, <1>2, <1>3, <1>4, <1>5, <1>6, <1>7, <1>8, <1>9, CarefulCases

\* While anybody is in possession the file names a live process, so nobody who
\* is about to unlink or link can be there.
LEMMA PossessionExcludes ==
    ASSUME TypeOK, OnlyLiveActs, UnlinkIsSafe, PossessorOwnsFile,
           NEW q \in Obj, pc[q] \in InPossession
    PROVE  /\ file = Self(q) /\ file \in Meta /\ ~Dead(file) /\ file # NoFile
           /\ \A o \in Obj : pc[o] # "unlink"
           /\ human # "unlink"
  <1>1. file = Self(q) /\ alive[ProcOf[q]]
    BY DEF PossessorOwnsFile, OnlyLiveActs, InPossession, Releasing
  <1>2. file \in Meta /\ ~Dead(file) /\ file # NoFile
    BY <1>1, FileLockAssumption, ContentAssumption DEF Self, Meta, Dead, TypeOK
  <1> QED
    BY <1>1, <1>2 DEF UnlinkIsSafe

LEMMA PossessionStep ==
    ASSUME CarefulInv, [CarefulNext]_vars
    PROVE  PossessorOwnsFile'
  <1> USE FileLockAssumption, ContentAssumption DEF CarefulInv, RacingInv
  <1> SUFFICES ASSUME NEW q \in Obj, pc'[q] \in InPossession PROVE file' = Self(q)'
    BY DEF PossessorOwnsFile
  <1>1. ASSUME NEW o \in Obj, Quiet, Begin(o) PROVE file' = Self(q)'
    BY <1>1 DEF Begin, Goto, PossessorOwnsFile, Self, InPossession, Releasing, TypeOK
  <1>2. ASSUME NEW o \in Obj, Plain(o), pc[o] # "idle" PROVE file' = Self(q)'
    <2>0. UNCHANGED <<alive, born>> /\ Self(q)' = Self(q)
      BY <1>2, PlainKeepsLineages DEF Self
    <2>1. CASE Exists(o) \/ Load(o) \/ ClassifyOwner(o) \/ ReleaseExists(o) \/ ReleaseLoad(o)
      BY <2>0, <2>1 DEF Exists, Load, ClassifyOwner, ReleaseExists, ReleaseLoad, Goto,
                        PossessorOwnsFile, InPossession, Releasing, TypeOK
    <2>2. CASE Unlink(o)
      <3>1. pc[q] \in InPossession
        BY <2>2 DEF Unlink, Goto, InPossession, Releasing, TypeOK
      <3> QED
        BY <2>2, <3>1, PossessionExcludes DEF Unlink
    <2>3. CASE Link(o)
      <3>1. CASE file = NoFile
        <4>1. pc[q] \notin InPossession
          BY <3>1, PossessionExcludes
        <4>2. q = o
          BY <2>3, <4>1 DEF Link, Goto, TypeOK
        <4> QED
          BY <2>0, <2>3, <3>1, <4>2 DEF Link
      <3>2. CASE file # NoFile
        BY <2>0, <2>3, <3>2 DEF Link, Goto, PossessorOwnsFile, InPossession, Releasing, TypeOK
      <3> QED
        BY <3>1, <3>2
    <2>4. CASE ReleaseUnlink(o)
      <3>1. pc[q] \in InPossession /\ q # o
        BY <2>4 DEF ReleaseUnlink, Goto, InPossession, Releasing, TypeOK
      <3> QED
        BY <2>4, <3>1 DEF ReleaseUnlink, Alone, Releasing
    <2> QED
      BY <1>2, <2>1, <2>2, <2>3, <2>4 DEF Plain, Begin
  <1>3. ASSUME NEW o \in Obj, NEW t \in Handed(o), Join(o, t) PROVE file' = Self(q)'
    <2>1. PICK r \in Obj : ProcOf[r] = ProcOf[o] /\ token[r] = t /\ t # NoToken
      BY <1>3 DEF Join, Handed
    <2>2. file = Self(r) /\ Self(o) = Self(r)
      BY <2>1 DEF PossessorOwnsFile, HeldHasToken, InPossession, Self
    <2> QED
      BY <1>3, <2>2 DEF Join, Goto, PossessorOwnsFile, Self, TypeOK
  <1>4. ASSUME NEW o \in Obj, Register(o) PROVE file' = Self(q)'
    BY <1>4 DEF Register, Goto, PossessorOwnsFile, Self, InPossession, TypeOK
  <1>5. ASSUME NEW o \in Obj, Leave(o) \/ LastOut(o) PROVE file' = Self(q)'
    BY <1>5 DEF Leave, LastOut, Goto, PossessorOwnsFile, Self, InPossession, TypeOK
  <1>6. CASE Quiet /\ file \in Meta /\ Dead(file) /\ ReclaimRead
    BY <1>6 DEF ReclaimRead, PossessorOwnsFile, Self
  <1>7. CASE ReclaimUnlink
    <2>1. pc[q] \in InPossession /\ human = "unlink"
      BY <1>7 DEF ReclaimUnlink
    <2> QED
      BY <2>1, PossessionExcludes
  <1>8. ASSUME NEW p \in Proc, Crash(p) PROVE file' = Self(q)'
    BY <1>8 DEF Crash, PossessorOwnsFile, Self, InPossession, Releasing, TypeOK
  <1>9. ASSUME NEW p \in Proc, Recycle(p) PROVE file' = Self(q)'
    <2>1. ProcOf[q] # p
      BY <1>9 DEF Recycle, OnlyLiveActs, InPossession, Releasing
    <2> QED
      BY <1>9, <2>1 DEF Recycle, PossessorOwnsFile, Self, TypeOK
  <1>10. CASE UNCHANGED vars
    BY <1>10 DEF vars, PossessorOwnsFile, Self
  <1> QED
    BY <1>1, <1>2, <1>3, <1>4, <1>5, <1>6, <1>7, <1>8, <1>9, <1>10, CarefulCases

\* The last holder out leaves nobody of its process behind in possession.
LEMMA LastOutIsLast ==
    ASSUME CarefulInv, NEW o \in Obj, LastOut(o), NEW b \in Obj, pc[b] \in InPossession
    PROVE  b = o
  <1> USE FileLockAssumption, ContentAssumption DEF CarefulInv, RacingInv
  <1>1. pc[o] = "held" /\ depth[token[o]] <= 1 /\ token[o] \in Token
    BY DEF LastOut, HeldHasToken, TypeOK
  <1>2. CASE pc[b] = "held"
    <2>1. ProcOf[b] = ProcOf[o]
      BY <1>1, <1>2 DEF PossessorOwnsFile, InPossession, Self
    <2>2. token[b] = token[o]
      BY <1>1, <1>2, <2>1 DEF RegistryNamesHolders, TypeOK
    <2>3. o \in Holders(token[o]) /\ b \in Holders(token[o])
      BY <2>2 DEF Holders
    <2>4. IsFiniteSet(Holders(token[o]))
      BY FS_Subset DEF Holders
    <2>5. Cardinality(Holders(token[o])) <= 1
      BY <1>1, <2>3 DEF DepthCountsHolders
    <2>6. Cardinality(Holders(token[o])) \in Nat /\ Cardinality(Holders(token[o])) # 0
      BY <2>3, <2>4, FS_CardinalityType, FS_EmptySet
    <2>7. Cardinality(Holders(token[o])) = 1
      BY <2>5, <2>6
    <2>8. \E x : Holders(token[o]) = {x}
      BY <2>4, <2>7, FS_Singleton
    <2> QED
      BY <2>3, <2>8
  <1>3. CASE pc[b] # "held"
    BY <1>1, <1>3 DEF Alone, InPossession
  <1> QED
    BY <1>2, <1>3

LEMMA AloneStep ==
    ASSUME CarefulInv, [CarefulNext]_vars
    PROVE  Alone'
  <1> USE FileLockAssumption, ContentAssumption DEF CarefulInv, RacingInv
  <1> DEFINE Ending(x) == x \in {"register"} \cup Releasing
  <1> SUFFICES ASSUME NEW a \in Obj, NEW b \in Obj,
                      Ending(pc'[a]), pc'[b] \in InPossession
               PROVE  a = b
    BY DEF Alone
  <1>a. Ending(pc[a]) /\ pc[b] \in InPossession => a = b
    BY DEF Alone
  <1>1. ASSUME NEW o \in Obj, Quiet, Begin(o) PROVE a = b
    BY <1>1, <1>a DEF Begin, Goto, InPossession, Releasing, TypeOK
  <1>2. ASSUME NEW o \in Obj, Plain(o), pc[o] # "idle" PROVE a = b
    <2>1. CASE Link(o) /\ file = NoFile
      <3>1. \A q \in Obj : pc[q] \notin InPossession
        BY <2>1, PossessionExcludes
      <3> QED
        BY <2>1, <3>1 DEF Link, Goto, InPossession, Releasing, TypeOK
    <2>2. CASE ~(Link(o) /\ file = NoFile)
      <3>1. /\ Ending(pc'[o]) => Ending(pc[o])
            /\ pc'[o] \in InPossession => pc[o] \in InPossession
        BY <1>2, <2>2 DEF Plain, Begin, Exists, Load, ClassifyOwner, Unlink, Link,
              ReleaseExists, ReleaseLoad, ReleaseUnlink, Goto, InPossession, Releasing, TypeOK
      <3> QED
        BY <1>2, <1>a, <3>1, PlainKeepsLineages DEF TypeOK
    <2> QED
      BY <2>1, <2>2
  <1>3. ASSUME NEW o \in Obj, NEW t \in Handed(o), Join(o, t) PROVE a = b
    <2>1. PICK r \in Obj : token[r] = t /\ t # NoToken
      BY <1>3 DEF Join, Handed
    <2>2. pc[r] = "held"
      BY <2>1 DEF HeldHasToken
    <2>3. Ending(pc[a])
      BY <1>3 DEF Join, Goto, Releasing, TypeOK
    <2>4. a = r
      BY <2>2, <2>3 DEF Alone, InPossession
    <2> QED
      BY <2>2, <2>3, <2>4 DEF Releasing
  <1>4. ASSUME NEW o \in Obj, Register(o) PROVE a = b
    BY <1>4, <1>a DEF Register, Goto, InPossession, Releasing, TypeOK
  <1>5. ASSUME NEW o \in Obj, Leave(o) PROVE a = b
    BY <1>5, <1>a DEF Leave, Goto, InPossession, Releasing, TypeOK
  <1>6. ASSUME NEW o \in Obj, LastOut(o) PROVE a = b
    <2>1. /\ pc[a] \in InPossession
          /\ pc[b] \in InPossession
      BY <1>6 DEF LastOut, Goto, InPossession, Releasing, TypeOK
    <2> QED
      BY <1>6, <2>1, LastOutIsLast
  <1>7. CASE ReclaimUnlink \/ (Quiet /\ file \in Meta /\ Dead(file) /\ ReclaimRead) \/ UNCHANGED vars
    BY <1>7, <1>a DEF ReclaimRead, ReclaimUnlink, vars
  <1>8. ASSUME NEW p \in Proc, Crash(p) PROVE a = b
    BY <1>8, <1>a DEF Crash, InPossession, Releasing
  <1>9. ASSUME NEW p \in Proc, Recycle(p) PROVE a = b
    BY <1>9, <1>a DEF Recycle
  <1> QED
    BY <1>1, <1>2, <1>3, <1>4, <1>5, <1>6, <1>7, <1>8, <1>9, CarefulCases

LEMMA RegistryStep ==
    ASSUME CarefulInv, [CarefulNext]_vars
    PROVE  RegistryNamesHolders'
  <1> USE FileLockAssumption, ContentAssumption DEF CarefulInv, RacingInv
  <1>1. ASSUME NEW o \in Obj, Plain(o) PROVE RegistryNamesHolders'
    BY <1>1, PlainKeepsLineages DEF RegistryNamesHolders, TypeOK
  <1>2. ASSUME NEW o \in Obj, NEW t \in Handed(o), Join(o, t) PROVE RegistryNamesHolders'
    BY <1>2 DEF Join, Goto, RegistryNamesHolders, HeldHasToken, TypeOK
  <1>3. ASSUME NEW o \in Obj, Register(o) PROVE RegistryNamesHolders'
    <2>1. \A q \in Obj : pc[q] = "held" => q = o
      BY <1>3 DEF Alone, Register, InPossession
    <2>2. \A q \in Obj : pc'[q] = "held" => q = o
      BY <1>3, <2>1 DEF Register, Goto, TypeOK
    <2>3. \A p \in Proc : registry[p] = NoToken
      BY <1>3, <2>1 DEF RegistryNamesHolders, HeldHasToken, Register
    <2>4. /\ registry'[ProcOf[o]] = token'[o]
          /\ \A p \in Proc : p # ProcOf[o] => registry'[p] = registry[p]
      BY <1>3 DEF Register, TypeOK
    <2> QED
      BY <2>2, <2>3, <2>4 DEF RegistryNamesHolders
  <1>4. ASSUME NEW o \in Obj, Leave(o) PROVE RegistryNamesHolders'
    <2>1. token[o] \in Token /\ o \in Holders(token[o])
      BY <1>4 DEF Leave, HeldHasToken, Holders, TypeOK
    <2>2. Cardinality(Holders(token[o])) > 1
      <3>1. depth[token[o]] = Cardinality(Holders(token[o]))
        BY <2>1 DEF DepthCountsHolders
      <3> QED
        BY <1>4, <3>1 DEF Leave
    <2>3. Holders(token[o]) # {o}
      <3>1. Cardinality({o}) = 1
        BY FS_Singleton
      <3> QED
        BY <2>2, <3>1
    <2>4. PICK q \in Obj : q # o /\ token[q] = token[o]
      BY <2>1, <2>3 DEF Holders
    <2>5. ProcOf[q] = ProcOf[o]
      BY <2>1, <2>4 DEF LineageInProcess
    <2>6. \A p \in Proc : registry'[p] # NoToken =>
             \E r \in Obj : ProcOf[r] = p /\ token'[r] = registry'[p]
      BY <1>4, <2>1, <2>4, <2>5 DEF Leave, RegistryNamesHolders, TypeOK
    <2>7. \A p \in Proc, r \in Obj : ProcOf[r] = p /\ pc'[r] = "held" => token'[r] = registry'[p]
      BY <1>4 DEF Leave, Goto, RegistryNamesHolders, TypeOK
    <2> QED
      BY <2>6, <2>7 DEF RegistryNamesHolders
  <1>5. ASSUME NEW o \in Obj, LastOut(o) PROVE RegistryNamesHolders'
    <2>1. \A q \in Obj : pc[q] = "held" => q = o
      BY <1>5, LastOutIsLast DEF InPossession
    <2>2. \A p \in Proc : p # ProcOf[o] => registry[p] = NoToken
      BY <1>5, <2>1 DEF RegistryNamesHolders, HeldHasToken
    <2> QED
      BY <1>5, <2>1, <2>2 DEF LastOut, Goto, RegistryNamesHolders, TypeOK
  <1>6. ASSUME NEW p \in Proc, Crash(p) PROVE RegistryNamesHolders'
    <2>1. \A q \in Obj : ProcOf[q] # p => token'[q] = token[q] /\ pc'[q] = pc[q]
      BY <1>6 DEF Crash
    <2>2. \A q \in Obj : ProcOf[q] = p => pc'[q] # "held"
      BY <1>6 DEF Crash
    <2>3. registry'[p] = NoToken /\ \A r \in Proc : r # p => registry'[r] = registry[r]
      BY <1>6 DEF Crash, TypeOK
    <2> QED
      BY <2>1, <2>2, <2>3 DEF RegistryNamesHolders
  <1>7. ASSUME NEW p \in Proc, Recycle(p) PROVE RegistryNamesHolders'
    BY <1>7 DEF Recycle, RegistryNamesHolders
  <1>8. CASE ReclaimRead \/ ReclaimUnlink \/ UNCHANGED vars
    BY <1>8 DEF ReclaimRead, ReclaimUnlink, vars, RegistryNamesHolders
  <1> QED
    BY <1>1, <1>2, <1>3, <1>4, <1>5, <1>6, <1>7, <1>8, CarefulIsNext, NextCases

-----------------------------------------------------------------------------
LEMMA InitCareful == Init => CarefulInv
  BY InitRacing, FileLockAssumption, ContentAssumption
  DEF Init, CarefulInv, OneAcquirer, UnlinkIsSafe, PossessorOwnsFile, RegistryNamesHolders,
      Alone, Acquiring, Releasing, InPossession

LEMMA NextCareful == CarefulInv /\ [CarefulNext]_vars => CarefulInv'
  <1> SUFFICES ASSUME CarefulInv, [CarefulNext]_vars PROVE CarefulInv'
    OBVIOUS
  <1>1. RacingInv'
    BY CarefulIsNext, NextRacing DEF CarefulInv
  <1>2. OneAcquirer' /\ UnlinkIsSafe'
    BY OneAcquirerStep, UnlinkStep DEF CarefulInv, RacingInv
  <1>3. PossessorOwnsFile' /\ Alone' /\ RegistryNamesHolders'
    BY PossessionStep, AloneStep, RegistryStep
  <1> QED
    BY <1>1, <1>2, <1>3 DEF CarefulInv

\* All who hold are of the process the file names, and its registry lists one
\* lineage.
LEMMA CarefulExcludes == CarefulInv => MutualExclusion /\ HolderOwnsFile
  <1> SUFFICES ASSUME CarefulInv PROVE MutualExclusion /\ HolderOwnsFile
    OBVIOUS
  <1> USE FileLockAssumption DEF CarefulInv, RacingInv
  <1>1. HolderOwnsFile
    BY DEF HolderOwnsFile, PossessorOwnsFile, OnlyLiveActs, InPossession
  <1>2. MutualExclusion
    <2> SUFFICES ASSUME NEW a \in Obj, NEW b \in Obj, pc[a] = "held", pc[b] = "held"
                 PROVE  token[a] = token[b]
      BY DEF MutualExclusion
    <2>1. ProcOf[a] = ProcOf[b]
      BY <1>1 DEF HolderOwnsFile, Self
    <2> QED
      BY <2>1 DEF RegistryNamesHolders
  <1> QED
    BY <1>1, <1>2

\* If acquisitions and reclamations do not overlap, and a person only reclaims
\* the lock of a run that is gone, no two lineages ever hold the path, whatever
\* crashes, releases and reused PIDs do.
THEOREM MutualExclusionCorrect == CarefulSpec => []MutualExclusion
  BY InitCareful, NextCareful, CarefulExcludes, PTL DEF CarefulSpec

\* Under the same care, a holder's own metadata is on disk while it holds.
THEOREM HolderOwnsFileCorrect == CarefulSpec => []HolderOwnsFile
  BY InitCareful, NextCareful, CarefulExcludes, PTL DEF CarefulSpec

-----------------------------------------------------------------------------
(***************************************************************************)
(* Portfolio selection, for any items, caps and window: no window of       *)
(* dispatches exceeds a cap, and starving work is passed over only where a *)
(* cap demands it. The first is inductive with the history's length; the   *)
(* second needs that the sort key is a total order, so that there is a     *)
(* first candidate.                                                        *)
(***************************************************************************)

PortfolioTypeOK ==
    /\ ready \subseteq Items
    /\ starving \subseteq Items
    /\ history \in Seq(Items)
    /\ Len(history) <= Kept

----------------------------------------------------------------------------
(* The sort key orders the candidates, so that there is a first.             *)

LEMMA PriorityTyped ==
  ASSUME NEW i \in Items
  PROVE  Priority(Origin[i]) \in Nat
<1>1. PICK n \in DOMAIN OriginOrder : OriginOrder[n] = Origin[i]
  BY OriginsAreKnown DEF Origins
<1>2. Priority(Origin[i]) \in DOMAIN OriginOrder
  BY <1>1 DEF Priority
<1> QED BY <1>2 DEF OriginOrder

OldFirst(i, old) == IF i \in old THEN 0 ELSE 1

LEMMA BeforeMeans ==
  ASSUME NEW i \in Items, NEW j \in Items, NEW old
  PROVE  Before(i, j, old) <=>
           LET p == Priority(Origin[i])  q == Priority(Origin[j]) IN
           \/ p < q
           \/ p = q /\ OldFirst(i, old) < OldFirst(j, old)
           \/ p = q /\ OldFirst(i, old) = OldFirst(j, old) /\ Rank[i][1] < Rank[j][1]
           \/ /\ p = q /\ OldFirst(i, old) = OldFirst(j, old) /\ Rank[i][1] = Rank[j][1]
              /\ Rank[i][2] < Rank[j][2]
           \/ /\ p = q /\ OldFirst(i, old) = OldFirst(j, old) /\ Rank[i][1] = Rank[j][1]
              /\ Rank[i][2] = Rank[j][2] /\ i < j
<1> DEFINE a == SortKey(i, old)
           b == SortKey(j, old)
<1>1. /\ DOMAIN a = 1..5
      /\ a[1] = Priority(Origin[i]) /\ a[2] = OldFirst(i, old) /\ a[3] = Rank[i][1]
      /\ a[4] = Rank[i][2] /\ a[5] = i
  BY DEF SortKey, OldFirst
<1>2. /\ b[1] = Priority(Origin[j]) /\ b[2] = OldFirst(j, old) /\ b[3] = Rank[j][1]
      /\ b[4] = Rank[j][2] /\ b[5] = j
  BY DEF SortKey, OldFirst
<1>3. Before(i, j, old) <=> \E n \in DOMAIN a : a[n] < b[n] /\ \A m \in 1 .. n - 1 : a[m] = b[m]
  BY DEF Before
<1> HIDE DEF a, b
<1>4. Before(i, j, old) <=>
        \/ a[1] < b[1]
        \/ a[1] = b[1] /\ a[2] < b[2]
        \/ a[1] = b[1] /\ a[2] = b[2] /\ a[3] < b[3]
        \/ a[1] = b[1] /\ a[2] = b[2] /\ a[3] = b[3] /\ a[4] < b[4]
        \/ a[1] = b[1] /\ a[2] = b[2] /\ a[3] = b[3] /\ a[4] = b[4] /\ a[5] < b[5]
  <2>1. DOMAIN a = {1, 2, 3, 4, 5}
    BY <1>1
  <2>2. /\ 1 .. 1 - 1 = {} /\ 1 .. 2 - 1 = {1} /\ 1 .. 3 - 1 = {1, 2}
        /\ 1 .. 4 - 1 = {1, 2, 3} /\ 1 .. 5 - 1 = {1, 2, 3, 4}
    OBVIOUS
  <2> DEFINE At(n) == a[n] < b[n] /\ \A m \in 1 .. n - 1 : a[m] = b[m]
  <2>3. Before(i, j, old) <=> At(1) \/ At(2) \/ At(3) \/ At(4) \/ At(5)
    BY <1>3, <2>1
  <2>4. At(1) <=> a[1] < b[1]
    BY <2>2
  <2>5. At(2) <=> a[1] = b[1] /\ a[2] < b[2]
    BY <2>2
  <2>6. At(3) <=> a[1] = b[1] /\ a[2] = b[2] /\ a[3] < b[3]
    BY <2>2
  <2>7. At(4) <=> a[1] = b[1] /\ a[2] = b[2] /\ a[3] = b[3] /\ a[4] < b[4]
    BY <2>2
  <2>8. At(5) <=> a[1] = b[1] /\ a[2] = b[2] /\ a[3] = b[3] /\ a[4] = b[4] /\ a[5] < b[5]
    BY <2>2
  <2> HIDE DEF At
  <2> QED BY <2>3, <2>4, <2>5, <2>6, <2>7, <2>8
<1> QED BY <1>1, <1>2, <1>4

\* Some member of a set has the least key.
LEMMA LeastByKey ==
  ASSUME NEW S, S # {}, NEW key, \A i \in S : key[i] \in Nat
  PROVE  \E i \in S : \A j \in S : key[i] <= key[j]
<1> DEFINE T == {key[i] : i \in S}
<1>1. T \subseteq Nat /\ T # {}
  OBVIOUS
<1>2. PICK x \in T : \A y \in T : ~(<<y, x>> \in OpToRel(<, Nat))
  BY <1>1, NatLessThanWellFounded, WFMin
<1>3. PICK i \in S : key[i] = x
  OBVIOUS
<1>4. ASSUME NEW j \in S PROVE key[i] <= key[j]
  <2>1. key[j] \in T /\ key[j] \in Nat /\ x \in Nat
    BY <1>1
  <2>2. <<key[j], x>> \in Nat \X Nat /\ <<key[j], x>>[1] = key[j] /\ <<key[j], x>>[2] = x
    BY <2>1
  <2>3. ~(key[j] < x)
    BY <1>2, <2>1, <2>2 DEF OpToRel
  <2> QED BY <1>3, <2>1, <2>3
<1> QED BY <1>4

LEMMA FirstIsOf ==
  ASSUME NEW S \in SUBSET Items, S # {}, NEW old
  PROVE  First(S, old) \in S /\ \A j \in S \ {First(S, old)} : Before(First(S, old), j, old)
<1> DEFINE P == [i \in Items |-> Priority(Origin[i])]
           O == [i \in Items |-> OldFirst(i, old)]
           R == [i \in Items |-> Rank[i][1]]
           Q == [i \in Items |-> Rank[i][2]]
           N == [i \in Items |-> i]
           Least(T, key) == {i \in T : \A j \in T : key[i] <= key[j]}
<1>1. \A i \in Items : P[i] \in Nat /\ O[i] \in Nat /\ R[i] \in Nat /\ Q[i] \in Nat /\ N[i] \in Nat
  BY PriorityTyped, RanksAreNumbers, ItemsAreNumbered DEF OldFirst
<1>a. \A i, j \in Items : Before(i, j, old) <=>
           \/ P[i] < P[j]
           \/ P[i] = P[j] /\ O[i] < O[j]
           \/ P[i] = P[j] /\ O[i] = O[j] /\ R[i] < R[j]
           \/ P[i] = P[j] /\ O[i] = O[j] /\ R[i] = R[j] /\ Q[i] < Q[j]
           \/ P[i] = P[j] /\ O[i] = O[j] /\ R[i] = R[j] /\ Q[i] = Q[j] /\ N[i] < N[j]
  BY BeforeMeans
<1>b. \A i, j \in Items : N[i] = N[j] => i = j
  OBVIOUS
<1> HIDE DEF P, O, R, Q, N
<1>2. ASSUME NEW T \in SUBSET S, T # {}, NEW key, \A i \in Items : key[i] \in Nat
      PROVE  Least(T, key) # {} /\ Least(T, key) \subseteq T
  BY <1>2, LeastByKey
<1> DEFINE S1 == Least(S, P)  S2 == Least(S1, O)  S3 == Least(S2, R)
           S4 == Least(S3, Q)  S5 == Least(S4, N)
<1>3. S1 # {} /\ S1 \subseteq S /\ \A i \in S1, j \in S : P[i] <= P[j]
  BY <1>1, <1>2
<1>4. S2 # {} /\ S2 \subseteq S1 /\ \A i \in S2, j \in S1 : O[i] <= O[j]
  <2> HIDE DEF S1
  <2> QED BY <1>1, <1>2, <1>3
<1>5. S3 # {} /\ S3 \subseteq S2 /\ \A i \in S3, j \in S2 : R[i] <= R[j]
  <2> HIDE DEF S1, S2
  <2> QED BY <1>1, <1>2, <1>3, <1>4
<1>6. S4 # {} /\ S4 \subseteq S3 /\ \A i \in S4, j \in S3 : Q[i] <= Q[j]
  <2> HIDE DEF S1, S2, S3
  <2> QED BY <1>1, <1>2, <1>3, <1>4, <1>5
<1>7. S5 # {} /\ S5 \subseteq S4 /\ \A i \in S5, j \in S4 : N[i] <= N[j]
  <2> HIDE DEF S1, S2, S3, S4
  <2> QED BY <1>1, <1>2, <1>3, <1>4, <1>5, <1>6
<1>8. PICK i \in S : i \in S5
  BY <1>3, <1>4, <1>5, <1>6, <1>7
<1>9. ASSUME NEW j \in S \ {i} PROVE Before(i, j, old)
  <2>0. /\ i \in Items /\ j \in Items /\ i # j /\ i \in S1 /\ i \in S2 /\ i \in S3 /\ i \in S4
        /\ N[i] # N[j]
    BY <1>3, <1>4, <1>5, <1>6, <1>7, <1>8, <1>b
  <2>a. /\ P[i] \in Nat /\ O[i] \in Nat /\ R[i] \in Nat /\ Q[i] \in Nat /\ N[i] \in Nat
        /\ P[j] \in Nat /\ O[j] \in Nat /\ R[j] \in Nat /\ Q[j] \in Nat /\ N[j] \in Nat
    BY <1>1, <2>0
  <2>1. P[i] < P[j] \/ (P[i] = P[j] /\ j \in S1)
    <3>1. P[i] <= P[j]
      BY <1>3, <2>0
    <3>2. ASSUME P[i] = P[j] PROVE j \in S1
      BY <1>3, <2>0, <3>2
    <3> QED BY <2>a, <3>1, <3>2
  <2>2. j \in S1 => O[i] < O[j] \/ (O[i] = O[j] /\ j \in S2)
    <3> HIDE DEF S1
    <3>1. ASSUME j \in S1, O[i] = O[j] PROVE j \in S2
      BY <1>4, <2>0, <3>1
    <3> QED BY <1>4, <2>0, <2>a, <3>1
  <2>3. j \in S2 => R[i] < R[j] \/ (R[i] = R[j] /\ j \in S3)
    <3> HIDE DEF S2
    <3>1. ASSUME j \in S2, R[i] = R[j] PROVE j \in S3
      BY <1>5, <2>0, <3>1
    <3> QED BY <1>5, <2>0, <2>a, <3>1
  <2>4. j \in S3 => Q[i] < Q[j] \/ (Q[i] = Q[j] /\ j \in S4)
    <3> HIDE DEF S3
    <3>1. ASSUME j \in S3, Q[i] = Q[j] PROVE j \in S4
      BY <1>6, <2>0, <3>1
    <3> QED BY <1>6, <2>0, <2>a, <3>1
  <2>5. j \in S4 => N[i] < N[j]
    <3> HIDE DEF S4
    <3> QED BY <1>7, <1>8, <2>0, <2>a
  <2> HIDE DEF S1, S2, S3, S4, S5
  <2> QED BY <1>a, <2>0, <2>1, <2>2, <2>3, <2>4, <2>5
<1> QED BY <1>9 DEF First

LEMMA SelectedIsOpen ==
  ASSUME NEW candidates \in SUBSET Items, NEW h, NEW old, Selected(candidates, h, old) # None
  PROVE  LET i == Selected(candidates, h, old) IN
         /\ i \in candidates /\ ~Capped(i, h)
         /\ \A j \in candidates : ~Capped(j, h) /\ j # i => Before(i, j, old)
<1> DEFINE open == {i \in candidates : ~Capped(i, h)}
<1>1. open # {} /\ Selected(candidates, h, old) = First(open, old)
  BY DEF Selected
<1>2. open \in SUBSET Items
  OBVIOUS
<1> QED BY <1>1, <1>2, FirstIsOf

----------------------------------------------------------------------------
(* What a dispatch does to the window.                                       *)

Positions(h, kind) == {n \in Recent(h) : h[n] \in kind}

LEMMA PositionsFinite ==
  ASSUME NEW h \in Seq(Items), NEW kind
  PROVE  /\ IsFiniteSet(Positions(h, kind))
         /\ Count(h, kind) = Cardinality(Positions(h, kind)) /\ Count(h, kind) \in Nat
<1>1. Positions(h, kind) \in SUBSET (1 .. Len(h)) /\ Len(h) \in Nat
  BY DEF Positions, Recent
<1>2. IsFiniteSet(1 .. Len(h))
  BY <1>1, FS_Interval
<1>3. IsFiniteSet(Positions(h, kind))
  BY <1>1, <1>2, FS_Subset
<1> QED BY <1>3, FS_CardinalityType DEF Positions, Count

LEMMA CountOfFewer ==
  ASSUME NEW h \in Seq(Items), NEW kind, NEW wider, kind \subseteq wider
  PROVE  Count(h, kind) <= Count(h, wider)
<1>1. Positions(h, kind) \in SUBSET Positions(h, wider)
  BY DEF Positions
<1> QED BY <1>1, PositionsFinite, FS_Subset

LEMMA RecordedTyped ==
  ASSUME NEW h \in Seq(Items), Len(h) <= Kept, NEW i \in Items
  PROVE  LET g == Recorded(h, i)
             d == Len(h) + 1 - Len(g) IN
         /\ g \in Seq(Items) /\ Len(g) <= Kept
         /\ d \in Nat /\ Len(g) \in Nat /\ Len(g) > 0
         /\ \A n \in 1 .. Len(g) - 1 : g[n] = h[n + d]
         /\ g[Len(g)] = i
<1> DEFINE all == Append(h, i)
<1>1. /\ all \in Seq(Items) /\ Len(all) = Len(h) + 1 /\ Len(h) \in Nat
      /\ \A n \in 1 .. Len(h) : all[n] = h[n]
      /\ all[Len(h) + 1] = i
  BY AppendProperties
<1>2. Kept \in Nat /\ Kept > 0
  BY WindowIsKept
<1> HIDE DEF all
<1>3. CASE Len(all) <= Kept
  <2>1. Recorded(h, i) = all
    BY <1>3 DEF Recorded, all
  <2>2. Len(h) + 1 - Len(all) = 0 /\ Len(all) \in Nat /\ Len(all) > 0 /\ Len(all) - 1 = Len(h)
    BY <1>1
  <2>3. \A n \in 1 .. Len(all) - 1 : all[n] = h[n + (Len(h) + 1 - Len(all))]
    <3>1. \A n \in 1 .. Len(h) : n + 0 = n
      BY <1>1
    <3> QED BY <1>1, <2>2, <3>1
  <2> QED BY <1>1, <1>3, <2>1, <2>2, <2>3
<1>4. CASE Len(all) > Kept
  <2> DEFINE m == Len(all) - Kept + 1
             g == SubSeq(all, m, Len(all))
  <2>1. Recorded(h, i) = g
    BY <1>1, <1>2, <1>4 DEF Recorded, all
  <2>2. /\ m \in Int /\ Len(all) \in Int /\ m = 2 /\ Len(all) = Kept + 1
    BY <1>1, <1>2, <1>4
  <2>3. \A n \in m .. Len(all) : all[n] \in Items
    BY <1>1, <2>2
  <2>4. /\ g \in Seq(Items)
        /\ Len(g) = IF m <= Len(all) THEN Len(all) - m + 1 ELSE 0
        /\ \A n \in 1 .. Len(all) - m + 1 : g[n] = all[m + n - 1]
    <3> HIDE DEF m
    <3> QED BY <2>2, <2>3, SubSeqProperties
  <2> HIDE DEF m, g
  <2>5. Len(g) = Kept /\ \A n \in 1 .. Kept : g[n] = all[n + 1]
    BY <1>2, <2>2, <2>4
  <2>6. Len(h) = Kept /\ Len(h) + 1 - Len(g) = 1
    BY <1>1, <1>2, <2>2, <2>5
  <2>7. \A n \in 1 .. Len(g) - 1 : g[n] = h[n + (Len(h) + 1 - Len(g))]
    <3>1. ASSUME NEW n \in 1 .. Kept - 1 PROVE g[n] = h[n + 1]
      <4>1. n \in 1 .. Kept /\ n + 1 \in 1 .. Len(h)
        BY <1>2, <2>6
      <4> QED BY <1>1, <2>5, <4>1
    <3> QED BY <2>5, <2>6, <3>1
  <2>8. g[Len(g)] = i
    <3>1. Kept \in 1 .. Kept /\ Kept + 1 = Len(h) + 1
      BY <1>2, <2>6
    <3> QED BY <1>1, <2>5, <3>1
  <2>9. /\ g \in Seq(Items) /\ Len(g) <= Kept
        /\ Len(h) + 1 - Len(g) \in Nat /\ Len(g) \in Nat /\ Len(g) > 0
    BY <1>2, <2>4, <2>5, <2>6
  <2> QED BY <2>1, <2>7, <2>8, <2>9, Zenon
<1>5. Len(all) <= Kept \/ Len(all) > Kept
  BY <1>1, <1>2
<1> QED BY <1>3, <1>4, <1>5, Zenon

\* The dispatched item enters the window, and nothing else does.
LEMMA CountAfterDispatch ==
  ASSUME NEW h \in Seq(Items), Len(h) <= Kept, NEW i \in Items, NEW kind
  PROVE  Count(Recorded(h, i), kind) <= IF i \in kind THEN Count(h, kind) + 1 ELSE Count(h, kind)
<1> DEFINE g == Recorded(h, i)
           d == Len(h) + 1 - Len(g)
           S == Positions(h, kind)
           T == Positions(g, kind)
<1>1. /\ g \in Seq(Items) /\ d \in Nat /\ Len(g) \in Nat /\ Len(g) > 0 /\ Len(h) \in Nat
      /\ \A n \in 1 .. Len(g) - 1 : g[n] = h[n + d]
      /\ g[Len(g)] = i
  <2>1. Len(h) \in Nat
    OBVIOUS
  <2> QED BY <2>1, RecordedTyped
<1>2. Len(h) + 1 = Len(g) + d
  BY <1>1
<1>3. Window \in Nat
  BY WindowIsKept
<1>4. IsFiniteSet(S) /\ Count(h, kind) = Cardinality(S) /\ Count(h, kind) \in Nat
  BY PositionsFinite
<1>5. IsFiniteSet(T) /\ Count(g, kind) = Cardinality(T) /\ Count(g, kind) \in Nat
  BY <1>1, PositionsFinite
<1> HIDE DEF g, d
<1> DEFINE U == T \ {Len(g)}
<1>6. Cardinality(U) <= Cardinality(S) /\ IsFiniteSet(U)
  <2> DEFINE f == [n \in U |-> n + d]
  <2>1. ASSUME NEW n \in U PROVE n \in Nat /\ n + d \in S
    <3>1. n \in 1 .. Len(g) /\ n + Window > Len(g) /\ g[n] \in kind /\ n # Len(g)
      BY <1>1 DEF Positions, Recent
    <3>2. n \in 1 .. Len(g) - 1 /\ n \in Nat
      BY <1>1, <3>1
    <3>3. h[n + d] \in kind
      BY <1>1, <3>1, <3>2
    <3>4. n + d \in 1 .. Len(h) /\ n + d + Window > Len(h)
      BY <1>1, <1>2, <1>3, <3>1, <3>2
    <3> QED BY <1>1, <3>2, <3>3, <3>4 DEF Positions, Recent
  <2>2. f \in [U -> S]
    BY <2>1
  <2>3. \A a, b \in U : f[a] = f[b] => a = b
    BY <1>1, <2>1
  <2>4. f \in Injection(U, S)
    BY <2>2, <2>3 DEF Injection, IsInjective
  <2> QED BY <1>4, <2>4, FS_Injection
<1>7. CASE i \notin kind
  <2>1. U = T
    BY <1>1, <1>7 DEF Positions
  <2> QED BY <1>4, <1>5, <1>6, <1>7, <2>1 DEF g
<1>8. CASE i \in kind
  <2>1. T \in SUBSET (U \cup {Len(g)})
    OBVIOUS
  <2>2. IsFiniteSet(U \cup {Len(g)}) /\ Cardinality(U \cup {Len(g)}) = Cardinality(U) + 1
    <3>1. Len(g) \notin U
      OBVIOUS
    <3> QED BY <1>6, <3>1, FS_AddElement
  <2>3. Cardinality(T) <= Cardinality(U) + 1
    BY <2>1, <2>2, FS_Subset
  <2>4. Cardinality(U) \in Nat
    BY <1>6, FS_CardinalityType
  <2> QED BY <1>4, <1>5, <1>6, <1>8, <2>3, <2>4 DEF g
<1> QED BY <1>7, <1>8

----------------------------------------------------------------------------
(* The theorems.                                                             *)

LEMMA PortfolioTypeInit == PortfolioInit => PortfolioTypeOK
BY WindowIsKept DEF PortfolioInit, PortfolioTypeOK

LEMMA TickSelects ==
  ASSUME PortfolioTypeOK, Tick
  PROVE  LET i == Selected(ready, history, starving) IN
         /\ i \in Items /\ i \in ready /\ ~Capped(i, history)
         /\ ready' = ready \ {i} /\ history' = Recorded(history, i) /\ starving' = starving
         /\ \A j \in ready : ~Capped(j, history) /\ j # i => Before(i, j, starving)
<1> DEFINE i == Selected(ready, history, starving)
<1>1. i # None /\ ready' = ready \ {i} /\ history' = Recorded(history, i) /\ starving' = starving
  BY DEF Tick
<1> QED BY <1>1, SelectedIsOpen DEF PortfolioTypeOK

LEMMA PortfolioTypeStep ==
  ASSUME PortfolioTypeOK, [PortfolioNext]_portfolioVars
  PROVE  PortfolioTypeOK'
<1>1. CASE Tick
  BY <1>1, TickSelects, RecordedTyped DEF PortfolioTypeOK
<1>2. ASSUME NEW i \in Items, Arrive(i) \/ Age(i) PROVE PortfolioTypeOK'
  BY <1>2 DEF PortfolioTypeOK, Arrive, Age
<1>3. CASE UNCHANGED portfolioVars
  BY <1>3 DEF PortfolioTypeOK, portfolioVars
<1> QED BY <1>1, <1>2, <1>3 DEF PortfolioNext

LEMMA CapsHoldStep ==
  ASSUME PortfolioTypeOK, CapsHold, [PortfolioNext]_portfolioVars
  PROVE  CapsHold'
<1>1. CASE Tick
  <2> DEFINE i == Selected(ready, history, starving)
  <2>1. i \in Items /\ ~Capped(i, history) /\ history' = Recorded(history, i)
    BY <1>1, TickSelects
  <2>2. history \in Seq(Items) /\ Len(history) <= Kept
    BY DEF PortfolioTypeOK
  <2> HIDE DEF i
  <2>3. \A kind : Count(history', kind) <= IF i \in kind THEN Count(history, kind) + 1 ELSE Count(history, kind)
    BY <2>1, <2>2, CountAfterDispatch
  <2>4. \A kind : Count(history, kind) \in Nat
    BY <2>2, PositionsFinite
  <2>5. history' \in Seq(Items)
    BY <2>1, <2>2, RecordedTyped
  <2>6. \A kind : Count(history', kind) \in Nat
    BY <2>5, PositionsFinite
  <2>7. MaxNonProduct \in Nat /\ MaxIntrospective \in Nat /\ MaxCreative \in Nat
    BY CapsAreCounts
  <2>8. i \in Owners => i \notin Introspective /\ i \notin Creative /\ i \notin NonProduct \ Owners
    BY DEF Owners, Introspective, Creative, IntrospectiveOrigins, CreativeOrigins
  <2>9. Count(history', Introspective) <= MaxIntrospective
    <3>1. i \in Introspective => Count(history, Introspective) < MaxIntrospective
      BY <2>1, <2>4, <2>7, <2>8 DEF Capped
    <3> QED BY <2>3, <2>4, <2>6, <2>7, <3>1 DEF CapsHold
  <2>10. Count(history', Creative) <= MaxCreative
    <3>1. i \in Creative => Count(history, Creative) < MaxCreative
      BY <2>1, <2>4, <2>7, <2>8 DEF Capped
    <3> QED BY <2>3, <2>4, <2>6, <2>7, <3>1 DEF CapsHold
  <2>11. Count(history', NonProduct \ Owners) <= MaxNonProduct
    <3> DEFINE K == NonProduct \ Owners
    <3>1. i \in K => Count(history, NonProduct) < MaxNonProduct
      BY <2>1, <2>4, <2>7, <2>8 DEF Capped
    <3>2. Count(history, K) <= Count(history, NonProduct)
      BY <2>2, CountOfFewer
    <3>3. Count(history, K) <= MaxNonProduct
      BY DEF CapsHold
    <3> HIDE DEF K
    <3>4. Count(history', K) <= MaxNonProduct
      BY <2>3, <2>4, <2>6, <2>7, <3>1, <3>2, <3>3
    <3> QED BY <3>4 DEF K
  <2> QED BY <2>9, <2>10, <2>11 DEF CapsHold
<1>2. ASSUME NEW i \in Items, Arrive(i) \/ Age(i) PROVE CapsHold'
  <2>1. history' = history
    BY <1>2 DEF Arrive, Age
  <2> QED BY <2>1 DEF CapsHold
<1>3. CASE UNCHANGED portfolioVars
  BY <1>3 DEF CapsHold, portfolioVars
<1> QED BY <1>1, <1>2, <1>3 DEF PortfolioNext

LEMMA CapsHoldInit == PortfolioInit => CapsHold
<1> SUFFICES ASSUME PortfolioInit PROVE CapsHold
  OBVIOUS
<1>1. ASSUME NEW kind PROVE Count(history, kind) = 0
  <2>1. {n \in Recent(history) : history[n] \in kind} = {}
    BY DEF PortfolioInit, Recent
  <2> QED BY <2>1, FS_EmptySet DEF Count
<1> QED BY <1>1, CapsAreCounts DEF CapsHold

\* However items arrive and age, no window of dispatches exceeds a cap (portfolio.py:19-22, 63-69):
\* Selected takes nothing a cap withholds, and the window slides by one.
THEOREM CapsHoldCorrect == PortfolioSpec => []CapsHold
<1>1. PortfolioTypeOK /\ [PortfolioNext]_portfolioVars => PortfolioTypeOK'
  BY PortfolioTypeStep
<1>2. PortfolioTypeOK /\ CapsHold /\ [PortfolioNext]_portfolioVars => CapsHold'
  BY CapsHoldStep
<1> QED BY <1>1, <1>2, PortfolioTypeInit, CapsHoldInit, PTL DEF PortfolioSpec

LEMMA StarvingStep ==
  ASSUME PortfolioTypeOK, [PortfolioNext]_portfolioVars, NEW i \in Items, NEW j \in Items,
         i \in ready, i \notin ready', i \notin starving,
         j \in ready', j \in starving, Origin[i] = Origin[j]
  PROVE  Capped(j, history)
<1>1. Tick
  BY DEF PortfolioNext, Arrive, Age, portfolioVars
<1>2. i = Selected(ready, history, starving) /\ j \in ready /\ j # i
  BY <1>1, TickSelects
<1>3. ~Capped(j, history) => Before(i, j, starving)
  BY <1>1, <1>2, TickSelects
<1>4. OldFirst(i, starving) = 1 /\ OldFirst(j, starving) = 0
  BY DEF OldFirst
<1>5. Priority(Origin[i]) \in Nat
  BY PriorityTyped
<1>6. ~Before(i, j, starving)
  BY <1>4, <1>5, BeforeMeans
<1> QED BY <1>3, <1>6

\* A fresh item is never dispatched before a starving one of its origin, unless a cap
\* withholds the starving one (portfolio.py:122): the key puts it first among candidates.
THEOREM StarvingPassedOverOnlyIfCappedCorrect == PortfolioSpec => StarvingPassedOverOnlyIfCapped
<1>1. PortfolioTypeOK /\ [PortfolioNext]_portfolioVars => PortfolioTypeOK'
  BY PortfolioTypeStep
<1>2. PortfolioTypeOK /\ [PortfolioNext]_portfolioVars =>
        [\A i, j \in Items :
          /\ i \in ready /\ i \notin ready' /\ i \notin starving
          /\ j \in ready' /\ j \in starving /\ Origin[i] = Origin[j]
          => Capped(j, history)]_portfolioVars
  BY StarvingStep
<1> QED BY <1>1, <1>2, PortfolioTypeInit, PTL DEF PortfolioSpec, StarvingPassedOverOnlyIfCapped
=============================================================================
