--------------------------- MODULE CurlPartsProofs ---------------------------
(***************************************************************************)
(* Proofs about the blocking curl client's easy handle, share and response *)
(* header: an inductive invariant of each, kept by every step of CurlParts, *)
(* and the properties that follow, for any clients, requests, threads,     *)
(* sections and responses.                                                 *)
(***************************************************************************)
EXTENDS CurlParts, SequenceLemmas

-----------------------------------------------------------------------------
(* The share.                                                              *)

Kinds == DOMAIN Share!Kind

\* A section is any sequence of kinds to lock, and no thread is NoThread.
ShareArguments == Share!NoThread \notin Drivers /\ Sections \subseteq Seq(Kinds)

-----------------------------------------------------------------------------
(* The inductive invariant.                                                *)

ShareTypeOK ==
  /\ section \in [Drivers -> Seq(Kinds)] /\ inside \in [Drivers -> Seq(Kinds)]
  /\ step \in [Drivers -> {"run", "store", "unlock", "leave"}]
  /\ main \in [Share!Mutexes -> Drivers \cup {Share!NoThread}]
  /\ guard \in [Share!Mutexes -> Drivers \cup {Share!NoThread}]

\* A guard in a slot is the guard of the mutex's holder.
GuardIsHolders == \A m \in Share!Mutexes : guard[m] # Share!NoThread => guard[m] = main[m]

\* Between the mutex and the slot, the slot is empty.
StoreFindsRoom ==
  \A t \in Drivers : step[t] = "store" =>
    /\ section[t] # << >>
    /\ main[Share!Index(Head(section[t]))] = t
    /\ guard[Share!Index(Head(section[t]))] = Share!NoThread

\* The kinds whose guards a thread has in their slots: all it has locked, until it
\* takes the innermost one's.
Kept(t) == IF step[t] = "leave" THEN 1..Len(inside[t]) - 1 ELSE 1..Len(inside[t])

GuardsAreKept ==
  \A t \in Drivers :
    /\ \A i \in Kept(t) : Share!Holds(t, inside[t][i])
    /\ step[t] \in {"unlock", "leave"} => inside[t] # << >>

\* A thread is never inside two kinds of one mutex.
MutexesDiffer ==
  \A t \in Drivers : \A i, j \in 1..Len(inside[t]) :
    Share!Index(inside[t][i]) = Share!Index(inside[t][j]) => i = j

ShareInv == ShareTypeOK /\ GuardIsHolders /\ StoreFindsRoom /\ GuardsAreKept /\ MutexesDiffer

-----------------------------------------------------------------------------

LEMMA IndexType == \A k \in Kinds : Share!Index(k) \in Share!Mutexes
  BY DEF Kinds, Share!Kind, Share!Index, Share!Mutexes

LEMMA HeadType ==
  ASSUME NEW s \in Seq(Kinds), s # << >>
  PROVE  Head(s) \in Kinds /\ Tail(s) \in Seq(Kinds)
  BY HeadTailProperties

LEMMA ItemType ==
  ASSUME NEW s \in Seq(Kinds), NEW i \in 1..Len(s)
  PROVE  s[i] \in Kinds /\ Share!Index(s[i]) \in Share!Mutexes
  BY ElementOfSeq, IndexType

LEMMA ShareInit == ASSUME ShareArguments, Share!Init PROVE ShareInv
<1>1. ShareTypeOK
  BY EmptySeq DEF Share!Init, ShareTypeOK
<1>2. \A t \in Drivers : inside[t] = << >> /\ step[t] = "run"
  BY DEF Share!Init
<1>3. Len(<< >>) = 0
  OBVIOUS
<1>. QED
  BY <1>1, <1>2, <1>3
  DEF Share!Init, ShareInv, GuardIsHolders, StoreFindsRoom, GuardsAreKept, MutexesDiffer,
      Kept

LEMMA EnterStep ==
  ASSUME ShareArguments, ShareInv, NEW t \in Drivers, Share!Enter(t)
  PROVE  ShareInv'
<1>1. PICK s \in Sections : section' = [section EXCEPT ![t] = s]
  BY DEF Share!Enter
<1>2. s \in Seq(Kinds) /\ step[t] = "run"
  BY DEF ShareArguments, Share!Enter
<1>3. UNCHANGED <<inside, step, main, guard>>
  BY DEF Share!Enter
<1>4. ShareTypeOK'
  BY <1>1, <1>2, <1>3 DEF ShareInv, ShareTypeOK
<1>5. StoreFindsRoom'
  BY <1>1, <1>2, <1>3 DEF ShareInv, ShareTypeOK, StoreFindsRoom
<1>. QED
  BY <1>3, <1>4, <1>5
  DEF ShareInv, GuardIsHolders, GuardsAreKept, MutexesDiffer, Kept, Share!Holds

LEMMA LockMainStep ==
  ASSUME ShareArguments, ShareInv, NEW t \in Drivers, Share!LockMain(t)
  PROVE  ShareInv'
<1>. DEFINE m == Share!Index(Head(section[t]))
<1>1. /\ step[t] = "run" /\ section[t] # << >> /\ main[m] = Share!NoThread
      /\ main' = [main EXCEPT ![m] = t] /\ step' = [step EXCEPT ![t] = "store"]
      /\ UNCHANGED <<section, inside, guard>>
  BY DEF Share!LockMain, Share!Goto
<1>2. m \in Share!Mutexes
  BY <1>1, HeadType, IndexType DEF ShareInv, ShareTypeOK
<1>3. guard[m] = Share!NoThread
  BY <1>1, <1>2 DEF ShareInv, GuardIsHolders
<1>. HIDE DEF m
<1>4. ShareTypeOK'
  BY <1>1, <1>2 DEF ShareInv, ShareTypeOK
<1>5. GuardIsHolders'
  BY <1>1, <1>2, <1>3 DEF ShareInv, ShareTypeOK, GuardIsHolders
<1>6. StoreFindsRoom'
  <2>. SUFFICES ASSUME NEW u \in Drivers, step'[u] = "store"
                PROVE  /\ section[u] # << >>
                       /\ main'[Share!Index(Head(section[u]))] = u
                       /\ guard[Share!Index(Head(section[u]))] = Share!NoThread
    BY <1>1 DEF StoreFindsRoom
  <2>1. CASE u = t
    BY <1>1, <1>2, <1>3, <2>1 DEF ShareInv, ShareTypeOK, m
  <2>2. CASE u # t
    <3>1. step[u] = "store"
      BY <1>1, <2>2 DEF ShareInv, ShareTypeOK
    <3>2. /\ section[u] # << >> /\ main[Share!Index(Head(section[u]))] = u
          /\ guard[Share!Index(Head(section[u]))] = Share!NoThread
      BY <3>1 DEF ShareInv, StoreFindsRoom
    <3>3. Share!Index(Head(section[u])) # m
      BY <1>1, <3>2 DEF ShareArguments
    <3>4. Share!Index(Head(section[u])) \in Share!Mutexes
      BY <3>2, HeadType, IndexType DEF ShareInv, ShareTypeOK
    <3>. QED
      BY <1>1, <3>2, <3>3, <3>4 DEF ShareInv, ShareTypeOK
  <2>. QED
    BY <2>1, <2>2
<1>7. GuardsAreKept'
  <2>. SUFFICES ASSUME NEW u \in Drivers
                PROVE  /\ \A i \in Kept(u)' : Share!Holds(u, inside[u][i])'
                       /\ step'[u] \in {"unlock", "leave"} => inside[u] # << >>
    BY <1>1 DEF GuardsAreKept
  <2>1. Kept(u)' = Kept(u) /\ (step'[u] \in {"unlock", "leave"} => step'[u] = step[u])
    BY <1>1 DEF ShareInv, ShareTypeOK, Kept
  <2>2. ASSUME NEW i \in Kept(u) PROVE Share!Holds(u, inside[u][i])'
    <3>1. Share!Holds(u, inside[u][i])
      BY DEF ShareInv, GuardsAreKept
    <3>2. Share!Index(inside[u][i]) # m
      BY <1>3, <3>1 DEF Share!Holds, ShareArguments
    <3>3. i \in 1..Len(inside[u])
      BY LenProperties DEF Kept, ShareInv, ShareTypeOK
    <3>4. Share!Index(inside[u][i]) \in Share!Mutexes
      BY <3>3, ItemType DEF ShareInv, ShareTypeOK
    <3>. QED
      BY <1>1, <3>1, <3>2, <3>4 DEF ShareInv, ShareTypeOK, Share!Holds
  <2>. QED
    BY <2>1, <2>2 DEF ShareInv, GuardsAreKept
<1>8. MutexesDiffer'
  BY <1>1 DEF ShareInv, MutexesDiffer
<1>. QED
  BY <1>4, <1>5, <1>6, <1>7, <1>8 DEF ShareInv

\* The slot is empty, so that lock_function does not panic, and the thread has
\* nothing else of this mutex.
LEMMA StoreStep ==
  ASSUME ShareArguments, ShareInv, NEW t \in Drivers, Share!Store(t)
  PROVE  ShareInv'
<1>. DEFINE k == Head(section[t])
            m == Share!Index(k)
            n == Len(inside[t])
<1>1. /\ step[t] = "store" /\ section[t] # << >> /\ main[m] = t /\ guard[m] = Share!NoThread
  BY DEF Share!Store, ShareInv, StoreFindsRoom
<1>2. /\ step' = [step EXCEPT ![t] = "run"] /\ guard' = [guard EXCEPT ![m] = t]
      /\ inside' = [inside EXCEPT ![t] = Append(@, k)]
      /\ section' = [section EXCEPT ![t] = Tail(@)] /\ main' = main
  BY <1>1 DEF Share!Store, Share!Goto
<1>3. k \in Kinds /\ m \in Share!Mutexes /\ Tail(section[t]) \in Seq(Kinds) /\ n \in Nat
  BY <1>1, HeadType, IndexType, LenProperties DEF ShareInv, ShareTypeOK
<1>4. /\ Append(inside[t], k) \in Seq(Kinds) /\ Len(Append(inside[t], k)) = n + 1
      /\ Append(inside[t], k)[n + 1] = k
      /\ \A i \in 1..n : Append(inside[t], k)[i] = inside[t][i]
  BY <1>3, AppendProperties DEF ShareInv, ShareTypeOK
<1>5. /\ inside'[t] = Append(inside[t], k) /\ step'[t] = "run"
      /\ \A u \in Drivers \ {t} : inside'[u] = inside[u] /\ step'[u] = step[u]
                                  /\ section'[u] = section[u]
  BY <1>2 DEF ShareInv, ShareTypeOK
<1>6. ASSUME NEW u \in Drivers, NEW i \in Kept(u)
      PROVE  /\ i \in 1..Len(inside[u]) /\ Share!Index(inside[u][i]) \in Share!Mutexes
             /\ Share!Holds(u, inside[u][i]) /\ Share!Index(inside[u][i]) # m
  <2>1. i \in 1..Len(inside[u])
    BY LenProperties DEF Kept, ShareInv, ShareTypeOK
  <2>2. Share!Holds(u, inside[u][i]) /\ u # Share!NoThread
    BY DEF ShareInv, GuardsAreKept, ShareArguments
  <2>. QED
    BY <1>1, <2>1, <2>2, ItemType DEF ShareInv, ShareTypeOK, Share!Holds
<1>. HIDE DEF k, m, n
<1>7. ShareTypeOK'
  BY <1>2, <1>3, <1>4 DEF ShareInv, ShareTypeOK
<1>8. GuardIsHolders'
  BY <1>1, <1>2, <1>3 DEF ShareInv, ShareTypeOK, GuardIsHolders
<1>9. StoreFindsRoom'
  <2>. SUFFICES ASSUME NEW u \in Drivers \ {t}, step[u] = "store"
                PROVE  /\ section[u] # << >> /\ main[Share!Index(Head(section[u]))] = u
                       /\ guard'[Share!Index(Head(section[u]))] = Share!NoThread
    BY <1>2, <1>5 DEF StoreFindsRoom
  <2>1. /\ section[u] # << >> /\ main[Share!Index(Head(section[u]))] = u
        /\ guard[Share!Index(Head(section[u]))] = Share!NoThread
    BY DEF ShareInv, StoreFindsRoom
  <2>2. Share!Index(Head(section[u])) \in Share!Mutexes
    BY <2>1, HeadType, IndexType DEF ShareInv, ShareTypeOK
  <2>. QED
    BY <1>1, <1>2, <2>1, <2>2 DEF ShareInv, ShareTypeOK
<1>10. GuardsAreKept'
  <2>. SUFFICES ASSUME NEW u \in Drivers
                PROVE  /\ \A i \in Kept(u)' : Share!Holds(u, inside[u][i])'
                       /\ step'[u] \in {"unlock", "leave"} => inside'[u] # << >>
    BY DEF GuardsAreKept
  <2>1. CASE u # t
    <3>1. Kept(u)' = Kept(u)
      BY <1>5, <2>1 DEF Kept
    <3>2. ASSUME NEW i \in Kept(u) PROVE Share!Holds(u, inside[u][i])'
      BY <1>2, <1>5, <1>6, <2>1 DEF ShareInv, ShareTypeOK, Share!Holds
    <3>. QED
      BY <1>5, <2>1, <3>1, <3>2 DEF ShareInv, GuardsAreKept
  <2>2. CASE u = t
    <3>1. Kept(t)' = 1..n + 1 /\ Kept(t) = 1..n
      BY <1>1, <1>4, <1>5 DEF Kept, n
    <3>2. ASSUME NEW i \in 1..n PROVE Share!Holds(t, inside[t][i])'
      <4>1. inside'[t][i] = inside[t][i]
        BY <1>4, <1>5
      <4>2. /\ Share!Holds(t, inside[t][i]) /\ Share!Index(inside[t][i]) \in Share!Mutexes
            /\ Share!Index(inside[t][i]) # m
        BY <1>6, <3>1
      <4>. QED
        BY <1>2, <4>1, <4>2 DEF ShareInv, ShareTypeOK, Share!Holds
    <3>3. ASSUME NEW i, i = n + 1 PROVE Share!Holds(t, inside[t][i])'
      <4>1. inside'[t][i] = k
        BY <1>4, <1>5, <3>3
      <4>2. main'[Share!Index(k)] = t /\ guard'[Share!Index(k)] = t
        BY <1>1, <1>2, <1>3 DEF ShareInv, ShareTypeOK, m
      <4>. QED
        BY <4>1, <4>2 DEF Share!Holds
    <3>4. \A i \in 1..n + 1 : i \in 1..n \/ i = n + 1
      BY <1>3
    <3>5. \A i \in Kept(t)' : Share!Holds(t, inside[t][i])'
      BY <3>1, <3>2, <3>3, <3>4
    <3>. QED
      BY <1>5, <2>2, <3>5
  <2>. QED
    BY <2>1, <2>2
<1>11. MutexesDiffer'
  <2>. SUFFICES ASSUME NEW u \in Drivers, NEW i \in 1..Len(inside'[u]),
                       NEW j \in 1..Len(inside'[u]),
                       Share!Index(inside'[u][i]) = Share!Index(inside'[u][j])
                PROVE  i = j
    BY DEF MutexesDiffer
  <2>1. CASE u # t
    BY <1>5, <2>1 DEF ShareInv, MutexesDiffer
  <2>2. CASE u = t
    <3>1. \A e \in 1..n : Share!Index(inside[t][e]) # m
      BY <1>1, <1>6 DEF Kept, n
    <3>2. i \in 1..n + 1 /\ j \in 1..n + 1
      BY <1>4, <1>5, <2>2
    <3>3. CASE i \in 1..n /\ j \in 1..n
      BY <1>4, <1>5, <2>2, <3>3 DEF ShareInv, MutexesDiffer, n
    <3>4. CASE i = n + 1 /\ j \in 1..n
      BY <1>4, <1>5, <2>2, <3>1, <3>4 DEF m
    <3>5. CASE i \in 1..n /\ j = n + 1
      BY <1>4, <1>5, <2>2, <3>1, <3>5 DEF m
    <3>. QED
      BY <1>3, <3>2, <3>3, <3>4, <3>5
  <2>. QED
    BY <2>1, <2>2
<1>. QED
  BY <1>7, <1>8, <1>9, <1>10, <1>11 DEF ShareInv

LEMMA LockSlotStep ==
  ASSUME ShareArguments, ShareInv, NEW t \in Drivers, Share!LockSlot(t)
  PROVE  ShareInv'
<1>1. /\ step[t] = "run" /\ inside[t] # << >> /\ step' = [step EXCEPT ![t] = "unlock"]
      /\ UNCHANGED <<section, inside, main, guard>>
  BY DEF Share!LockSlot, Share!Goto
<1>2. ShareTypeOK' /\ StoreFindsRoom'
  BY <1>1 DEF ShareInv, ShareTypeOK, StoreFindsRoom
<1>3. \A u \in Drivers : Kept(u)' = Kept(u)
  BY <1>1 DEF Kept, ShareInv, ShareTypeOK
<1>4. GuardsAreKept'
  BY <1>1, <1>3 DEF ShareInv, ShareTypeOK, GuardsAreKept, Share!Holds
<1>. QED
  BY <1>1, <1>2, <1>4 DEF ShareInv, GuardIsHolders, MutexesDiffer

\* Only the innermost kind's mutex is freed, which is the thread's own.
LEMMA DropGuardStep ==
  ASSUME ShareArguments, ShareInv, NEW t \in Drivers, Share!DropGuard(t)
  PROVE  ShareInv'
<1>. DEFINE n == Len(inside[t])
            m == Share!Innermost(t)
<1>1. step[t] = "unlock" /\ inside[t] # << >> /\ n \in Nat \ {0}
  <2>1. step[t] = "unlock" /\ inside[t] # << >>
    BY DEF Share!DropGuard, ShareInv, GuardsAreKept
  <2>. QED
    BY <2>1, EmptySeq, LenProperties DEF ShareInv, ShareTypeOK
<1>2. m = Share!Index(inside[t][n]) /\ m \in Share!Mutexes /\ main[m] = t /\ guard[m] = t /\ n \in Kept(t)
  <2>1. n \in 1..n /\ Kept(t) = 1..n
    BY <1>1 DEF Kept
  <2>2. Share!Holds(t, inside[t][n])
    BY <2>1 DEF ShareInv, GuardsAreKept
  <2>. QED
    BY <2>1, <2>2, ItemType DEF ShareInv, ShareTypeOK, Share!Holds, Share!Innermost
<1>3. /\ step' = [step EXCEPT ![t] = "leave"] /\ guard' = [guard EXCEPT ![m] = Share!NoThread]
      /\ main' = [main EXCEPT ![m] = Share!NoThread] /\ UNCHANGED <<section, inside>>
  BY <1>2 DEF Share!DropGuard, Share!Goto, ShareArguments
<1>. HIDE DEF m, n
<1>4. ShareTypeOK' /\ GuardIsHolders'
  BY <1>2, <1>3 DEF ShareInv, ShareTypeOK, GuardIsHolders
<1>5. StoreFindsRoom'
  <2>. SUFFICES ASSUME NEW u \in Drivers \ {t}, step[u] = "store"
                PROVE  /\ section[u] # << >> /\ main'[Share!Index(Head(section[u]))] = u
                       /\ guard'[Share!Index(Head(section[u]))] = Share!NoThread
    BY <1>3 DEF StoreFindsRoom, ShareInv, ShareTypeOK
  <2>1. /\ section[u] # << >> /\ main[Share!Index(Head(section[u]))] = u
        /\ guard[Share!Index(Head(section[u]))] = Share!NoThread
    BY DEF ShareInv, StoreFindsRoom
  <2>2. Share!Index(Head(section[u])) \in Share!Mutexes
    BY <2>1, HeadType, IndexType DEF ShareInv, ShareTypeOK
  <2>. QED
    BY <1>2, <1>3, <2>1, <2>2 DEF ShareInv, ShareTypeOK
<1>6. GuardsAreKept'
  <2>. SUFFICES ASSUME NEW u \in Drivers
                PROVE  /\ \A i \in Kept(u)' : Share!Holds(u, inside[u][i])'
                       /\ step'[u] \in {"unlock", "leave"} => inside[u] # << >>
    BY <1>3 DEF GuardsAreKept
  <2>1. ASSUME NEW i \in Kept(u)'
        PROVE  /\ i \in Kept(u) /\ i \in 1..Len(inside[u]) /\ (u = t => i # n)
    BY <1>1, <1>3, LenProperties DEF Kept, ShareInv, ShareTypeOK, n
  <2>2. ASSUME NEW i \in Kept(u)' PROVE Share!Holds(u, inside[u][i])'
    <3>1. Share!Holds(u, inside[u][i])
      BY <2>1 DEF ShareInv, GuardsAreKept
    <3>2. Share!Index(inside[u][i]) \in Share!Mutexes
      BY <2>1, ItemType DEF ShareInv, ShareTypeOK
    <3>3. Share!Index(inside[u][i]) # m
      <4>1. CASE u # t
        BY <1>2, <3>1, <4>1 DEF Share!Holds
      <4>2. CASE u = t
        <5>1. n \in 1..Len(inside[t])
          BY <1>1 DEF n
        <5>. QED
          BY <1>2, <2>1, <4>2, <5>1 DEF ShareInv, MutexesDiffer
      <4>. QED
        BY <4>1, <4>2
    <3>. QED
      BY <1>3, <3>1, <3>2, <3>3 DEF ShareInv, ShareTypeOK, Share!Holds
  <2>3. step'[u] \in {"unlock", "leave"} => inside[u] # << >>
    BY <1>1, <1>3 DEF ShareInv, ShareTypeOK, GuardsAreKept
  <2>. QED
    BY <2>2, <2>3
<1>. QED
  BY <1>3, <1>4, <1>5, <1>6 DEF ShareInv, MutexesDiffer

LEMMA UnlockSlotStep ==
  ASSUME ShareArguments, ShareInv, NEW t \in Drivers, Share!UnlockSlot(t)
  PROVE  ShareInv'
<1>. DEFINE n == Len(inside[t])
            rest == SubSeq(inside[t], 1, n - 1)
<1>1. /\ step[t] = "leave" /\ step' = [step EXCEPT ![t] = "run"]
      /\ inside' = [inside EXCEPT ![t] = rest] /\ UNCHANGED <<section, main, guard>>
  BY DEF Share!UnlockSlot, Share!Goto
<1>2. n \in Nat \ {0}
  <2>1. inside[t] # << >>
    BY <1>1 DEF ShareInv, GuardsAreKept
  <2>. QED
    BY <2>1, EmptySeq, LenProperties DEF ShareInv, ShareTypeOK
<1>3. /\ rest \in Seq(Kinds) /\ Len(rest) = n - 1
      /\ \A i \in 1..n - 1 : rest[i] = inside[t][i]
  <2>1. \A i \in 1..n - 1 : inside[t][i] \in Kinds
    BY <1>2, ElementOfSeq DEF ShareInv, ShareTypeOK
  <2>2. 1 \in Int /\ n - 1 \in Int
    BY <1>2
  <2>. QED
    BY <1>2, <2>1, <2>2, SubSeqProperties
<1>4. /\ inside'[t] = rest /\ step'[t] = "run"
      /\ \A u \in Drivers \ {t} : inside'[u] = inside[u] /\ step'[u] = step[u]
  BY <1>1 DEF ShareInv, ShareTypeOK
<1>. HIDE DEF n, rest
<1>5. ShareTypeOK' /\ StoreFindsRoom'
  BY <1>1, <1>3, <1>4 DEF ShareInv, ShareTypeOK, StoreFindsRoom
<1>6. GuardsAreKept'
  <2>. SUFFICES ASSUME NEW u \in Drivers
                PROVE  /\ \A i \in Kept(u)' : Share!Holds(u, inside[u][i])'
                       /\ step'[u] \in {"unlock", "leave"} => inside'[u] # << >>
    BY DEF GuardsAreKept
  <2>1. CASE u # t
    <3>1. Kept(u)' = Kept(u)
      BY <1>4, <2>1 DEF Kept
    <3>. QED
      BY <1>1, <1>4, <2>1, <3>1 DEF ShareInv, GuardsAreKept, Share!Holds
  <2>2. CASE u = t
    <3>1. Kept(t)' = 1..n - 1 /\ Kept(t) = 1..n - 1
      BY <1>1, <1>3, <1>4 DEF Kept, n
    <3>. QED
      BY <1>1, <1>3, <1>4, <2>2, <3>1 DEF ShareInv, GuardsAreKept, Share!Holds
  <2>. QED
    BY <2>1, <2>2
<1>7. MutexesDiffer'
  <2>1. \A u \in Drivers \ {t} : inside'[u] = inside[u]
    BY <1>4
  <2>2. \A i \in 1..Len(rest) : i \in 1..n /\ rest[i] = inside[t][i]
    BY <1>2, <1>3
  <2>. QED
    BY <1>4, <2>1, <2>2 DEF ShareInv, MutexesDiffer, n
<1>. QED
  BY <1>1, <1>5, <1>6, <1>7 DEF ShareInv, GuardIsHolders

\* Every step of a callback keeps the invariant.
LEMMA ShareStep ==
  ASSUME ShareArguments, ShareInv, [Share!Next]_(Share!vars)
  PROVE  ShareInv'
<1>1. CASE UNCHANGED Share!vars
  BY <1>1
  DEF Share!vars, ShareInv, ShareTypeOK, GuardIsHolders, StoreFindsRoom, GuardsAreKept,
              MutexesDiffer, Kept, Share!Holds
<1>2. ASSUME NEW t \in Drivers,
             Share!Enter(t) \/ Share!LockMain(t) \/ Share!Store(t) \/ Share!LockSlot(t)
               \/ Share!DropGuard(t) \/ Share!UnlockSlot(t)
      PROVE  ShareInv'
  BY <1>2, EnterStep, LockMainStep, StoreStep, LockSlotStep, DropGuardStep, UnlockSlotStep
<1>. QED
  BY <1>1, <1>2 DEF Share!Next

LEMMA ShareIsExclusive ==
  ASSUME ShareInv
  PROVE  SharedDataIsExclusive
  BY DEF ShareInv, ShareTypeOK, GuardsAreKept, Kept, SharedDataIsExclusive,
         Share!SharedDataIsExclusive

-----------------------------------------------------------------------------
(* The response's header: the inductive invariant.                         *)

Line == Nat \X Nat
Lines == Seq(Line)
FinalBlock == Len(blocks)

HeaderTypeOK ==
  /\ blocks \in Responses
  /\ at \in [block : Nat \ {0}, field : Nat]
  /\ temp_status_code \in Nat /\ is_established \in BOOLEAN
  /\ response_headers_buffer \in Lines
  /\ taken \in [done : BOOLEAN, header : Lines]

\* The last k lines are the first k fields of block b.
EndsWith(lines, b, k) ==
  Len(lines) - k >= 0 /\ \A i \in 1..k : lines[Len(lines) - k + i] = <<b, i>>

Foreseen == \A i \in 1..(FinalBlock - 1) : Header!Foreseen(blocks[i])

\* Inside a block, the status is the block's.
StatusIsBlocks ==
  at.block <= FinalBlock /\ at.field > 0 =>
    /\ temp_status_code = Header!Block.code /\ is_established = Header!Block.established
    /\ at.field <= Header!Block.fields + 1

\* The header is not over before the final response's is.
OverAtTheEnd == Foreseen /\ header_finished => at.block > FinalBlock

\* The fields of the final response so far are the last in the buffer, until the
\* caller takes them all.
FieldsAreKept ==
  /\ ~taken.done /\ at.block = FinalBlock /\ at.field > 0 =>
       EndsWith(response_headers_buffer, FinalBlock, at.field - 1)
  /\ ~taken.done /\ at.block > FinalBlock =>
       EndsWith(response_headers_buffer, FinalBlock, blocks[FinalBlock].fields)
  /\ taken.done /\ Foreseen => EndsWith(taken.header, FinalBlock, blocks[FinalBlock].fields)

HeaderInv == HeaderTypeOK /\ StatusIsBlocks /\ OverAtTheEnd /\ FieldsAreKept

-----------------------------------------------------------------------------

LEMMA BlockType ==
  ASSUME HeaderTypeOK
  PROVE  /\ blocks \in Seq(Blocks) /\ FinalBlock \in Nat \ {0}
         /\ \A i \in 1..FinalBlock : blocks[i] \in Blocks
<1>1. blocks \in Seq(Blocks) /\ blocks # << >>
  BY CurlPartsAssumption DEF HeaderTypeOK
<1>. QED
  BY <1>1, EmptySeq, LenProperties, ElementOfSeq DEF FinalBlock

LEMMA EndsWithMore ==
  ASSUME NEW lines \in Lines, NEW b \in Nat, NEW k \in Nat, EndsWith(lines, b, k)
  PROVE  EndsWith(Append(lines, <<b, k + 1>>), b, k + 1)
<1>. DEFINE n == Len(lines)
            more == Append(lines, <<b, k + 1>>)
<1>1. <<b, k + 1>> \in Line
  BY DEF Line
<1>2. /\ Len(more) = n + 1 /\ more[n + 1] = <<b, k + 1>> /\ n \in Nat
      /\ \A i \in 1..n : more[i] = lines[i]
  BY <1>1, AppendProperties, LenProperties DEF Lines
<1>. HIDE DEF n, more
<1>3. n - k >= 0 /\ \A i \in 1..k : lines[n - k + i] = <<b, i>>
  BY DEF EndsWith, n
<1>4. \A i \in 1..k : n - k + i \in 1..n
  BY <1>2, <1>3
<1>5. \A i \in 1..k : more[n - k + i] = <<b, i>>
  BY <1>2, <1>3, <1>4
<1>6. n + 1 - (k + 1) = n - k /\ n - k + (k + 1) = n + 1
  BY <1>2
<1>7. \A i \in 1..k + 1 : more[n + 1 - (k + 1) + i] = <<b, i>>
  <2>1. \A i \in 1..k + 1 : i \in 1..k \/ i = k + 1
    OBVIOUS
  <2>. QED
    BY <1>2, <1>5, <1>6, <2>1
<1>8. Len(more) - (k + 1) = n + 1 - (k + 1) /\ n + 1 - (k + 1) >= 0
  BY <1>2, <1>3, <1>6
<1>9. EndsWith(more, b, k + 1)
  BY <1>7, <1>8, Zenon DEF EndsWith
<1>. QED
  BY <1>9 DEF more

LEMMA EndsWithTail ==
  ASSUME NEW lines \in Lines, NEW b \in Nat, NEW k \in Nat, EndsWith(lines, b, k)
  PROVE  /\ Len(lines) - k >= 0 /\ Len([i \in 1..k |-> <<b, i>>]) = k
         /\ SubSeq(lines, Len(lines) - k + 1, Len(lines)) = [i \in 1..k |-> <<b, i>>]
<1>. DEFINE n == Len(lines) - k
            tail == SubSeq(lines, n + 1, Len(lines))
<1>0. Len(lines) \in Nat
  BY LenProperties DEF Lines
<1>a. n >= 0 /\ \A i \in 1..k : lines[n + i] = <<b, i>>
  BY Zenon DEF EndsWith
<1>b. n \in Nat /\ n + k = Len(lines)
  BY <1>0, <1>a
<1>. HIDE DEF n
<1>1. Len(lines) \in Nat /\ n \in Nat /\ \A i \in 1..k : lines[n + i] = <<b, i>>
  BY <1>0, <1>a, <1>b
<1>2. \A i \in n + 1..Len(lines) : lines[i] \in Line
  BY <1>1, ElementOfSeq DEF Lines
<1>3. tail \in Seq(Line) /\ Len(tail) = k /\ \A i \in 1..k : tail[i] = lines[n + i]
  BY <1>1, <1>b, <1>2, SubSeqProperties
<1>4. tail \in [1..k -> Line]
  BY <1>3, LenProperties
<1>. HIDE DEF tail
<1>5. tail = [i \in 1..k |-> <<b, i>>]
  BY <1>1, <1>3, <1>4
<1>. QED
  BY <1>a, <1>3, <1>5 DEF tail, n

LEMMA HeaderInit == ASSUME Header!Init PROVE HeaderInv
<1>1. /\ blocks \in Responses /\ at = [block |-> 1, field |-> 0]
      /\ temp_status_code = 0 /\ is_established = FALSE /\ header_finished = FALSE
      /\ response_headers_buffer = << >> /\ taken = [done |-> FALSE, header |-> << >>]
  BY DEF Header!Init
<1>2. HeaderTypeOK
  <2>1. << >> \in Lines
    BY EmptySeq DEF Lines
  <2>2. at \in [block : Nat \ {0}, field : Nat] /\ taken \in [done : BOOLEAN, header : Lines]
    BY <1>1, <2>1
  <2>. QED
    BY <1>1, <2>1, <2>2 DEF HeaderTypeOK
<1>3. FinalBlock \in Nat \ {0}
  BY <1>2, BlockType
<1>. QED
  BY <1>1, <1>2, <1>3 DEF HeaderInv, StatusIsBlocks, OverAtTheEnd, FieldsAreKept

LEMMA StatusLineStep == ASSUME HeaderInv, Header!StatusLine PROVE HeaderInv'
<1>1. /\ at.block <= FinalBlock /\ at.field = 0 /\ at' = [at EXCEPT !.field = 1]
      /\ temp_status_code' = Header!Block.code
      /\ is_established' = Header!Block.established
      /\ UNCHANGED <<blocks, header_finished, response_headers_buffer, taken>>
  BY DEF Header!StatusLine, FinalBlock
<1>2. at'.block = at.block /\ at'.field = 1 /\ at.block \in 1..FinalBlock
  BY <1>1, BlockType DEF HeaderInv, HeaderTypeOK
<1>3. Header!Block \in Blocks /\ Header!Block' = Header!Block /\ FinalBlock' = FinalBlock
  BY <1>1, <1>2, BlockType DEF HeaderInv, Header!Block, FinalBlock
<1>4. HeaderTypeOK'
  BY <1>1, <1>3 DEF HeaderInv, HeaderTypeOK, Blocks
<1>5. StatusIsBlocks'
  BY <1>1, <1>2, <1>3 DEF StatusIsBlocks, Blocks
<1>6. OverAtTheEnd'
  BY <1>1, <1>2, <1>3 DEF HeaderInv, OverAtTheEnd, Foreseen
<1>7. FieldsAreKept'
  <2>1. EndsWith(response_headers_buffer', FinalBlock, 0)
    BY <1>4, LenProperties DEF HeaderTypeOK, Lines, EndsWith
  <2>2. at'.field - 1 = 0
    BY <1>2
  <2>. QED
    BY <1>1, <1>2, <1>3, <2>1, <2>2 DEF HeaderInv, FieldsAreKept, Foreseen
<1>. QED
  BY <1>4, <1>5, <1>6, <1>7 DEF HeaderInv

\* A field of the final response goes behind those before it.
LEMMA FieldLineStep == ASSUME HeaderInv, Header!FieldLine PROVE HeaderInv'
<1>. DEFINE f == at.field
            line == <<at.block, f>>
            lines == response_headers_buffer
<1>1. /\ at.block <= FinalBlock /\ f \in 1..Header!Block.fields
      /\ at' = [at EXCEPT !.field = f + 1]
      /\ response_headers_buffer' = Append(lines, line)
      /\ UNCHANGED <<blocks, temp_status_code, is_established, header_finished, taken>>
  BY DEF Header!FieldLine, FinalBlock
<1>2. at'.block = at.block /\ at'.field = f + 1 /\ at.block \in 1..FinalBlock /\ f \in Nat
  BY <1>1, BlockType DEF HeaderInv, HeaderTypeOK
<1>3. Header!Block \in Blocks /\ Header!Block' = Header!Block /\ FinalBlock' = FinalBlock
  BY <1>1, <1>2, BlockType DEF HeaderInv, Header!Block, FinalBlock
<1>4. lines \in Lines /\ line \in Line
  BY <1>2 DEF HeaderInv, HeaderTypeOK, Line
<1>. HIDE DEF lines, f, line
<1>5. Append(lines, line) \in Lines
  BY <1>4, AppendProperties DEF Lines
<1>6. HeaderTypeOK'
  BY <1>1, <1>2, <1>5 DEF HeaderInv, HeaderTypeOK
<1>7. StatusIsBlocks'
  BY <1>1, <1>2, <1>3 DEF HeaderInv, StatusIsBlocks, Blocks, f
<1>8. OverAtTheEnd'
  BY <1>1, <1>2, <1>3 DEF HeaderInv, OverAtTheEnd, Foreseen
<1>9. FieldsAreKept'
  <2>1. ASSUME ~taken.done, at.block = FinalBlock
        PROVE  EndsWith(response_headers_buffer', FinalBlock, f)
    <3>1. EndsWith(lines, FinalBlock, f - 1) /\ f - 1 \in Nat /\ f - 1 + 1 = f
      BY <1>1, <1>2, <1>3, <2>1 DEF HeaderInv, FieldsAreKept, lines, f, Blocks
    <3>2. line = <<FinalBlock, f - 1 + 1>>
      BY <2>1, <3>1 DEF line
    <3>3. EndsWith(Append(lines, line), FinalBlock, f - 1 + 1)
      BY <1>2, <1>4, <2>1, <3>1, <3>2, EndsWithMore
    <3>. QED
      BY <1>1, <3>1, <3>3
  <2>2. at'.field - 1 = f
    BY <1>2
  <2>3. taken.done /\ Foreseen => EndsWith(taken.header, FinalBlock, blocks[FinalBlock].fields)
    BY DEF HeaderInv, FieldsAreKept
  <2>4. ~(at.block > FinalBlock)
    BY <1>2, BlockType DEF HeaderInv
  <2>5. Foreseen' => Foreseen
    BY <1>1, <1>3 DEF Foreseen
  <2>. QED
    BY <1>1, <1>2, <1>3, <2>1, <2>2, <2>3, <2>4, <2>5 DEF FieldsAreKept
<1>. QED
  BY <1>6, <1>7, <1>8, <1>9 DEF HeaderInv

\* The end of a foreseen interim block does not end the header.
LEMMA BlankLineStep == ASSUME HeaderInv, Header!BlankLine PROVE HeaderInv'
<1>1. /\ at.block <= FinalBlock /\ at.field = Header!Block.fields + 1
      /\ at' = [block |-> at.block + 1, field |-> 0]
      /\ header_finished' = (header_finished \/ Header!IsFinal)
      /\ UNCHANGED <<blocks, temp_status_code, is_established, response_headers_buffer,
                     taken>>
  BY DEF Header!BlankLine, FinalBlock
<1>2. /\ at'.block = at.block + 1 /\ at'.field = 0 /\ at.block \in 1..FinalBlock
      /\ FinalBlock' = FinalBlock /\ FinalBlock \in Nat
  BY <1>1, BlockType DEF HeaderInv, HeaderTypeOK, FinalBlock
<1>3. Header!Block \in Blocks
  BY <1>2, BlockType DEF HeaderInv, Header!Block
<1>4. HeaderTypeOK'
  BY <1>1, <1>2 DEF HeaderInv, HeaderTypeOK
<1>5. temp_status_code = Header!Block.code /\ is_established = Header!Block.established
  BY <1>1, <1>2, <1>3 DEF HeaderInv, StatusIsBlocks, Blocks
<1>6. OverAtTheEnd'
  <2>. SUFFICES ASSUME Foreseen, header_finished', at.block < FinalBlock PROVE FALSE
    BY <1>1, <1>2 DEF OverAtTheEnd, Foreseen
  <2>1. Header!IsFinal
    <3>1. ~(at.block > FinalBlock)
      BY <1>2
    <3>. QED
      BY <1>1, <3>1, Zenon DEF HeaderInv, OverAtTheEnd
  <2>2. at.block \in 1..(FinalBlock - 1)
    BY <1>2
  <2>3. Header!Foreseen(Header!Block)
    BY <2>2 DEF Foreseen, Header!Block
  <2>. QED
    BY <1>5, <2>1, <2>3 DEF Header!IsFinal, Header!Foreseen
<1>7. FieldsAreKept'
  <2>1. ASSUME ~taken.done, at.block = FinalBlock
        PROVE  EndsWith(response_headers_buffer, FinalBlock, blocks[FinalBlock].fields)
    <3>1. EndsWith(response_headers_buffer, FinalBlock, at.field - 1)
      BY <1>1, <1>3, <2>1 DEF HeaderInv, FieldsAreKept, Blocks
    <3>2. at.field - 1 = blocks[FinalBlock].fields
      BY <1>1, <1>3, <2>1 DEF Header!Block, Blocks
    <3>. QED
      BY <3>1, <3>2
  <2>. QED
    BY <1>1, <1>2, <2>1 DEF HeaderInv, FieldsAreKept, Foreseen
<1>. QED
  BY <1>2, <1>4, <1>6, <1>7 DEF HeaderInv, StatusIsBlocks

LEMMA WriteDataStep == ASSUME HeaderInv, Header!WriteData PROVE HeaderInv'
<1>1. /\ at.block > FinalBlock
      /\ UNCHANGED <<blocks, at, temp_status_code, is_established,
                     response_headers_buffer, taken>>
  BY DEF Header!WriteData, FinalBlock
<1>. QED
  BY <1>1 DEF HeaderInv, HeaderTypeOK, StatusIsBlocks, OverAtTheEnd, FieldsAreKept,
              Foreseen, FinalBlock, Header!Block

\* The caller finds the header over, and with it every field.
LEMMA TakeHeadersStep == ASSUME HeaderInv, Header!TakeHeaders PROVE HeaderInv'
<1>1. /\ ~taken.done /\ (header_finished \/ at.block > FinalBlock)
      /\ taken' = [done |-> TRUE, header |-> response_headers_buffer]
      /\ response_headers_buffer' = << >>
      /\ UNCHANGED <<blocks, at, temp_status_code, is_established, header_finished>>
  BY DEF Header!TakeHeaders, FinalBlock
<1>2. HeaderTypeOK'
  BY <1>1, EmptySeq DEF HeaderInv, HeaderTypeOK, Lines
<1>3. taken'.done /\ taken'.header = response_headers_buffer /\ FinalBlock' = FinalBlock
  BY <1>1 DEF FinalBlock
<1>4. Foreseen => at.block > FinalBlock
  BY <1>1 DEF HeaderInv, OverAtTheEnd
<1>5. FieldsAreKept'
  BY <1>1, <1>3, <1>4 DEF HeaderInv, FieldsAreKept, Foreseen
<1>. QED
  BY <1>1, <1>2, <1>5
  DEF HeaderInv, StatusIsBlocks, OverAtTheEnd, Foreseen, FinalBlock, Header!Block

LEMMA HeaderStep ==
  ASSUME HeaderInv, [Header!Next]_(Header!vars)
  PROVE  HeaderInv'
<1>1. CASE UNCHANGED Header!vars
  BY <1>1 DEF Header!vars, HeaderInv, HeaderTypeOK, StatusIsBlocks, OverAtTheEnd,
              FieldsAreKept, Foreseen, FinalBlock, Header!Block
<1>. QED
  BY <1>1, StatusLineStep, FieldLineStep, BlankLineStep, WriteDataStep, TakeHeadersStep
  DEF Header!Next

LEMMA HeaderIsWhole == ASSUME HeaderInv PROVE HeaderIsComplete
<1>. SUFFICES ASSUME taken.done, Foreseen
              PROVE  LET k == blocks[FinalBlock].fields
                         n == Len(taken.header) - k IN
                     /\ n >= 0 /\ Len([i \in 1..k |-> <<FinalBlock, i>>]) = k
                     /\ SubSeq(taken.header, n + 1, Len(taken.header))
                          = [i \in 1..k |-> <<FinalBlock, i>>]
  BY Zenon DEF HeaderIsComplete, Header!HeaderIsComplete, Header!FinalFieldsTaken,
               FinalBlock, Foreseen
<1>1. blocks[FinalBlock].fields \in Nat /\ taken.header \in Lines /\ FinalBlock \in Nat
  BY BlockType DEF HeaderInv, HeaderTypeOK, Blocks
<1>2. EndsWith(taken.header, FinalBlock, blocks[FinalBlock].fields)
  BY DEF HeaderInv, FieldsAreKept
<1>. QED
  BY <1>1, <1>2, EndsWithTail

-----------------------------------------------------------------------------
(* The easy handle: the inductive invariant.                               *)

\* What options are set to.
Words ==
  {"null", "true", "false", "handler", "share", "error_buf", "*", "http proxy",
   "https proxy", "bypass", "agent", "empty", "seconds", "milliseconds", "url", "get",
   "PUT", "length", "content", "stream", "mime", "all", "list"}
    \cup {r.method : r \in EasyRequests}
Values == Words \X Nat
Settings == [opt : Easy!Options, val : Values]
Calls == [opt : Easy!Options \cup {"RESET"}, val : Values]

EasyTypeOK ==
  /\ client \in EasyClients /\ request \in EasyRequests /\ uses \in Nat
  /\ phase \in {"create", "idle", "populate", "transfer", "done", "reset", "dropped"}
  /\ script \in Seq(Calls)
  /\ opts \in [Easy!Options -> Values] /\ owned \in [Easy!Owned -> Values]

\* Calls that reset nothing, and what they will leave of the options.
Leaves(calls, value) == calls \in Seq(Settings) /\ Easy!After(opts, calls) = value

Populated == Easy!After(Easy!Made, Easy!PopulateCalls(client, request, uses))

\* What each phase still has to do gives the handle the options it should have.
ScriptIsRight ==
  /\ phase = "create" => Leaves(script, Easy!Made)
  /\ phase = "idle" => script = << >> /\ opts = Easy!Made
  /\ phase = "populate" => Leaves(script, Populated)
  /\ phase = "transfer" => script = << >> /\ opts = Populated
  /\ phase \in {"done", "dropped"} => script = << >>
  /\ phase = "reset" => \/ script = Easy!ResetCalls /\ opts["body_stream"] = Easy!Null
                        \/ Leaves(script, Easy!Made)

\* The error buffer will be attached again, which empties it.
Attaches(calls) == \E i \in 1..Len(calls) : calls[i].opt = "ERRORBUFFER"

\* Received data and error messages are the latest request's, or nobody's.
NothingIsLeft ==
  /\ phase \in {"create", "idle", "populate", "reset"} => state = Easy!NoOne
  /\ phase \in {"create", "idle"} => err = Easy!NoOne
  /\ phase \in {"populate", "transfer", "done"} => err \in {Easy!NoOne, uses}
  /\ phase = "reset" => Attaches(script) \/ err = Easy!NoOne

EasyInv == EasyTypeOK /\ ScriptIsRight /\ NothingIsLeft /\ PointersAreAlive

-----------------------------------------------------------------------------
(* Sequences of calls.                                                     *)

LEMMA SetIsSettings ==
  ASSUME NEW o \in Easy!Options, NEW what \in Words, NEW k \in Nat
  PROVE  Easy!Set(o, what, k) \in Seq(Settings)
<1>1. [opt |-> o, val |-> <<what, k>>] \in Settings
  BY DEF Settings, Values
<1>. QED
  BY <1>1 DEF Easy!Set

LEMMA UnsetIsSettings ==
  ASSUME NEW o \in Easy!Options
  PROVE  Easy!Unset(o) \in Seq(Settings)
<1>1. [opt |-> o, val |-> Easy!Null] \in Settings
  BY DEF Settings, Values, Words, Easy!Null
<1>. QED
  BY <1>1 DEF Easy!Unset

LEMMA JoinIsSettings ==
  ASSUME NEW s \in Seq(Settings), NEW t \in Seq(Settings)
  PROVE  s \o t \in Seq(Settings)
  BY ConcatProperties

LEMMA WhenIsSettings ==
  ASSUME NEW b, NEW s \in Seq(Settings)
  PROVE  Easy!When(b, s) \in Seq(Settings)
  BY EmptySeq DEF Easy!When

LEMMA CallbacksAreSettings ==
  /\ Easy!BindCallbacks \in Seq(Settings) /\ Len(Easy!BindCallbacks) = 8
  /\ \A i \in 1..8 : Easy!BindCallbacks[i].val = <<"handler", 0>>
<1>. DEFINE options == <<"WRITEDATA", "WRITEFUNCTION", "READDATA", "READFUNCTION", "HEADERDATA",
                   "HEADERFUNCTION", "SEEKDATA", "SEEKFUNCTION">>
<1>1. Easy!BindCallbacks = [i \in 1..8 |-> [opt |-> options[i], val |-> <<"handler", 0>>]]
  BY DEF Easy!BindCallbacks
<1>2. \A i \in 1..8 : options[i] \in Easy!Options
  BY DEF Easy!Options
<1>3. <<"handler", 0>> \in Values
  BY DEF Values, Words
<1>. HIDE DEF options
<1>4. \A i \in 1..8 : [opt |-> options[i], val |-> <<"handler", 0>>] \in Settings
  BY <1>2, <1>3 DEF Settings
<1>. QED
  BY <1>1, <1>4

LEMMA ProxyIsSettings ==
  ASSUME NEW c, NEW r
  PROVE  Easy!ProxyCalls(c, r) \in Seq(Settings)
<1>1. /\ Easy!Set("NOPROXY", "*", 0) \in Seq(Settings)
      /\ Easy!Set("PROXY", "http proxy", 0) \in Seq(Settings)
      /\ Easy!Set("PROXY", "https proxy", 0) \in Seq(Settings)
      /\ Easy!Set("HTTPPROXYTUNNEL", "true", 0) \in Seq(Settings)
      /\ Easy!Set("SUPPRESS_CONNECT_HEADERS", "true", 0) \in Seq(Settings)
      /\ Easy!Set("NOPROXY", "bypass", 0) \in Seq(Settings)
  BY SetIsSettings DEF Easy!Options, Words
<1>. QED
  BY <1>1, WhenIsSettings, JoinIsSettings DEF Easy!ProxyCalls

LEMMA ClientIsSettings ==
  ASSUME NEW c
  PROVE  Easy!ClientCalls(c) \in Seq(Settings)
<1>1. /\ Easy!Set("USERAGENT", "agent", 0) \in Seq(Settings)
      /\ Easy!Set("COOKIEFILE", "empty", 0) \in Seq(Settings)
      /\ Easy!Set("TIMEOUT", "seconds", 0) \in Seq(Settings)
      /\ Easy!Set("TIMEOUT_MS", "milliseconds", 0) \in Seq(Settings)
      /\ Easy!Set("SSL_VERIFYPEER", "false", 0) \in Seq(Settings)
      /\ Easy!Set("FOLLOWLOCATION", "true", 0) \in Seq(Settings)
  BY SetIsSettings DEF Easy!Options, Words
<1>2. Easy!SetTimeout(c.timeout) \in Seq(Settings)
  <2>1. c.timeout = "none" => Easy!SetTimeout(c.timeout) = << >>
    BY Zenon DEF Easy!SetTimeout
  <2>2. c.timeout = "long" => Easy!SetTimeout(c.timeout) = Easy!Set("TIMEOUT", "seconds", 0)
    BY Zenon DEF Easy!SetTimeout
  <2>3. c.timeout \notin {"none", "long"} =>
          Easy!SetTimeout(c.timeout) = Easy!Set("TIMEOUT_MS", "milliseconds", 0)
    BY Zenon DEF Easy!SetTimeout
  <2>. QED
    BY <1>1, <2>1, <2>2, <2>3, EmptySeq
<1>. QED
  BY <1>1, <1>2, WhenIsSettings, JoinIsSettings DEF Easy!ClientCalls

\* Each case of a method or of a body sets options only.
LEMMA MethodIsSettings ==
  ASSUME NEW r \in EasyRequests, NEW k \in Nat
  PROVE  Easy!MethodCalls(r, k) \in Seq(Settings)
<1>1. r.method \in Words
  BY DEF Words
<1>2. Easy!Set("CUSTOMREQUEST", r.method, k) \in Seq(Settings)
  BY <1>1, SetIsSettings DEF Easy!Options
<1>3. /\ Easy!Set("HTTPGET", "true", k) \in Seq(Settings)
      /\ Easy!Set("CUSTOMREQUEST", "get", k) \in Seq(Settings)
      /\ Easy!Set("POST", "true", k) \in Seq(Settings)
      /\ Easy!Set("CUSTOMREQUEST", "PUT", k) \in Seq(Settings)
      /\ Easy!Set("UPLOAD", "true", k) \in Seq(Settings)
      /\ Easy!Set("NOBODY", "true", k) \in Seq(Settings)
  BY SetIsSettings DEF Easy!Options, Words
<1>4. CASE r.method = "GET"
  BY <1>2, <1>3, <1>4, Zenon DEF Easy!MethodCalls
<1>5. CASE r.method = "POST"
  <2>1. r.method # "GET"
    BY <1>5
  <2>. QED
    BY <1>2, <1>3, <1>5, <2>1, Zenon DEF Easy!MethodCalls
<1>6. CASE r.method = "PUT"
  <2>1. r.method # "GET" /\ r.method # "POST"
    BY <1>6
  <2>. QED
    BY <1>2, <1>3, <1>6, <2>1, Zenon DEF Easy!MethodCalls
<1>7. CASE r.method \in {"HEAD", "head"}
  <2>1. r.method # "GET" /\ r.method # "POST" /\ r.method # "PUT"
    BY <1>7
  <2>. QED
    BY <1>2, <1>3, <1>7, <2>1, Zenon DEF Easy!MethodCalls
<1>8. CASE r.method \notin {"GET", "POST", "PUT", "HEAD", "head"}
  <2>1. r.method # "GET" /\ r.method # "POST" /\ r.method # "PUT"
        /\ r.method \notin {"HEAD", "head"}
    BY <1>8
  <2>. QED
    BY <1>2, <1>3, <2>1, Zenon DEF Easy!MethodCalls
<1>. QED
  BY <1>4, <1>5, <1>6, <1>7, <1>8

LEMMA BodyIsSettings ==
  ASSUME NEW r \in EasyRequests, NEW k \in Nat
  PROVE  Easy!BodyCalls(r, k) \in Seq(Settings)
<1>1. /\ Easy!Unset("POSTFIELDS") \in Seq(Settings)
      /\ Easy!Set("POSTFIELDSIZE", "length", k) \in Seq(Settings)
      /\ Easy!Set("COPYPOSTFIELDS", "content", k) \in Seq(Settings)
      /\ Easy!Set("INFILESIZE", "length", k) \in Seq(Settings)
      /\ Easy!Set("body_stream", "stream", k) \in Seq(Settings)
      /\ Easy!Set("MIMEPOST", "mime", k) \in Seq(Settings)
  BY SetIsSettings, UnsetIsSettings DEF Easy!Options, Words
<1>2. Easy!SetPostFields(k) \in Seq(Settings)
  BY <1>1, JoinIsSettings DEF Easy!SetPostFields
<1>3. Easy!Set("INFILESIZE", "length", k) \o Easy!Set("body_stream", "stream", k)
        \in Seq(Settings)
  BY <1>1, JoinIsSettings
<1>4. << >> \in Seq(Settings)
  BY EmptySeq
<1>5. CASE r.body \in {"bytes", "form"}
  BY <1>2, <1>5, Zenon DEF Easy!BodyCalls
<1>6. CASE r.body = "sized"
  <2>1. r.body \notin {"bytes", "form"}
    BY <1>6
  <2>. QED
    BY <1>3, <1>6, <2>1, Zenon DEF Easy!BodyCalls
<1>7. CASE r.body = "unsized"
  <2>1. r.body \notin {"bytes", "form"} /\ r.body # "sized"
    BY <1>7
  <2>. QED
    BY <1>1, <1>7, <2>1, Zenon DEF Easy!BodyCalls
<1>8. CASE r.body = "multipart"
  <2>1. r.body \notin {"bytes", "form"} /\ r.body # "sized" /\ r.body # "unsized"
    BY <1>8
  <2>. QED
    BY <1>1, <1>8, <2>1, Zenon DEF Easy!BodyCalls
<1>9. CASE r.body \notin {"bytes", "form", "sized", "unsized", "multipart"}
  <2>1. r.body \notin {"bytes", "form"} /\ r.body # "sized" /\ r.body # "unsized"
        /\ r.body # "multipart"
    BY <1>9
  <2>. QED
    BY <1>2, <1>4, <2>1, Zenon DEF Easy!BodyCalls
<1>. QED
  BY <1>5, <1>6, <1>7, <1>8, <1>9

LEMMA PopulateIsSettings ==
  ASSUME NEW c, NEW r \in EasyRequests, NEW k \in Nat
  PROVE  Easy!PopulateCalls(c, r, k) \in Seq(Settings)
<1>1. /\ Easy!Set("URL", "url", k) \in Seq(Settings)
      /\ Easy!Set("ACCEPT_ENCODING", "all", 0) \in Seq(Settings)
      /\ Easy!Set("HTTPHEADER", "list", k) \in Seq(Settings)
  BY SetIsSettings DEF Easy!Options, Words
<1>. QED
  BY <1>1, ProxyIsSettings, ClientIsSettings, MethodIsSettings, BodyIsSettings,
     JoinIsSettings DEF Easy!PopulateCalls, Easy!SetHeaders

-----------------------------------------------------------------------------
(* What calls leave.                                                       *)

LEMMA SettingsAreCalls == Seq(Settings) \subseteq Seq(Calls)
<1>1. Settings \subseteq Calls
  BY DEF Settings, Calls
<1>. QED
  BY <1>1, SeqMonotonic

\* The one call that sets an option decides.
LEMMA OnlyOneSets ==
  ASSUME NEW calls, Len(calls) \in Nat, NEW o, NEW opt \in Easy!Options,
         NEW i \in 1..Len(calls), calls[i].opt = opt,
         \A j \in 1..Len(calls) : j # i => calls[j].opt # opt
  PROVE  Easy!After(o, calls)[opt] = calls[i].val
<1>1. Easy!Sets(calls, opt) = {i}
  BY DEF Easy!Sets
<1>2. Easy!Latest(calls, opt) = i
  BY <1>1 DEF Easy!Latest
<1>. QED
  BY <1>1, <1>2 DEF Easy!After

LEMMA NoneSets ==
  ASSUME NEW calls, NEW o, NEW opt \in Easy!Options,
         \A j \in 1..Len(calls) : calls[j].opt # opt
  PROVE  Easy!After(o, calls)[opt] = o[opt]
<1>1. Easy!Sets(calls, opt) = {}
  BY DEF Easy!Sets
<1>. QED
  BY <1>1 DEF Easy!After

LEMMA AfterNothing ==
  ASSUME NEW o \in [Easy!Options -> Values]
  PROVE  Easy!After(o, << >>) = o
<1>1. \A opt \in Easy!Options : Easy!After(o, << >>)[opt] = o[opt]
  BY NoneSets
<1>2. Easy!After(o, << >>) = [opt \in Easy!Options |-> Easy!After(o, << >>)[opt]]
  BY DEF Easy!After
<1>. QED
  BY <1>1, <1>2

\* A set of numbers up to a bound has a largest one.
LEMMA LargestExists ==
  ASSUME NEW n \in Nat, NEW S \in SUBSET (1..n), S # {}
  PROVE  \E i \in S : \A j \in S : j <= i
<1>. DEFINE T == {n - i : i \in S}
<1>1. T \subseteq Nat /\ T # {}
  <2>1. \A i \in S : i \in Int /\ 1 <= i /\ i <= n
    OBVIOUS
  <2>2. \A i \in S : n - i \in Nat
    BY <2>1
  <2>. QED
    BY <2>2
<1>2. PICK x \in T : \A y \in T : x <= y
  <2>. HIDE DEF T
  <2>. QED
    BY <1>1, LeastExists
<1>3. PICK i \in S : x = n - i
  OBVIOUS
<1>4. \A j \in S : n - i <= n - j
  BY <1>2, <1>3
<1>5. \A j \in S : j <= i
  <2>. HIDE DEF T
  <2>. QED
    BY <1>4
<1>. QED
  BY <1>5

\* The latest call that sets an option.
LEMMA LatestIsLargest ==
  ASSUME NEW calls, Len(calls) \in Nat, NEW opt, Easy!Sets(calls, opt) # {}
  PROVE  /\ Easy!Latest(calls, opt) \in Easy!Sets(calls, opt)
         /\ \A j \in Easy!Sets(calls, opt) : j <= Easy!Latest(calls, opt)
<1>. DEFINE S == Easy!Sets(calls, opt)
<1>1. S \in SUBSET (1..Len(calls))
  BY DEF Easy!Sets
<1>2. \E i \in S : \A j \in S : j <= i
  BY <1>1, LargestExists
<1>. QED
  BY <1>2, Zenon DEF Easy!Latest

\* Any latest call is the one.
LEMMA LatestIsOnly ==
  ASSUME NEW calls, Len(calls) \in Nat, NEW opt, NEW i \in Easy!Sets(calls, opt),
         \A j \in Easy!Sets(calls, opt) : j <= i
  PROVE  Easy!Latest(calls, opt) = i
<1>. DEFINE S == Easy!Sets(calls, opt)
            l == Easy!Latest(calls, opt)
<1>1. l \in S /\ \A j \in S : j <= l
  BY LatestIsLargest
<1>2. S \subseteq Nat
  BY DEF Easy!Sets
<1>. HIDE DEF S, l
<1>3. i \in S /\ \A j \in S : j <= i
  BY DEF S
<1>4. l = i
  BY <1>1, <1>2, <1>3
<1>. QED
  BY <1>4 DEF l

\* Making the first call and then the rest is making them all.
LEMMA AfterIsAfterTheRest ==
  ASSUME NEW calls \in Seq(Settings), calls # << >>, NEW o \in [Easy!Options -> Values]
  PROVE  Easy!After(Easy!Apply(o, Head(calls)), Tail(calls)) = Easy!After(o, calls)
<1>. DEFINE rest == Tail(calls)
            p == Easy!Apply(o, Head(calls))
            n == Len(calls)
<1>1. /\ n \in Nat /\ n >= 1 /\ Len(rest) = n - 1
      /\ \A i \in 1..(n - 1) : rest[i] = calls[i + 1]
      /\ Head(calls) = calls[1] /\ calls[1] \in Settings
  BY HeadTailProperties, LenProperties, ElementOfSeq
<1>. HIDE DEF rest, n
<1>2. calls[1].opt \in Easy!Options /\ calls[1].opt # "RESET"
  BY <1>1 DEF Settings, Easy!Options
<1>3. \A opt \in Easy!Options : p[opt] = IF calls[1].opt = opt THEN calls[1].val ELSE o[opt]
  BY <1>1, <1>2 DEF Easy!Apply
<1>. HIDE DEF p
<1>4. SUFFICES ASSUME NEW opt \in Easy!Options
               PROVE  Easy!After(p, rest)[opt] = Easy!After(o, calls)[opt]
  BY DEF Easy!After, p, rest
<1>5. \A i \in 1..(n - 1) : i \in Easy!Sets(rest, opt) <=> i + 1 \in Easy!Sets(calls, opt)
  BY <1>1 DEF Easy!Sets, n
<1>6. CASE Easy!Sets(rest, opt) = {}
  <2>1. Easy!After(p, rest)[opt] = p[opt]
    BY <1>6 DEF Easy!After
  <2>2. Easy!Sets(calls, opt) \subseteq {1}
    <3>. SUFFICES ASSUME NEW j \in Easy!Sets(calls, opt), j # 1 PROVE FALSE
      OBVIOUS
    <3>1. j \in 1..n
      BY DEF Easy!Sets, n
    <3>2. j - 1 \in 1..(n - 1) /\ (j - 1) + 1 = j
      BY <3>1, <1>1
    <3>. QED
      BY <3>2, <1>5, <1>6
  <2>3. CASE calls[1].opt = opt
    <3>1. Easy!Sets(calls, opt) = {1}
      BY <2>2, <2>3, <1>1 DEF Easy!Sets, n
    <3>2. Easy!Latest(calls, opt) = 1
      BY <3>1 DEF Easy!Latest
    <3>. QED
      BY <2>1, <2>3, <3>1, <3>2, <1>3 DEF Easy!After
  <2>4. CASE calls[1].opt # opt
    <3>1. Easy!Sets(calls, opt) = {}
      BY <2>2, <2>4, <1>1 DEF Easy!Sets
    <3>. QED
      BY <2>1, <2>4, <3>1, <1>3 DEF Easy!After
  <2>. QED
    BY <2>3, <2>4
<1>7. CASE Easy!Sets(rest, opt) # {}
  <2>. DEFINE l == Easy!Latest(rest, opt)
  <2>1. l \in Easy!Sets(rest, opt) /\ \A j \in Easy!Sets(rest, opt) : j <= l
    BY <1>1, <1>7, LatestIsLargest
  <2>. HIDE DEF l
  <2>2. l \in 1..(n - 1)
    BY <2>1, <1>1 DEF Easy!Sets
  <2>3. l + 1 \in Easy!Sets(calls, opt)
    BY <2>1, <2>2, <1>5
  <2>4. \A j \in Easy!Sets(calls, opt) : j <= l + 1
    <3>. SUFFICES ASSUME NEW j \in Easy!Sets(calls, opt) PROVE j <= l + 1
      OBVIOUS
    <3>1. j \in 1..n
      BY DEF Easy!Sets, n
    <3>2. CASE j = 1
      BY <3>2, <2>2, <1>1
    <3>3. CASE j # 1
      <4>1. j - 1 \in 1..(n - 1) /\ (j - 1) + 1 = j
        BY <3>1, <3>3, <1>1
      <4>2. j - 1 \in Easy!Sets(rest, opt)
        BY <4>1, <1>5
      <4>. QED
        BY <4>1, <4>2, <2>1, <2>2, <1>1
    <3>. QED
      BY <3>2, <3>3
  <2>5. Easy!Latest(calls, opt) = l + 1
    BY <2>3, <2>4, <1>1, LatestIsOnly DEF n
  <2>6. Easy!After(p, rest)[opt] = rest[l].val
    BY <1>7 DEF Easy!After, l
  <2>7. Easy!After(o, calls)[opt] = calls[l + 1].val
    BY <2>3, <2>5 DEF Easy!After
  <2>. QED
    BY <2>2, <2>6, <2>7, <1>1
<1>. QED
  BY <1>6, <1>7

-----------------------------------------------------------------------------
(* A new handle, and one that is reset.                                    *)

\* The members of a sequence.
Elements(s) == {s[i] : i \in 1..Len(s)}

LEMMA JoinElements ==
  ASSUME NEW S, NEW s \in Seq(S), NEW t \in Seq(S)
  PROVE  Elements(s \o t) = Elements(s) \cup Elements(t)
<1>1. Len(s) \in Nat /\ Len(t) \in Nat
  BY LenProperties
<1>2. /\ Len(s \o t) = Len(s) + Len(t)
      /\ \A i \in 1..Len(s) : (s \o t)[i] = s[i]
      /\ \A i \in 1..Len(t) : (s \o t)[Len(s) + i] = t[i]
  BY <1>1, ConcatProperties
<1>. DEFINE n == Len(s)
            m == Len(t)
            u == s \o t
<1>3. n \in Nat /\ m \in Nat
  BY <1>1
<1>4. Len(u) = n + m /\ (\A i \in 1..n : u[i] = s[i]) /\ (\A i \in 1..m : u[n + i] = t[i])
  BY <1>2
<1>. HIDE DEF n, m, u
<1>5. \A i \in 1..(n + m) : u[i] \in Elements(s) \cup Elements(t)
  <2>. SUFFICES ASSUME NEW i \in 1..(n + m) PROVE u[i] \in Elements(s) \cup Elements(t)
    OBVIOUS
  <2>1. CASE i <= n
    <3>1. i \in 1..n
      BY <2>1, <1>3
    <3>. QED
      BY <3>1, <1>4 DEF Elements, n
  <2>2. CASE ~ (i <= n)
    <3>1. i - n \in 1..m /\ n + (i - n) = i
      BY <2>2, <1>3
    <3>2. u[n + (i - n)] = t[i - n]
      BY <3>1, <1>4
    <3>. QED
      BY <3>1, <3>2 DEF Elements, m
  <2>. QED
    BY <2>1, <2>2
<1>6. \A i \in 1..n : s[i] \in Elements(u)
  <2>1. \A i \in 1..n : i \in 1..(n + m)
    BY <1>3
  <2>. QED
    BY <2>1, <1>4 DEF Elements
<1>7. \A i \in 1..m : t[i] \in Elements(u)
  <2>1. \A i \in 1..m : n + i \in 1..(n + m)
    BY <1>3
  <2>. QED
    BY <2>1, <1>4 DEF Elements
<1>8. Elements(u) = {u[i] : i \in 1..(n + m)}
  BY <1>4 DEF Elements
<1>9. Elements(s) = {s[i] : i \in 1..n} /\ Elements(t) = {t[i] : i \in 1..m}
  BY DEF Elements, n, m
<1>. QED
  BY <1>5, <1>6, <1>7, <1>8, <1>9 DEF u

LEMMA JoinSettings ==
  ASSUME NEW s \in Seq(Settings), NEW t \in Seq(Settings)
  PROVE  Elements(s \o t) = Elements(s) \cup Elements(t)
  BY JoinElements

LEMMA OneElement ==
  ASSUME NEW x
  PROVE  Elements(<<x>>) = {x}
  BY DEF Elements

LEMMA OnlyOne ==
  ASSUME NEW x \in Settings
  PROVE  \E t : t \in Seq(Settings) /\ t = <<x>> /\ Elements(t) = {x}
<1>1. <<x>> \in Seq(Settings)
  OBVIOUS
<1>2. Elements(<<x>>) = {x}
  BY OneElement
<1>. QED
  BY <1>1, <1>2, Zenon

LEMMA AddOne ==
  ASSUME NEW s \in Seq(Settings), NEW x \in Settings
  PROVE  \E u : u \in Seq(Settings) /\ u = s \o <<x>> /\ Elements(u) = Elements(s) \cup {x}
<1>1. PICK t : t \in Seq(Settings) /\ t = <<x>> /\ Elements(t) = {x}
  BY OnlyOne, Zenon
<1>2. s \o t \in Seq(Settings) /\ Elements(s \o t) = Elements(s) \cup Elements(t)
  BY <1>1, JoinSettings, JoinIsSettings
<1>3. s \o t = s \o <<x>>
  BY <1>1
<1>. QED
  BY <1>1, <1>2, <1>3, Zenon

\* The rest of a sequence after its first member.
LEMMA RestOfJoin ==
  ASSUME NEW S, NEW x \in S, NEW t \in Seq(S)
  PROVE  /\ <<x>> \o t \in Seq(S) /\ <<x>> \o t # << >>
         /\ Head(<<x>> \o t) = x /\ Tail(<<x>> \o t) = t
  OBVIOUS

\* The one value that an option is set to.
LEMMA AllSetTo ==
  ASSUME NEW calls, Len(calls) \in Nat, NEW o, NEW opt \in Easy!Options, NEW v,
         \E call \in Elements(calls) : call.opt = opt,
         \A x \in Elements(calls) : x.opt = opt => x.val = v
  PROVE  Easy!After(o, calls)[opt] = v
<1>1. Easy!Sets(calls, opt) # {}
  BY DEF Easy!Sets, Elements
<1>2. Easy!Latest(calls, opt) \in Easy!Sets(calls, opt)
  BY <1>1, LatestIsLargest
<1>3. calls[Easy!Latest(calls, opt)].val = v
  BY <1>2 DEF Easy!Sets, Elements
<1>. QED
  BY <1>1, <1>3 DEF Easy!After

LEMMA NothingSets ==
  ASSUME NEW calls, NEW o, NEW opt \in Easy!Options,
         \A x \in Elements(calls) : x.opt # opt
  PROVE  Easy!After(o, calls)[opt] = o[opt]
<1>1. \A j \in 1..Len(calls) : calls[j].opt # opt
  BY DEF Elements
<1>. QED
  BY <1>1, NoneSets

\* The options of the callbacks.
Handlers ==
  {"WRITEDATA", "WRITEFUNCTION", "READDATA", "READFUNCTION", "HEADERDATA",
   "HEADERFUNCTION", "SEEKDATA", "SEEKFUNCTION"}

LEMMA CallbacksSetHandlers ==
  /\ \A i \in 1..8 : Easy!BindCallbacks[i].opt \in Handlers
  /\ \A h \in Handlers : \E i \in 1..8 : Easy!BindCallbacks[i].opt = h
<1>1. /\ Easy!BindCallbacks[1].opt = "WRITEDATA"
      /\ Easy!BindCallbacks[2].opt = "WRITEFUNCTION"
      /\ Easy!BindCallbacks[3].opt = "READDATA"
      /\ Easy!BindCallbacks[4].opt = "READFUNCTION"
      /\ Easy!BindCallbacks[5].opt = "HEADERDATA"
      /\ Easy!BindCallbacks[6].opt = "HEADERFUNCTION"
      /\ Easy!BindCallbacks[7].opt = "SEEKDATA"
      /\ Easy!BindCallbacks[8].opt = "SEEKFUNCTION"
  BY DEF Easy!BindCallbacks
<1>2. \A i \in 1..8 : i = 1 \/ i = 2 \/ i = 3 \/ i = 4 \/ i = 5 \/ i = 6 \/ i = 7 \/ i = 8
  OBVIOUS
<1>. QED
  BY <1>1, <1>2 DEF Handlers

\* What a layer's init or reset sets.
To(o, what) == [opt |-> o, val |-> <<what, 0>>]

LEMMA CallbackElements ==
  Elements(Easy!BindCallbacks) = {To(h, "handler") : h \in Handlers}
<1>. DEFINE t == Easy!BindCallbacks
<1>1. /\ Len(t) = 8 /\ \A i \in 1..8 : t[i].val = <<"handler", 0>>
      /\ \A i \in 1..8 : t[i].opt \in Handlers
      /\ \A h \in Handlers : \E i \in 1..8 : t[i].opt = h
  BY CallbacksAreSettings, CallbacksSetHandlers
<1>2. \A i \in 1..8 : t[i] = [opt |-> t[i].opt, val |-> t[i].val]
  BY DEF Easy!BindCallbacks
<1>. HIDE DEF t
<1>3. \A i \in 1..8 : t[i] = To(t[i].opt, "handler")
  BY <1>1, <1>2 DEF To
<1>4. Elements(t) = {t[i] : i \in 1..8}
  BY <1>1 DEF Elements
<1>. QED
  BY <1>1, <1>3, <1>4 DEF t

\* The calls that make a handle and, after curl_easy_reset, the calls that reset it.
InitSet ==
  {To("ERRORBUFFER", "error_buf"), To("NOSIGNAL", "true"), To("SHARE", "share")}
    \cup {To(h, "handler") : h \in Handlers}
ResetSet == InitSet \cup {To("HTTPHEADER", "null"), To("MIMEPOST", "null")}

LEMMA InitElements ==
  Easy!InitCalls \in Seq(Settings) /\ Elements(Easy!InitCalls) = InitSet
<1>. DEFINE e == To("ERRORBUFFER", "error_buf")
            n == To("NOSIGNAL", "true")
            s == To("SHARE", "share")
            t == Easy!BindCallbacks
<1>1. Easy!InitCalls = ((<<e>> \o <<n>>) \o t) \o <<s>>
  BY DEF Easy!InitCalls, Easy!Attach, Easy!SetNosignal, Easy!BindShare, Easy!Set, To
<1>2. e \in Settings /\ n \in Settings /\ s \in Settings /\ t \in Seq(Settings)
  BY CallbacksAreSettings DEF To, Settings, Values, Words, Easy!Options
<1>3. InitSet = {e, n, s} \cup Elements(t)
  <2>1. Elements(t) = {To(h, "handler") : h \in Handlers}
    BY CallbackElements
  <2>. QED
    BY <2>1 DEF InitSet
<1>. HIDE DEF e, n, s, t
<1>4. PICK a : a \in Seq(Settings) /\ a = <<e>> /\ Elements(a) = {e}
  BY <1>2, OnlyOne, Zenon
<1>5. PICK b : /\ b \in Seq(Settings) /\ b = a \o <<n>>
               /\ Elements(b) = Elements(a) \cup {n}
  BY <1>2, <1>4, AddOne, Zenon
<1>6. PICK c : /\ c \in Seq(Settings) /\ c = b \o t
               /\ Elements(c) = Elements(b) \cup Elements(t)
  BY <1>2, <1>5, JoinSettings, JoinIsSettings
<1>7. PICK d : /\ d \in Seq(Settings) /\ d = c \o <<s>>
               /\ Elements(d) = Elements(c) \cup {s}
  BY <1>2, <1>6, AddOne, Zenon
<1>8. Easy!InitCalls = d
  BY <1>1, <1>4, <1>5, <1>6, <1>7, Zenon
<1>9. Elements(d) = {e, n, s} \cup Elements(t)
  BY <1>4, <1>5, <1>6, <1>7
<1>. QED
  BY <1>3, <1>7, <1>8, <1>9

LEMMA LayersElements ==
  Easy!ResetLayers \in Seq(Settings) /\ Elements(Easy!ResetLayers) = ResetSet
<1>. DEFINE n == To("NOSIGNAL", "true")
            h == To("HTTPHEADER", "null")
            s == To("SHARE", "share")
            m == To("MIMEPOST", "null")
            e == To("ERRORBUFFER", "error_buf")
            t == Easy!BindCallbacks
<1>1. Easy!ResetLayers = ((((<<n>> \o t) \o <<h>>) \o <<s>>) \o <<m>>) \o <<e>>
  BY DEF Easy!ResetLayers, Easy!Attach, Easy!SetNosignal, Easy!BindShare, Easy!ClearMime,
         Easy!ClearHeaders, Easy!Set, Easy!Unset, Easy!Null, To
<1>2. /\ n \in Settings /\ h \in Settings /\ s \in Settings /\ m \in Settings
      /\ e \in Settings /\ t \in Seq(Settings)
  BY CallbacksAreSettings DEF To, Settings, Values, Words, Easy!Options
<1>3. ResetSet = {n, h, s, m, e} \cup Elements(t)
  <2>1. Elements(t) = {To(k, "handler") : k \in Handlers}
    BY CallbackElements
  <2>. QED
    BY <2>1 DEF ResetSet, InitSet
<1>. HIDE DEF n, h, s, m, e, t
<1>4. PICK a : a \in Seq(Settings) /\ a = <<n>> /\ Elements(a) = {n}
  BY <1>2, OnlyOne, Zenon
<1>5. PICK b : /\ b \in Seq(Settings) /\ b = a \o t
               /\ Elements(b) = Elements(a) \cup Elements(t)
  BY <1>2, <1>4, JoinSettings, JoinIsSettings
<1>6. PICK c : /\ c \in Seq(Settings) /\ c = b \o <<h>>
               /\ Elements(c) = Elements(b) \cup {h}
  BY <1>2, <1>5, AddOne, Zenon
<1>7. PICK d : /\ d \in Seq(Settings) /\ d = c \o <<s>>
               /\ Elements(d) = Elements(c) \cup {s}
  BY <1>2, <1>6, AddOne, Zenon
<1>8. PICK f : /\ f \in Seq(Settings) /\ f = d \o <<m>>
               /\ Elements(f) = Elements(d) \cup {m}
  BY <1>2, <1>7, AddOne, Zenon
<1>9. PICK g : /\ g \in Seq(Settings) /\ g = f \o <<e>>
               /\ Elements(g) = Elements(f) \cup {e}
  BY <1>2, <1>8, AddOne, Zenon
<1>10. Easy!ResetLayers = g
  BY <1>1, <1>4, <1>5, <1>6, <1>7, <1>8, <1>9, Zenon
<1>11. Elements(g) = {n, h, s, m, e} \cup Elements(t)
  BY <1>4, <1>5, <1>6, <1>7, <1>8, <1>9
<1>. QED
  BY <1>3, <1>9, <1>10, <1>11

LEMMA ResetShape ==
  /\ Easy!ResetCalls \in Seq(Calls) /\ Easy!ResetCalls # << >>
  /\ Head(Easy!ResetCalls) = [opt |-> "RESET", val |-> Easy!Null]
  /\ Tail(Easy!ResetCalls) = Easy!ResetLayers
<1>1. [opt |-> "RESET", val |-> Easy!Null] \in Calls
  BY DEF Calls, Values, Words, Easy!Null
<1>2. Easy!ResetLayers \in Seq(Calls)
  BY LayersElements, SettingsAreCalls
<1>. QED
  BY <1>1, <1>2, RestOfJoin DEF Easy!ResetCalls

\* What a new handle has each option set to.
Standard(opt) ==
  IF opt \in Handlers THEN <<"handler", 0>>
  ELSE IF opt = "ERRORBUFFER" THEN <<"error_buf", 0>>
  ELSE IF opt = "NOSIGNAL" THEN <<"true", 0>>
  ELSE IF opt = "SHARE" THEN <<"share", 0>>
  ELSE Easy!Null

\* The calls of the layers decide these options.
LEMMA LayersDecide ==
  ASSUME NEW calls, Len(calls) \in Nat, NEW o, NEW opt \in Easy!Options,
         InitSet \subseteq Elements(calls), Elements(calls) \subseteq ResetSet,
         opt \in Handlers \cup {"ERRORBUFFER", "NOSIGNAL", "SHARE"}
  PROVE  Easy!After(o, calls)[opt] = Standard(opt)
<1>1. CASE opt \in Handlers
  <2>1. \E call \in Elements(calls) : call.opt = opt
    <3>1. To(opt, "handler") \in Elements(calls) /\ To(opt, "handler").opt = opt
      BY <1>1 DEF InitSet, To
    <3>. QED
      BY <3>1
  <2>2. PICK v : v = <<"handler", 0>>
    OBVIOUS
  <2>3. \A x \in Elements(calls) : x.opt = opt => x.val = <<"handler", 0>>
    BY <1>1 DEF InitSet, ResetSet, To, Handlers
  <2>4. \A x \in Elements(calls) : x.opt = opt => x.val = v
    BY <2>2, <2>3
  <2>5. Standard(opt) = <<"handler", 0>>
    BY <1>1 DEF Standard
  <2>6. Easy!After(o, calls)[opt] = v
    BY <2>1, <2>4, AllSetTo
  <2>. QED
    BY <2>2, <2>5, <2>6
<1>2. CASE opt = "ERRORBUFFER"
  <2>1. \E call \in Elements(calls) : call.opt = opt
    <3>1. To(opt, "error_buf") \in Elements(calls) /\ To(opt, "error_buf").opt = opt
      BY <1>2 DEF InitSet, To
    <3>. QED
      BY <3>1
  <2>2. PICK v : v = <<"error_buf", 0>>
    OBVIOUS
  <2>3. \A x \in Elements(calls) : x.opt = opt => x.val = <<"error_buf", 0>>
    BY <1>2 DEF InitSet, ResetSet, To, Handlers
  <2>4. \A x \in Elements(calls) : x.opt = opt => x.val = v
    BY <2>2, <2>3
  <2>5. Standard(opt) = <<"error_buf", 0>>
    BY <1>2 DEF Standard, Handlers
  <2>6. Easy!After(o, calls)[opt] = v
    BY <2>1, <2>4, AllSetTo
  <2>. QED
    BY <2>2, <2>5, <2>6
<1>3. CASE opt = "NOSIGNAL"
  <2>1. \E call \in Elements(calls) : call.opt = opt
    <3>1. To(opt, "true") \in Elements(calls) /\ To(opt, "true").opt = opt
      BY <1>3 DEF InitSet, To
    <3>. QED
      BY <3>1
  <2>2. PICK v : v = <<"true", 0>>
    OBVIOUS
  <2>3. \A x \in Elements(calls) : x.opt = opt => x.val = <<"true", 0>>
    BY <1>3 DEF InitSet, ResetSet, To, Handlers
  <2>4. \A x \in Elements(calls) : x.opt = opt => x.val = v
    BY <2>2, <2>3
  <2>5. Standard(opt) = <<"true", 0>>
    BY <1>3 DEF Standard, Handlers
  <2>6. Easy!After(o, calls)[opt] = v
    BY <2>1, <2>4, AllSetTo
  <2>. QED
    BY <2>2, <2>5, <2>6
<1>4. CASE opt = "SHARE"
  <2>1. \E call \in Elements(calls) : call.opt = opt
    <3>1. To(opt, "share") \in Elements(calls) /\ To(opt, "share").opt = opt
      BY <1>4 DEF InitSet, To
    <3>. QED
      BY <3>1
  <2>2. PICK v : v = <<"share", 0>>
    OBVIOUS
  <2>3. \A x \in Elements(calls) : x.opt = opt => x.val = <<"share", 0>>
    BY <1>4 DEF InitSet, ResetSet, To, Handlers
  <2>4. \A x \in Elements(calls) : x.opt = opt => x.val = v
    BY <2>2, <2>3
  <2>5. Standard(opt) = <<"share", 0>>
    BY <1>4 DEF Standard, Handlers
  <2>6. Easy!After(o, calls)[opt] = v
    BY <2>1, <2>4, AllSetTo
  <2>. QED
    BY <2>2, <2>5, <2>6
<1>. QED
  BY <1>1, <1>2, <1>3, <1>4

LEMMA MadeIsStandard == Easy!Made = [opt \in Easy!Options |-> Standard(opt)]
<1>. DEFINE o == [opt \in Easy!Options |-> Easy!Null]
<1>1. /\ Easy!InitCalls \in Seq(Settings) /\ Elements(Easy!InitCalls) = InitSet
      /\ Len(Easy!InitCalls) \in Nat
  BY InitElements, LenProperties
<1>2. \A opt \in Easy!Options : Easy!After(o, Easy!InitCalls)[opt] = Standard(opt)
  <2>. SUFFICES ASSUME NEW opt \in Easy!Options
                PROVE  Easy!After(o, Easy!InitCalls)[opt] = Standard(opt)
    OBVIOUS
  <2>1. CASE opt \in Handlers \cup {"ERRORBUFFER", "NOSIGNAL", "SHARE"}
    <3>1. InitSet \subseteq ResetSet
      BY DEF ResetSet
    <3>. QED
      BY <1>1, <2>1, <3>1, LayersDecide
  <2>2. CASE opt \notin Handlers \cup {"ERRORBUFFER", "NOSIGNAL", "SHARE"}
    <3>1. \A x \in Elements(Easy!InitCalls) : x.opt # opt
      BY <1>1, <2>2 DEF InitSet, To
    <3>2. Easy!After(o, Easy!InitCalls)[opt] = o[opt]
      BY <3>1, NothingSets
    <3>. QED
      BY <2>2, <3>2 DEF Standard
  <2>. QED
    BY <2>1, <2>2
<1>. QED
  BY <1>2 DEF Easy!Made, Easy!After

LEMMA MadeIsValues == Easy!Made \in [Easy!Options -> Values]
<1>1. \A opt \in Easy!Options : Standard(opt) \in Values
  BY DEF Standard, Values, Words, Easy!Null
<1>. QED
  BY <1>1, MadeIsStandard

\* A handle that is reset is as good as new.
LEMMA ResetIsMade ==
  ASSUME NEW o \in [Easy!Options -> Values], o["body_stream"] = Easy!Null
  PROVE  Easy!After(Easy!Apply(o, Head(Easy!ResetCalls)), Easy!ResetLayers) = Easy!Made
<1>. DEFINE p == Easy!Apply(o, Head(Easy!ResetCalls))
<1>1. \A opt \in Easy!Options : opt # "SHARE" => p[opt] = Easy!Null
  <2>1. Head(Easy!ResetCalls).opt = "RESET"
    BY ResetShape
  <2>2. p = [x \in Easy!Options |-> IF x \in {"SHARE", "body_stream"} THEN o[x] ELSE Easy!Null]
    BY <2>1 DEF Easy!Apply
  <2>. HIDE DEF p
  <2>. QED
    BY <2>2
<1>. HIDE DEF p
<1>2. /\ Easy!ResetLayers \in Seq(Settings) /\ Elements(Easy!ResetLayers) = ResetSet
      /\ Len(Easy!ResetLayers) \in Nat
  BY LayersElements, LenProperties
<1>3. \A opt \in Easy!Options : Easy!After(p, Easy!ResetLayers)[opt] = Standard(opt)
  <2>. SUFFICES ASSUME NEW opt \in Easy!Options
                PROVE  Easy!After(p, Easy!ResetLayers)[opt] = Standard(opt)
    OBVIOUS
  <2>1. CASE opt \in Handlers \cup {"ERRORBUFFER", "NOSIGNAL", "SHARE"}
    <3>1. InitSet \subseteq ResetSet
      BY DEF ResetSet
    <3>. QED
      BY <1>2, <2>1, <3>1, LayersDecide
  <2>2. CASE opt \in {"HTTPHEADER", "MIMEPOST"}
    <3>1. \E call \in ResetSet : call.opt = opt
      <4>1. To(opt, "null") \in ResetSet /\ To(opt, "null").opt = opt
        BY <2>2 DEF ResetSet, To
      <4>. QED
        BY <4>1
    <3>2. \A x \in ResetSet : x.opt = opt => x.val = Easy!Null
      BY <2>2 DEF InitSet, ResetSet, To, Handlers, Easy!Null
    <3>3. Standard(opt) = Easy!Null
      BY <2>2 DEF Standard, Handlers
    <3>. DEFINE calls == Easy!ResetLayers
    <3>4. /\ \E call \in Elements(calls) : call.opt = opt
          /\ \A x \in Elements(calls) : x.opt = opt => x.val = Easy!Null
      BY <1>2, <3>1, <3>2
    <3>5. Len(calls) \in Nat
      BY <1>2
    <3>. HIDE DEF calls
    <3>6. Easy!After(p, calls)[opt] = Easy!Null
      BY ONLY <3>4, <3>5, opt \in Easy!Options, AllSetTo
    <3>. QED
      BY <3>3, <3>6 DEF calls
  <2>3. CASE opt \notin Handlers \cup {"ERRORBUFFER", "NOSIGNAL", "SHARE", "HTTPHEADER",
                                       "MIMEPOST"}
    <3>1. \A x \in ResetSet : x.opt # opt
      BY <2>3 DEF InitSet, ResetSet, To
    <3>2. Easy!After(p, Easy!ResetLayers)[opt] = p[opt]
      BY <1>2, <3>1, NothingSets
    <3>. QED
      BY <1>1, <2>3, <3>2 DEF Standard
  <2>. QED
    BY <2>1, <2>2, <2>3
<1>4. Easy!After(p, Easy!ResetLayers) = [opt \in Easy!Options |-> Standard(opt)]
  BY <1>3 DEF Easy!After
<1>. QED
  BY <1>4, MadeIsStandard DEF p

-----------------------------------------------------------------------------
(* The easy handle: the steps.                                             *)

LEMMA EasyInit ==
  ASSUME Easy!Init
  PROVE  EasyInv
<1>1. Easy!Null \in Values
  BY DEF Easy!Null, Values, Words
<1>2. Easy!InitCalls \in Seq(Settings) /\ Easy!InitCalls \in Seq(Calls)
  BY InitElements, SettingsAreCalls
<1>3. EasyTypeOK
  BY <1>1, <1>2 DEF Easy!Init, EasyTypeOK
<1>4. ScriptIsRight
  <2>1. phase = "create" /\ script = Easy!InitCalls
        /\ opts = [opt \in Easy!Options |-> Easy!Null]
    BY DEF Easy!Init
  <2>2. Easy!After(opts, script) = Easy!Made
    BY <2>1, Zenon DEF Easy!Made
  <2>3. Leaves(script, Easy!Made)
    BY <1>2, <2>1, <2>2 DEF Leaves
  <2>. QED
    BY <2>1, <2>3 DEF ScriptIsRight
<1>5. NothingIsLeft
  BY DEF Easy!Init, NothingIsLeft, Easy!NoOne
<1>6. PointersAreAlive
  BY DEF Easy!Init, PointersAreAlive, Easy!PointersAreAlive, Easy!Owned, Easy!Options
<1>. QED
  BY <1>3, <1>4, <1>5, <1>6 DEF EasyInv

\* What a call does to the options.
LEMMA ApplyIsValues ==
  ASSUME NEW o \in [Easy!Options -> Values], NEW call \in Calls
  PROVE  Easy!Apply(o, call) \in [Easy!Options -> Values]
<1>1. Easy!Null \in Values
  BY DEF Easy!Null, Values, Words
<1>2. CASE call.opt = "RESET"
  BY <1>1, <1>2 DEF Easy!Apply
<1>3. CASE call.opt # "RESET"
  <2>1. call.val \in Values /\ call.opt \in Easy!Options
    BY <1>3 DEF Calls
  <2>. QED
    BY <1>3, <2>1 DEF Easy!Apply
<1>. QED
  BY <1>2, <1>3

LEMMA CallKeepsPointers ==
  ASSUME EasyTypeOK, PointersAreAlive, Easy!Call
  PROVE  PointersAreAlive'
<1>. DEFINE call == Head(script)
<1>1. call \in Calls
  BY HeadTailProperties DEF EasyTypeOK, Easy!Call
<1>2. opts' = Easy!Apply(opts, call)
  BY DEF Easy!Call
<1>3. owned' = IF call.opt \in Easy!Owned THEN [owned EXCEPT ![call.opt] = call.val] ELSE owned
  BY DEF Easy!Call, Easy!Own
<1>4. opts \in [Easy!Options -> Values] /\ owned \in [Easy!Owned -> Values]
  BY DEF EasyTypeOK
<1>. HIDE DEF call
<1>. SUFFICES ASSUME NEW o \in Easy!Owned
              PROVE  opts'[o] = Easy!Null \/ opts'[o] = owned'[o]
  BY DEF PointersAreAlive, Easy!PointersAreAlive
<1>5. opts[o] = Easy!Null \/ opts[o] = owned[o]
  BY DEF PointersAreAlive, Easy!PointersAreAlive
<1>6. o \in {"HTTPHEADER", "MIMEPOST"} /\ o \in Easy!Options
  BY DEF Easy!Owned, Easy!Options
<1>7. CASE call.opt = "RESET"
  <2>1. opts'[o] = Easy!Null
    BY <1>2, <1>6, <1>7 DEF Easy!Apply
  <2>. QED
    BY <2>1
<1>8. CASE call.opt # "RESET" /\ call.opt = o
  <2>1. opts'[o] = call.val
    BY <1>2, <1>4, <1>6, <1>8 DEF Easy!Apply
  <2>2. owned'[o] = call.val
    BY <1>3, <1>4, <1>8
  <2>. QED
    BY <2>1, <2>2
<1>9. CASE call.opt # "RESET" /\ call.opt # o
  <2>1. opts'[o] = opts[o]
    BY <1>2, <1>4, <1>6, <1>9 DEF Easy!Apply
  <2>2. owned'[o] = owned[o]
    BY <1>3, <1>4, <1>9
  <2>. QED
    BY <1>5, <2>1, <2>2
<1>. QED
  BY <1>7, <1>8, <1>9

LEMMA CallKeepsType ==
  ASSUME EasyTypeOK, Easy!Call
  PROVE  EasyTypeOK'
<1>1. Head(script) \in Calls /\ Tail(script) \in Seq(Calls)
  BY HeadTailProperties DEF EasyTypeOK, Easy!Call
<1>2. opts' \in [Easy!Options -> Values]
  BY <1>1, ApplyIsValues DEF EasyTypeOK, Easy!Call
<1>3. owned' \in [Easy!Owned -> Values]
  <2>1. Head(script).val \in Values
    BY <1>1 DEF Calls
  <2>. QED
    BY <2>1 DEF EasyTypeOK, Easy!Call, Easy!Own
<1>4. script' \in Seq(Calls)
  BY <1>1 DEF Easy!Call
<1>. QED
  BY <1>2, <1>3, <1>4 DEF EasyTypeOK, Easy!Call

\* A call brings the options one step nearer to what they should be.
LEMMA CallLeaves ==
  ASSUME EasyTypeOK, Easy!Call, NEW value, Leaves(script, value)
  PROVE  script' \in Seq(Settings) /\ Easy!After(opts', script') = value
<1>1. script \in Seq(Settings) /\ script # << >> /\ opts \in [Easy!Options -> Values]
      /\ Easy!After(opts, script) = value
  BY DEF Leaves, Easy!Call, EasyTypeOK
<1>2. opts' = Easy!Apply(opts, Head(script)) /\ script' = Tail(script)
  BY DEF Easy!Call
<1>3. Tail(script) \in Seq(Settings)
  BY <1>1, HeadTailProperties
<1>4. Easy!After(Easy!Apply(opts, Head(script)), Tail(script)) = Easy!After(opts, script)
  BY <1>1, AfterIsAfterTheRest
<1>. QED
  BY <1>1, <1>2, <1>3, <1>4

LEMMA CallKeepsScript ==
  ASSUME EasyTypeOK, ScriptIsRight, Easy!Call
  PROVE  ScriptIsRight'
<1>1. script # << >> /\ UNCHANGED <<client, uses, request, phase>>
  BY DEF Easy!Call
<1>2. Populated' = Populated
  BY <1>1 DEF Populated
<1>3. CASE phase = "create"
  <2>1. Leaves(script, Easy!Made)
    BY <1>3 DEF ScriptIsRight
  <2>2. script' \in Seq(Settings) /\ Easy!After(opts', script') = Easy!Made
    BY <2>1, CallLeaves
  <2>. QED
    BY <1>1, <1>3, <2>2 DEF ScriptIsRight, Leaves
<1>4. CASE phase = "populate"
  <2>1. Leaves(script, Populated)
    BY <1>4 DEF ScriptIsRight
  <2>2. script' \in Seq(Settings) /\ Easy!After(opts', script') = Populated
    BY <2>1, CallLeaves
  <2>. QED
    BY <1>1, <1>2, <1>4, <2>2 DEF ScriptIsRight, Leaves
<1>5. CASE phase = "reset" /\ Leaves(script, Easy!Made)
  <2>1. script' \in Seq(Settings) /\ Easy!After(opts', script') = Easy!Made
    BY <1>5, CallLeaves
  <2>. QED
    BY <1>1, <1>5, <2>1 DEF ScriptIsRight, Leaves
<1>6. CASE phase = "reset" /\ script = Easy!ResetCalls /\ opts["body_stream"] = Easy!Null
  <2>1. opts' = Easy!Apply(opts, Head(Easy!ResetCalls)) /\ script' = Easy!ResetLayers
    BY <1>6, ResetShape DEF Easy!Call
  <2>2. Easy!After(opts', script') = Easy!Made
    BY <1>6, <2>1, ResetIsMade DEF EasyTypeOK
  <2>3. script' \in Seq(Settings)
    BY <2>1, LayersElements
  <2>. QED
    BY <1>1, <1>6, <2>2, <2>3 DEF ScriptIsRight, Leaves
<1>7. phase \in {"create", "populate", "reset"}
  BY <1>1 DEF EasyTypeOK, ScriptIsRight
<1>. QED
  BY <1>3, <1>4, <1>5, <1>6, <1>7 DEF ScriptIsRight

LEMMA CallKeepsNothing ==
  ASSUME EasyTypeOK, ScriptIsRight, NothingIsLeft, Easy!Call
  PROVE  NothingIsLeft'
<1>1. /\ UNCHANGED <<uses, phase, state>> /\ script # << >>
      /\ err' = IF Head(script).opt = "ERRORBUFFER" THEN Easy!NoOne ELSE err
      /\ script' = Tail(script)
  BY DEF Easy!Call
<1>2. phase = "reset" => Attaches(script') \/ err' = Easy!NoOne
  <2>. SUFFICES ASSUME phase = "reset", err' # Easy!NoOne
                PROVE  Attaches(script')
    OBVIOUS
  <2>1. Head(script).opt # "ERRORBUFFER" /\ err # Easy!NoOne
    BY <1>1
  <2>2. Attaches(script)
    BY <2>1 DEF NothingIsLeft
  <2>3. PICK i \in 1..Len(script) : script[i].opt = "ERRORBUFFER"
    BY <2>2 DEF Attaches
  <2>4. /\ Len(script) \in Nat /\ Head(script) = script[1]
        /\ Len(Tail(script)) = Len(script) - 1
        /\ \A j \in 1..Len(Tail(script)) : Tail(script)[j] = script[j + 1]
    BY <1>1, HeadTailProperties, LenProperties DEF EasyTypeOK
  <2>5. i # 1
    BY <2>1, <2>3, <2>4
  <2>6. i - 1 \in 1..Len(Tail(script)) /\ (i - 1) + 1 = i
    BY <2>4, <2>5
  <2>7. Tail(script)[i - 1] = script[i]
    BY <2>4, <2>6
  <2>. QED
    BY <1>1, <2>3, <2>6, <2>7 DEF Attaches
<1>. QED
  BY <1>1, <1>2 DEF NothingIsLeft

LEMMA CallStep ==
  ASSUME EasyInv, Easy!Call
  PROVE  EasyInv'
  BY CallKeepsType, CallKeepsScript, CallKeepsNothing, CallKeepsPointers DEF EasyInv

LEMMA CallFailsStep ==
  ASSUME EasyInv, Easy!CallFails
  PROVE  EasyInv'
<1>. USE DEF EasyInv
<1>1. /\ UNCHANGED <<client, uses, request, opts, state, owned>>
      /\ script' = << >> /\ script # << >>
      /\ phase' = IF phase = "populate" THEN "done" ELSE "dropped"
      /\ err' \in {Easy!NoOne, err, uses}
  BY DEF Easy!CallFails, Easy!Own
<1>2. EasyTypeOK'
  BY <1>1, EmptySeq DEF EasyTypeOK
<1>3. ScriptIsRight'
  BY <1>1 DEF ScriptIsRight
<1>4. NothingIsLeft'
  BY <1>1 DEF NothingIsLeft, Easy!NoOne
<1>5. PointersAreAlive'
  BY <1>1 DEF PointersAreAlive, Easy!PointersAreAlive
<1>. QED
  BY <1>2, <1>3, <1>4, <1>5

LEMMA FinishStep ==
  ASSUME EasyInv, Easy!Finish
  PROVE  EasyInv'
<1>. USE DEF EasyInv
<1>1. /\ UNCHANGED <<client, uses, request, script, opts, owned, state, err>>
      /\ script = << >> /\ phase \in {"create", "populate", "reset"}
      /\ phase' = IF phase = "populate" THEN "transfer" ELSE "idle"
  BY DEF Easy!Finish
<1>2. EasyTypeOK'
  BY <1>1 DEF EasyTypeOK
<1>3. Easy!After(opts, << >>) = opts
  BY AfterNothing DEF EasyTypeOK
<1>4. Populated' = Populated
  BY <1>1 DEF Populated
<1>5. ScriptIsRight'
  <2>1. CASE phase = "populate"
    <3>1. opts = Populated
      BY <1>1, <1>3, <2>1 DEF ScriptIsRight, Leaves
    <3>. QED
      BY <1>1, <1>4, <2>1, <3>1 DEF ScriptIsRight
  <2>2. CASE phase \in {"create", "reset"}
    <3>1. script # Easy!ResetCalls
      BY <1>1, ResetShape
    <3>2. opts = Easy!Made
      BY <1>1, <1>3, <2>2, <3>1 DEF ScriptIsRight, Leaves
    <3>. QED
      BY <1>1, <2>2, <3>2 DEF ScriptIsRight
  <2>. QED
    BY <1>1, <2>1, <2>2
<1>6. NothingIsLeft'
  <2>1. ~ Attaches(script)
    BY <1>1 DEF Attaches
  <2>. QED
    BY <1>1, <2>1 DEF NothingIsLeft
<1>7. PointersAreAlive'
  BY <1>1 DEF PointersAreAlive, Easy!PointersAreAlive
<1>. QED
  BY <1>2, <1>5, <1>6, <1>7

LEMMA PopulateStep ==
  ASSUME EasyInv, NEW r \in EasyRequests, Easy!PopulateRequest(r)
  PROVE  EasyInv'
<1>. USE DEF EasyInv
<1>1. /\ UNCHANGED <<client, opts, owned, state, err>>
      /\ phase = "idle" /\ phase' = "populate" /\ uses' = uses + 1 /\ request' = r
      /\ script' = Easy!PopulateCalls(client, r, uses + 1)
  BY DEF Easy!PopulateRequest
<1>2. uses' \in Nat
  BY <1>1 DEF EasyTypeOK
<1>3. script' \in Seq(Settings)
  BY <1>1, <1>2, PopulateIsSettings
<1>4. EasyTypeOK'
  BY <1>1, <1>2, <1>3, SettingsAreCalls DEF EasyTypeOK
<1>5. ScriptIsRight'
  <2>1. opts' = Easy!Made
    BY <1>1 DEF ScriptIsRight
  <2>2. Populated' = Easy!After(opts', script')
    BY <1>1, <2>1 DEF Populated
  <2>3. Leaves(script, Populated)'
    BY <1>3, <2>2 DEF Leaves
  <2>. QED
    BY <1>1, <2>3 DEF ScriptIsRight
<1>6. NothingIsLeft'
  BY <1>1 DEF NothingIsLeft
<1>7. PointersAreAlive'
  BY <1>1 DEF PointersAreAlive, Easy!PointersAreAlive
<1>. QED
  BY <1>4, <1>5, <1>6, <1>7

LEMMA TransferStep ==
  ASSUME EasyInv, Easy!Transfer \/ Easy!EndTransfer
  PROVE  EasyInv'
<1>. USE DEF EasyInv
<1>1. /\ UNCHANGED <<client, uses, request, script, opts, owned>>
      /\ phase = "transfer" /\ phase' \in {"transfer", "done"}
      /\ err' \in {err, uses}
  BY DEF Easy!Transfer, Easy!EndTransfer
<1>2. EasyTypeOK'
  BY <1>1 DEF EasyTypeOK
<1>3. Populated' = Populated
  BY <1>1 DEF Populated
<1>4. ScriptIsRight'
  BY <1>1, <1>3 DEF ScriptIsRight
<1>5. NothingIsLeft'
  BY <1>1 DEF NothingIsLeft
<1>6. PointersAreAlive'
  BY <1>1 DEF PointersAreAlive, Easy!PointersAreAlive
<1>. QED
  BY <1>2, <1>4, <1>5, <1>6

LEMMA ResetAttaches == Attaches(Easy!ResetCalls)
<1>1. To("ERRORBUFFER", "error_buf") \in Elements(Easy!ResetLayers)
  BY LayersElements DEF ResetSet, InitSet
<1>2. PICK i \in 1..Len(Easy!ResetLayers) : Easy!ResetLayers[i].opt = "ERRORBUFFER"
  BY <1>1 DEF Elements, To
<1>3. /\ Len(Easy!ResetCalls) \in Nat /\ Len(Tail(Easy!ResetCalls)) = Len(Easy!ResetCalls) - 1
      /\ \A j \in 1..Len(Tail(Easy!ResetCalls)) :
           Tail(Easy!ResetCalls)[j] = Easy!ResetCalls[j + 1]
  BY ResetShape, HeadTailProperties, LenProperties
<1>4. i + 1 \in 1..Len(Easy!ResetCalls) /\ Easy!ResetCalls[i + 1].opt = "ERRORBUFFER"
  BY <1>2, <1>3, ResetShape
<1>. QED
  BY <1>4 DEF Attaches

LEMMA ResetStep ==
  ASSUME EasyInv, Easy!ResetEasyState
  PROVE  EasyInv'
<1>. USE DEF EasyInv
<1>1. /\ UNCHANGED <<client, uses, request, owned, err>>
      /\ phase' = "reset" /\ script' = Easy!ResetCalls /\ state' = Easy!NoOne
      /\ opts' = [opts EXCEPT !["body_stream"] = Easy!Null]
  BY DEF Easy!ResetEasyState
<1>2. Easy!Null \in Values /\ "body_stream" \in Easy!Options
  BY DEF Easy!Null, Values, Words, Easy!Options
<1>3. EasyTypeOK'
  BY <1>1, <1>2, ResetShape DEF EasyTypeOK
<1>4. opts'["body_stream"] = Easy!Null
  BY <1>1, <1>2 DEF EasyTypeOK
<1>5. ScriptIsRight'
  BY <1>1, <1>4 DEF ScriptIsRight
<1>6. NothingIsLeft'
  BY <1>1, ResetAttaches DEF NothingIsLeft
<1>7. PointersAreAlive'
  BY <1>1, <1>2 DEF EasyTypeOK, PointersAreAlive, Easy!PointersAreAlive, Easy!Owned
<1>. QED
  BY <1>3, <1>5, <1>6, <1>7

LEMMA EasyStep ==
  ASSUME EasyInv, [Easy!Next]_(Easy!vars)
  PROVE  EasyInv'
<1>1. CASE Easy!Next
  BY <1>1, CallStep, CallFailsStep, FinishStep, PopulateStep, TransferStep, ResetStep
     DEF Easy!Next
<1>2. CASE UNCHANGED Easy!vars
  BY <1>2 DEF Easy!vars, EasyInv, EasyTypeOK, ScriptIsRight, Leaves, Populated,
              NothingIsLeft, PointersAreAlive, Easy!PointersAreAlive
<1>. QED
  BY <1>1, <1>2

LEMMA EasyIsFresh ==
  ASSUME EasyInv
  PROVE  ReusedIsFresh
<1>1. phase = "transfer" => opts = Easy!After(Easy!Made, Easy!PopulateCalls(client, request, uses))
  BY DEF EasyInv, ScriptIsRight, Populated
<1>. QED
  BY <1>1 DEF EasyInv, NothingIsLeft, ReusedIsFresh, Easy!ReusedIsFresh

-----------------------------------------------------------------------------
(* The composition: a step is a step of one part, and the others stutter.  *)

LEMMA PartsStep ==
  ASSUME [PartsNext]_PartsVars
  PROVE  /\ [Easy!Next]_(Easy!vars) /\ [Share!Next]_(Share!vars)
         /\ [Header!Next]_(Header!vars)
<1>1. easyVars' = easyVars => UNCHANGED Easy!vars
  BY DEF easyVars, Easy!vars
<1>2. shareVars' = shareVars => UNCHANGED Share!vars
  BY DEF shareVars, Share!vars
<1>3. headerVars' = headerVars => UNCHANGED Header!vars
  BY DEF headerVars, Header!vars
<1>. QED
  BY <1>1, <1>2, <1>3 DEF PartsNext, PartsVars

\* A handle that is used again has, for its transfer, exactly the options a new handle
\* would have: reset_easy_state and the layers' reset leave nothing of an earlier
\* request, whatever the clients, the requests and the calls that fail.
THEOREM HandlesAreFresh == PartsSpec => []ReusedIsFresh
<1>1. PartsInit => EasyInv
  BY EasyInit DEF PartsInit
<1>2. EasyInv /\ [PartsNext]_PartsVars => EasyInv'
  BY EasyStep, PartsStep
<1>3. EasyInv => ReusedIsFresh
  BY EasyIsFresh
<1>. QED
  BY <1>1, <1>2, <1>3, PTL DEF PartsSpec

\* The header list and the mime that curl would read are alive, at every step of every
\* phase: a layer replaces its object only once curl has taken the new one.
THEOREM PointersStayAlive == PartsSpec => []PointersAreAlive
<1>1. PartsInit => EasyInv
  BY EasyInit DEF PartsInit
<1>2. EasyInv /\ [PartsNext]_PartsVars => EasyInv'
  BY EasyStep, PartsStep
<1>3. EasyInv => PointersAreAlive
  BY DEF EasyInv
<1>. QED
  BY <1>1, <1>2, <1>3, PTL DEF PartsSpec

\* A thread inside a section has its mutex and the guard in its slot is its own, and
\* lock_function never finds the slot full: any threads, any nesting of sections.
THEOREM SectionsExclude == PartsSpec => []SharedDataIsExclusive
<1>1. ShareArguments
  BY CurlPartsAssumption DEF ShareArguments, Kinds
<1>2. PartsInit => ShareInv
  BY <1>1, ShareInit DEF PartsInit
<1>3. ShareInv /\ [PartsNext]_PartsVars => ShareInv'
  BY <1>1, ShareStep, PartsStep
<1>4. ShareInv => SharedDataIsExclusive
  BY ShareIsExclusive
<1>. QED
  BY <1>2, <1>3, <1>4, PTL DEF PartsSpec

\* A response header that is taken ends with the final block's, all of it, whatever the
\* final block is, however many foreseen blocks came before it, and whenever it is taken.
THEOREM HeadersAreComplete == PartsSpec => []HeaderIsComplete
<1>1. PartsInit => HeaderInv
  BY HeaderInit DEF PartsInit
<1>2. HeaderInv /\ [PartsNext]_PartsVars => HeaderInv'
  BY HeaderStep, PartsStep
<1>3. HeaderInv => HeaderIsComplete
  BY HeaderIsWhole
<1>. QED
  BY <1>1, <1>2, <1>3, PTL DEF PartsSpec

=============================================================================
