----------------------------- MODULE CurlShare -----------------------------
(***************************************************************************)
(* The share handle of the curl backend: one mutex for each kind of shared *)
(* data, locked and unlocked by libcurl through lock_function and          *)
(* unlock_function from every thread that drives an easy handle.  The two  *)
(* callbacks are separate calls, so the guard waits in a slot, which has a *)
(* mutex of its own, from the one to the other.                            *)
(***************************************************************************)
EXTENDS Naturals, Sequences

CONSTANTS
  Threads,   \* threads that drive easy handles
  Sections,  \* libcurl's critical sections: the kinds it locks, one inside the other
  MaxRounds  \* bound on the sections a thread goes through

\* curl_lock_data: the kinds that init_options shares.
Kind == [COOKIE |-> 2, DNS |-> 3, SSL_SESSION |-> 4, CONNECT |-> 5, PSL |-> 6, HSTS |-> 7]

\* RawShare::mutexes has 7 elements; the kinds after the last use the last.
Mutexes == 0..6
Index(kind) == IF Kind[kind] < 6 THEN Kind[kind] ELSE 6

NoThread == "none"

VARIABLES
  section,   \* the kinds each thread has still to lock
  inside,    \* the kinds it has locked, the innermost last
  pc,        \* "run", or the step of lock_function or unlock_function it is at
  rounds,    \* sections it has been through
  main,      \* each mutex's holder
  slotLock,  \* each slot's mutex: its holder
  slot       \* the thread whose guard of the mutex is in the slot

vars == <<section, inside, pc, rounds, main, slotLock, slot>>

Init ==
  /\ section = [t \in Threads |-> <<>>] /\ inside = [t \in Threads |-> <<>>]
  /\ pc = [t \in Threads |-> "run"] /\ rounds = [t \in Threads |-> 0]
  /\ main = [m \in Mutexes |-> NoThread]
  /\ slotLock = [m \in Mutexes |-> NoThread] /\ slot = [m \in Mutexes |-> NoThread]

Goto(t, p) == pc' = [pc EXCEPT ![t] = p]

\* libcurl comes to a critical section.
Enter(t) ==
  /\ pc[t] = "run" /\ section[t] = <<>> /\ inside[t] = <<>> /\ rounds[t] < MaxRounds
  /\ \E s \in Sections : section' = [section EXCEPT ![t] = s]
  /\ rounds' = [rounds EXCEPT ![t] = @ + 1]
  /\ UNCHANGED <<inside, pc, main, slotLock, slot>>

-----------------------------------------------------------------------------
(* lock_function.                                                          *)

LockMain(t) ==
  /\ pc[t] = "run" /\ section[t] # <<>>
  /\ main[Index(Head(section[t]))] = NoThread
  /\ main' = [main EXCEPT ![Index(Head(section[t]))] = t]
  /\ Goto(t, "store")
  /\ UNCHANGED <<section, inside, rounds, slotLock, slot>>

\* The guard goes into the slot, which must be empty.
Store(t) ==
  LET m == Index(Head(section[t])) IN
  /\ pc[t] = "store" /\ slotLock[m] = NoThread
  /\ IF slot[m] # NoThread
       THEN Goto(t, "panicked") /\ UNCHANGED <<section, inside, slot>>
       ELSE /\ Goto(t, "run")
            /\ slot' = [slot EXCEPT ![m] = t]
            /\ inside' = [inside EXCEPT ![t] = Append(@, Head(section[t]))]
            /\ section' = [section EXCEPT ![t] = Tail(@)]
  /\ UNCHANGED <<rounds, main, slotLock>>

-----------------------------------------------------------------------------
(* unlock_function: the guard is dropped while the slot is locked.         *)

Innermost(t) == Index(inside[t][Len(inside[t])])

LockSlot(t) ==
  /\ pc[t] = "run" /\ section[t] = <<>> /\ inside[t] # <<>>
  /\ slotLock[Innermost(t)] = NoThread
  /\ slotLock' = [slotLock EXCEPT ![Innermost(t)] = t]
  /\ Goto(t, "unlock")
  /\ UNCHANGED <<section, inside, rounds, main, slot>>

\* Variant of DropGuard: the mutex is free before the guard is out of the slot.
DropGuardFirst(t) ==
  LET m == Innermost(t) IN
  \/ /\ pc[t] = "unlock" /\ main[m] = t
     /\ main' = [main EXCEPT ![m] = NoThread]
     /\ slotLock' = [slotLock EXCEPT ![m] = NoThread]
     /\ UNCHANGED <<section, inside, pc, rounds, slot>>
  \/ /\ pc[t] = "unlock" /\ main[m] # t
     /\ slot' = [slot EXCEPT ![m] = NoThread]
     /\ Goto(t, "leave")
     /\ UNCHANGED <<section, inside, rounds, main, slotLock>>

\* take(), and the drop of what it took.
DropGuard(t) ==
  LET m == Innermost(t) IN
  /\ pc[t] = "unlock"
  /\ slot' = [slot EXCEPT ![m] = NoThread]
  /\ main' = IF slot[m] = NoThread THEN main ELSE [main EXCEPT ![m] = NoThread]
  /\ Goto(t, "leave")
  /\ UNCHANGED <<section, inside, rounds, slotLock>>

\* The end of the statement.
UnlockSlot(t) ==
  /\ pc[t] = "leave"
  /\ slotLock' = [m \in Mutexes |-> IF slotLock[m] = t THEN NoThread ELSE slotLock[m]]
  /\ inside' = [inside EXCEPT ![t] = SubSeq(@, 1, Len(@) - 1)]
  /\ Goto(t, "run")
  /\ UNCHANGED <<section, rounds, main, slot>>

-----------------------------------------------------------------------------

Next ==
  \E t \in Threads :
    Enter(t) \/ LockMain(t) \/ Store(t) \/ LockSlot(t) \/ DropGuard(t) \/ UnlockSlot(t)

Spec == Init /\ [][Next]_vars

-----------------------------------------------------------------------------
(* Properties.                                                             *)

\* A thread that libcurl let into a section has the section's mutex, and the guard in
\* the slot is its own, so that its unlock, and no other, frees it.
Holds(t, kind) == main[Index(kind)] = t /\ slot[Index(kind)] = t

\* Every section is exclusive, and no lock_function meets a full slot.
SharedDataIsExclusive ==
  \A t \in Threads :
    /\ pc[t] # "panicked"
    /\ pc[t] \in {"run", "store"} =>
         \A i \in 1..Len(inside[t]) : Holds(t, inside[t][i])

=============================================================================
