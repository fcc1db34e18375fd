------------------------------- MODULE RwLock -------------------------------
(***************************************************************************)
(* What the class comment of rw_semaphore promises: any number of readers  *)
(* or one writer hold the lock; a writer that waits is announced, and no   *)
(* reader gets in while one is.                                            *)
(***************************************************************************)
CONSTANT Threads

VARIABLE mode    \* mode[t]: what thread t has of the lock

Modes == {"none", "reading", "waiting", "writing"}

Init == mode = [t \in Threads |-> "none"]

In(m) == {t \in Threads : mode[t] = m}

Move(t, from, to) ==
  /\ mode[t] = from
  /\ mode' = [mode EXCEPT ![t] = to]

AcquireShared(t) ==
  /\ In("waiting") \cup In("writing") = {}
  /\ Move(t, "none", "reading")

ReleaseShared(t) == Move(t, "reading", "none")

Announce(t) ==
  /\ In("waiting") \cup In("writing") = {}
  /\ Move(t, "none", "waiting")

AcquireExclusive(t) ==
  /\ In("reading") = {}
  /\ Move(t, "waiting", "writing")

ReleaseExclusive(t) == Move(t, "writing", "none")

Next ==
  \E t \in Threads :
    \/ AcquireShared(t)
    \/ ReleaseShared(t)
    \/ Announce(t)
    \/ AcquireExclusive(t)
    \/ ReleaseExclusive(t)

Spec == Init /\ [][Next]_mode
=============================================================================
