----------------------------- MODULE AtomicRace -----------------------------
(***************************************************************************)
(* quick_check/atomic_race.cpp: three threads, two of them under a mutex,  *)
(* and an atomic flag that the third stores to without it.  What a thread  *)
(* does to the flag is one step each; `state' is touched under the mutex   *)
(* only.  `past' is history: it records the order of the three accesses    *)
(* that decide the outcome, and no guard reads it.                         *)
(***************************************************************************)
EXTENDS Integers

VARIABLES state, flag,
          mtx,      \* the thread that has the mutex, or "free"
          at,       \* where every thread is
          past      \* for each access that has happened, those before it

raceVars == <<state, flag, mtx, at, past>>

RaceInit ==
  /\ state = 0
  /\ flag = FALSE
  /\ mtx = "free"
  /\ at = [t \in {"t1", "t2", "t3"} |-> "start"]
  /\ past = [e \in {} |-> {}]

Goto(t, place) == at' = [at EXCEPT ![t] = place]

\* The access e happens, behind all that have.
Happens(e) == past' = [x \in DOMAIN past \cup {e} |-> IF x = e THEN DOMAIN past ELSE past[x]]

Lock(t) == /\ at[t] = "start"
           /\ mtx = "free"
           /\ mtx' = t
           /\ Goto(t, "load")
           /\ UNCHANGED <<state, flag, past>>

\* The first thread reads the flag only if the state is untouched.
Load1 == /\ at["t1"] = "load"
         /\ state' = IF state = 0 /\ flag THEN 1 ELSE state
         /\ Goto("t1", IF state = 0 THEN "store" ELSE "unlock")
         /\ UNCHANGED <<flag, mtx, past>>

Load2 == /\ at["t2"] = "load"
         /\ state' = IF ~flag THEN 2 ELSE state
         /\ Goto("t2", "store")
         /\ Happens("load2")
         /\ UNCHANGED <<flag, mtx>>

Store1 == /\ at["t1"] = "store"
          /\ flag' = TRUE
          /\ Goto("t1", "unlock")
          /\ Happens("store1")
          /\ UNCHANGED <<state, mtx>>

Store2 == /\ at["t2"] = "store"
          /\ flag' = FALSE
          /\ Goto("t2", "unlock")
          /\ UNCHANGED <<state, mtx, past>>

Unlock(t) == /\ at[t] = "unlock"
             /\ mtx' = "free"
             /\ Goto(t, "end")
             /\ UNCHANGED <<state, flag, past>>

\* Mutant: the third thread raises the flag.
Store3_Raises == /\ at["t3"] = "start"
                 /\ flag' = TRUE
                 /\ Goto("t3", "end")
                 /\ Happens("store3")
                 /\ UNCHANGED <<state, mtx>>

\* The third thread asks for no mutex.
Store3 == /\ at["t3"] = "start"
          /\ flag' = FALSE
          /\ Goto("t3", "end")
          /\ Happens("store3")
          /\ UNCHANGED <<state, mtx>>

Joined == \A t \in DOMAIN at : at[t] = "end"

RaceNext == \/ \E t \in {"t1", "t2"} : Lock(t) \/ Unlock(t)
            \/ Load1 \/ Load2 \/ Store1 \/ Store2 \/ Store3

RaceSpec == RaceInit /\ [][RaceNext]_raceVars

Before(e, f) == f \in DOMAIN past /\ e \in past[f]

\* The second thread loads what the first one stored: it comes behind it and
\* the store of the third thread has not come between them.
FlagReachesT2 ==
  /\ Before("store1", "load2")
  /\ ~ (Before("store1", "store3") /\ Before("store3", "load2"))

\* atomic_race.cpp:43,63-65: what the three threads leave behind depends on
\* their order, in this way and in no other: the flag is down, and the state
\* is 0 if the second thread saw the flag of the first, and 2 if it was too
\* early or the store without the mutex took the flag away.
RaceOutcome ==
  Joined => ~flag /\ state = IF FlagReachesT2 THEN 0 ELSE 2
=============================================================================
