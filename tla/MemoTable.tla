----------------------------- MODULE MemoTable -----------------------------
(***************************************************************************)
(* What the integral caches of libscuff (FIBBICache, QIFIPPICache) promise *)
(* to the threads of the matrix assembly: a thread that asks for a key     *)
(* gets a value that belongs to that key, whatever the other threads *)
(* ask for at the same time.                                               *)
(***************************************************************************)
CONSTANTS Threads, Keys, None,
          Value          \* the integrals that may be given for each key

VARIABLES asked,         \* the key each thread waits for, or None
          answer         \* what it was given, or None

Init == /\ asked = [t \in Threads |-> None]
        /\ answer = [t \in Threads |-> None]

Ask(t, k) ==
  /\ asked[t] = None
  /\ asked' = [asked EXCEPT ![t] = k]
  /\ UNCHANGED answer

Answer(t) ==
  /\ asked[t] # None /\ answer[t] = None
  /\ \E v \in Value[asked[t]] : answer' = [answer EXCEPT ![t] = v]
  /\ UNCHANGED asked

Leave(t) ==
  /\ answer[t] # None
  /\ asked' = [asked EXCEPT ![t] = None]
  /\ answer' = [answer EXCEPT ![t] = None]

Next == \E t \in Threads : (\E k \in Keys : Ask(t, k)) \/ Answer(t) \/ Leave(t)

Spec == Init /\ [][Next]_<<asked, answer>>
=============================================================================
