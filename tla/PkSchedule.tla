----------------------------- MODULE PkSchedule -----------------------------
(***************************************************************************)
(* What the transaction list promises its clients, with nothing said of    *)
(* how: a transaction only moves forward; nothing waits in the queue while *)
(* nothing runs; a transaction that is over hands on to exactly one other, *)
(* the oldest in the queue that is not a background one, else the oldest.  *)
(* It does not promise that one transaction runs at a time: see the README.*)
(***************************************************************************)
EXTENDS Integers

CONSTANT MaxTid        \* bound: transactions ever opened

Tid == 1..MaxTid

VARIABLES
  phase,               \* where each transaction is
  low                  \* the background ones of the queue
vars == <<phase, low>>

Phases == {"absent", "open", "queued", "running", "over", "gone"}
In(p) == {t \in Tid : phase[t] = p}

Init == phase = [t \in Tid |-> "absent"] /\ low = {}

Open(t) ==
  /\ phase[t] = "absent"
  /\ phase' = [phase EXCEPT ![t] = "open"]
  /\ UNCHANGED low

Enter(t) ==
  /\ phase[t] = "open"
  /\ \/ /\ In("running") = {}
        /\ phase' = [phase EXCEPT ![t] = "running"]
        /\ UNCHANGED low
     \/ /\ In("running") # {}
        /\ phase' = [phase EXCEPT ![t] = "queued"]
        /\ low' \in {low, low \cup {t}}

Oldest(S) == {t \in S : \A u \in S : t <= u}
Next1(Q) == IF Q \subseteq low THEN Oldest(Q) ELSE Oldest(Q \ low)

Retire(t) ==
  LET next == Next1(In("queued") \ {t})
  IN  /\ phase[t] \in {"open", "queued", "running"}
      /\ phase' = [u \in Tid |-> IF u = t THEN "over"
                                 ELSE IF u \in next THEN "running"
                                 ELSE phase[u]]
      /\ low' = low \ (next \cup {t})

Forget(t) ==
  /\ phase[t] \in {"open", "over"}
  /\ phase' = [phase EXCEPT ![t] = "gone"]
  /\ UNCHANGED low

\* The daemon may abort; it takes every transaction with it.
Halt == phase' = [t \in Tid |-> "absent"] /\ low' = {}

Next == Halt \/ \E t \in Tid : Open(t) \/ Enter(t) \/ Retire(t) \/ Forget(t)
Spec == Init /\ [][Next]_vars
=============================================================================
