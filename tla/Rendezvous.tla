----------------------------- MODULE Rendezvous -----------------------------
(***************************************************************************)
(* What the message kernel promises its clients: synchronous message       *)
(* passing without buffers.  A message changes hands only when one process *)
(* offers it and the other accepts offers from that process; whoever comes *)
(* first waits.  There are no flag words, no lists, no order among the     *)
(* processes that offer, and the kernel halts for one reason only: an      *)
(* offer that would close a circle of processes that all offer.            *)
(***************************************************************************)
EXTENDS Integers

CONSTANTS Proc, MsgType, HARD_INT, UNSET, ANY, INTERRUPT

VARIABLES
  want,     \* what a process waits for: Idle, an offer or an acceptance
  buf,      \* the message a process offers or was last given
  raised,   \* the processes with an interrupt that has not been taken yet
  halted

absVars == <<want, buf, raised, halted>>

Idle == [op |-> "idle"]
Offering(d) == [op |-> "offer", to |-> d]
Accepting(s) == [op |-> "accept", from |-> s]

IntMessage == [source |-> INTERRUPT, type |-> HARD_INT]

Init ==
  /\ want = [p \in Proc |-> Idle]
  /\ buf = [p \in Proc |-> [source |-> p, type |-> UNSET]]
  /\ raised = {}
  /\ ~halted

\* d waits for a message that p may provide.
Accepts(d, p) == want[d] \in {Accepting(p), Accepting(ANY)}

\* With p's offer to d, all of S would be offering inside S.
Circle(S, p, d) ==
  /\ p \in S /\ d \in S
  /\ \A q \in S \ {p} : \E r \in S : want[q] = Offering(r)

Halt(p, d, m) ==
  /\ want[p] = Idle /\ \E S \in SUBSET Proc : Circle(S, p, d)
  /\ halted' = TRUE
  /\ buf' = [buf EXCEPT ![p] = m]
  /\ UNCHANGED <<want, raised>>

\* The receiver came first.
Give(p, d, m) ==
  /\ want[p] = Idle /\ Accepts(d, p)
  /\ want' = [want EXCEPT ![d] = Idle]
  /\ buf' = [buf EXCEPT ![p] = m, ![d] = m]
  /\ UNCHANGED <<raised, halted>>

Offer(p, d, m) ==
  /\ want[p] = Idle /\ ~Accepts(d, p)
  /\ ~\E S \in SUBSET Proc : Circle(S, p, d)
  /\ want' = [want EXCEPT ![p] = Offering(d)]
  /\ buf' = [buf EXCEPT ![p] = m]
  /\ UNCHANGED <<raised, halted>>

\* The sender came first.  An interrupt goes before any offer.
Take(p, s, f) ==
  /\ want[p] = Idle /\ want[f] = Offering(p) /\ s \in {f, ANY}
  /\ s = ANY => p \notin raised
  /\ want' = [want EXCEPT ![f] = Idle]
  /\ buf' = [buf EXCEPT ![p] = buf[f]]
  /\ UNCHANGED <<raised, halted>>

TakeInterrupt(p, s) ==
  /\ want[p] = Idle /\ p \in raised /\ s \in {ANY, INTERRUPT}
  /\ raised' = raised \ {p}
  /\ buf' = [buf EXCEPT ![p] = IntMessage]
  /\ UNCHANGED <<want, halted>>

\* Only a process for which there is nothing to take may wait.
Accept(p, s) ==
  /\ want[p] = Idle
  /\ s \in {ANY, INTERRUPT} => p \notin raised
  /\ \A f \in Proc : s \in {f, ANY} => want[f] # Offering(p)
  /\ want' = [want EXCEPT ![p] = Accepting(s)]
  /\ buf' = [buf EXCEPT ![p].source = p]
  /\ UNCHANGED <<raised, halted>>

\* An interrupt is given to a process that waits for it, or remembered once.
Raise(p) ==
  \/ /\ want[p] \in {Accepting(INTERRUPT), Accepting(ANY)}
     /\ want' = [want EXCEPT ![p] = Idle]
     /\ buf' = [buf EXCEPT ![p] = IntMessage]
     /\ UNCHANGED <<raised, halted>>
  \/ /\ want[p] \notin {Accepting(INTERRUPT), Accepting(ANY)}
     /\ raised' = raised \cup {p}
     /\ UNCHANGED <<want, buf, halted>>

Next ==
  /\ ~halted
  /\ \E p \in Proc :
       \/ \E d \in Proc \ {p}, t \in MsgType :
            LET m == [source |-> p, type |-> t]
            IN Halt(p, d, m) \/ Give(p, d, m) \/ Offer(p, d, m)
       \/ \E s \in (Proc \ {p}) \cup {ANY, INTERRUPT} :
            \/ \E f \in Proc \ {p} : Take(p, s, f)
            \/ TakeInterrupt(p, s)
            \/ Accept(p, s)
       \/ Raise(p)

Spec == Init /\ [][Next]_absVars
=============================================================================
