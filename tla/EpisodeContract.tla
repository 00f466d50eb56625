-------------------------- MODULE EpisodeContract --------------------------
(***************************************************************************)
(* What a client may rely on, without leases, workers, attempts' rows or   *)
(* time: an episode is admitted at most once and within the capacity, is   *)
(* tried a bounded number of times while it is pending, and is settled     *)
(* once, with an outcome that is announced in the same step, or withdrawn  *)
(* without one.  EpisodeRepository implements it (Contract there).         *)
(***************************************************************************)
EXTENDS Naturals, Sequences, FiniteSets

CONSTANTS
  Episode,   \* episode identities
  Outcome,   \* the results an episode may end with
  NoOutcome, \* none of them
  MaxTries,  \* attempts an episode may get
  Capacity   \* episodes admitted and not finished

VARIABLES
  phase,     \* of each episode: unknown, pending, withdrawing or finished
  tries,     \* the attempt it is at
  outcome,   \* the result it was settled with
  announced  \* the results its client was told

contractVars == <<phase, tries, outcome, announced>>

Open == {"pending", "withdrawing"}

Init ==
  /\ phase = [e \in Episode |-> "unknown"]
  /\ tries = [e \in Episode |-> 1]
  /\ outcome = [e \in Episode |-> NoOutcome]
  /\ announced = [e \in Episode |-> <<>>]

\* A batch is admitted as a whole.
Admit(batch) ==
  /\ \A e \in batch : phase[e] = "unknown"
  /\ phase' = [e \in Episode |-> IF e \in batch THEN "pending" ELSE phase[e]]
  /\ Cardinality({e \in Episode : phase'[e] \in Open}) <= Capacity
  /\ UNCHANGED <<tries, outcome, announced>>

\* Another try: neither announced nor visible as an outcome.
TryAgain(e) ==
  /\ phase[e] = "pending"
  /\ tries[e] < MaxTries
  /\ tries' = [tries EXCEPT ![e] = @ + 1]
  /\ UNCHANGED <<phase, outcome, announced>>

Settle(e, o) ==
  /\ phase[e] \in Open
  /\ phase' = [phase EXCEPT ![e] = "finished"]
  /\ outcome' = [outcome EXCEPT ![e] = o]
  /\ announced' = [announced EXCEPT ![e] = Append(@, o)]
  /\ UNCHANGED tries

\* A cancellation ends what no worker holds and stops further tries of the rest.
Withdraw(ended, stopped) ==
  /\ \A e \in ended \cup stopped : phase[e] = "pending"
  /\ ended \cap stopped = {}
  /\ phase' = [e \in Episode |-> IF e \in ended THEN "finished"
                                 ELSE IF e \in stopped THEN "withdrawing" ELSE phase[e]]
  /\ UNCHANGED <<tries, outcome, announced>>

Next ==
  \/ \E batch \in SUBSET Episode : Admit(batch)
  \/ \E e \in Episode : TryAgain(e)
  \/ \E e \in Episode, o \in Outcome : Settle(e, o)
  \/ \E ended, stopped \in SUBSET Episode : Withdraw(ended, stopped)

Spec == Init /\ [][Next]_contractVars
=============================================================================
