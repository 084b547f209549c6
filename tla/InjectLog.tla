----------------------------- MODULE InjectLog -----------------------------
(***************************************************************************)
(* What the session store promises to those who submit transactions to it, *)
(* with no word of segments, checkpoints or recoveries: a log that only    *)
(* grows, and answers that agree with it.  A transaction whose outcome is  *)
(* unknown may enter the log later, whole, or never.  What was answered    *)
(* stands, with one exception: a submitter that was once in doubt asks     *)
(* again after every recovery, and may then hear that a transaction which  *)
(* was found committed has not been applied.  The ledger owner and its     *)
(* client (Ledger) are shown to implement it.                              *)
(***************************************************************************)
EXTENDS Sequences, SequencesExt

CONSTANT Txn

VARIABLES
  log,      \* the committed transactions
  outcome   \* outcome[t]: what the submitter of t has been told

logVars == <<log, outcome>>

Outcome == {"none", "pending", "acked", "duplicate", "nacked", "unknown",
            "committed", "not_applied"}

Init ==
  /\ log = <<>>
  /\ outcome = [t \in Txn |-> "none"]

\* May still enter the log: nobody was told that it will not.
Undecided(t) == outcome[t] \in {"pending", "unknown"}

\* What the submitter of t is told agrees with the log after the step, except
\* in the last case, where the receipt that t is committed has been trimmed.
Answer(t) ==
  \/ outcome'[t] = outcome[t]
  \/ outcome[t] = "none" /\ outcome'[t] = "pending"
  \/ /\ outcome[t] = "pending"
     /\ \/ outcome'[t] = "acked" /\ t \in ToSet(log')
        \/ outcome'[t] \in {"duplicate", "nacked"} /\ t \notin ToSet(log')
        \/ outcome'[t] = "unknown"
  \/ /\ outcome[t] = "unknown"
     /\ \/ outcome'[t] = "committed" /\ t \in ToSet(log')
        \/ outcome'[t] = "not_applied" /\ t \notin ToSet(log')
  \/ outcome[t] = "committed" /\ outcome'[t] = "not_applied"

Next ==
  /\ IsPrefix(log, log') /\ IsInjective(log')
  /\ \A t \in ToSet(log') \ ToSet(log) : Undecided(t)
  /\ outcome' \in [Txn -> Outcome]
  /\ \A t \in Txn : Answer(t)

Spec == Init /\ [][Next]_logVars
=============================================================================
