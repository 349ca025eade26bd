----------------------------- MODULE CopyFallback -----------------------------
(***************************************************************************)
(* What a verification promises about the copies of a backup, without how  *)
(* it is done: the copies are tried one after the other, a copy that fails *)
(* on its own is followed by the next one, a copy that can be judged ends  *)
(* the search, and if no copy can be, the answer is the most severe of the *)
(* failures, the earliest of equals.  Only an event that concerns every    *)
(* copy lets it give up while a copy is untried.                           *)
(***************************************************************************)
EXTENDS Naturals, Sequences

CONSTANT Copies     \* number of copies, in the order they are tried

VARIABLES tried,    \* failures of the copies tried so far
          happened, \* events so far
          answer    \* what the caller gets

vars == <<tried, happened, answer>>

\* A download that failed carries no result of its own.
Rank == [download_failed |-> 0, aborted |-> 1, unreadable |-> 1,
         password_required |-> 2, internal_error |-> 3, corrupt |-> 4]
Failures == DOMAIN Rank
NoAnswer == [status |-> "none", copy |-> 0]

\* What allows giving up for all copies at once, by the answer it leads to.
Causes == [aborted    |-> {"deadline", "space", "database_timeout", "agent_timeout"},
           unreadable |-> {"inventory", "staging"},
           raised     |-> {"staging", "agent_gone", "runner"},
           cancelled  |-> {"cancel"}]
Events == UNION {Causes[s] : s \in DOMAIN Causes}

\* The copy whose failure is reported when all have failed.
Worst(failures) ==
  CHOOSE c \in DOMAIN failures :
    /\ \A d \in DOMAIN failures : Rank[failures[d]] <= Rank[failures[c]]
    /\ \A d \in 1..c-1 : Rank[failures[d]] < Rank[failures[c]]

AllFailed(failures) ==
  LET c == Worst(failures)
  IN IF failures[c] = "download_failed" THEN [status |-> "unreadable", copy |-> 0]
                                        ELSE [status |-> failures[c], copy |-> c]

Init == tried = <<>> /\ happened = {} /\ answer = NoAnswer

\* A new verification; the one before may have been lost with its process.
Begin == tried' = <<>> /\ happened' = {} /\ answer' = NoAnswer

Happen(e) == happened' = happened \cup {e} /\ UNCHANGED <<tried, answer>>

Fail(f) ==
  /\ answer = NoAnswer
  /\ Len(tried) < Copies
  /\ tried' = Append(tried, f)
  /\ UNCHANGED <<happened, answer>>

\* A copy is judged: sound, or readable with a damaged database.
Judge(status) ==
  /\ answer = NoAnswer
  /\ Len(tried) < Copies
  /\ answer' = [status |-> status, copy |-> Len(tried) + 1]
  /\ UNCHANGED <<tried, happened>>

Exhaust ==
  /\ answer = NoAnswer
  /\ Len(tried) = Copies
  /\ answer' = AllFailed(tried)
  /\ UNCHANGED <<tried, happened>>

GiveUp(status) ==
  /\ answer = NoAnswer
  /\ \E e \in Causes[status] : happened' = happened \cup {e}
  /\ answer' = [status |-> status, copy |-> 0]
  /\ UNCHANGED tried

Next ==
  \/ Begin
  \/ \E e \in Events : Happen(e)
  \/ \E f \in Failures : Fail(f)
  \/ \E s \in {"valid", "corrupt"} : Judge(s)
  \/ Exhaust
  \/ \E s \in DOMAIN Causes : GiveUp(s)

Spec == Init /\ [][Next]_vars
=============================================================================
