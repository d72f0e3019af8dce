----------------------------- MODULE SourceState ----------------------------
(* source_state.py: the portable ledger SOURCES.md for one source.  A snapshot
   is [rev, selected, obs]: its content revision, whether the source is
   selected, and the last observation of it (Nothing before the first).  Each
   operation is a function to the next snapshot, or Refused. *)
EXTENDS Naturals

CONSTANTS Nothing, Refused

\* empty_source_snapshot
EmptySnapshot == [rev |-> 0, selected |-> FALSE, obs |-> Nothing]

\* select_sources: deselecting purges the coverage of the source.
Selected(snap, keep, rev) ==
  [rev |-> rev, selected |-> keep, obs |-> IF keep THEN snap.obs ELSE Nothing]

\* record_source_observation, result failure: coverage, account and evidence
\* stay what the last success made them.
FailureRecorded(snap, rev) ==
  IF ~snap.selected THEN Refused
  ELSE [snap EXCEPT !.rev = rev,
          !.obs = IF @ = Nothing
                    THEN [result |-> "failure", account |-> Nothing, covered |-> 0,
                          complete |-> Nothing, evidence |-> <<>>]
                    ELSE [@ EXCEPT !.result = "failure"]]

\* record_source_observation, a read that succeeded: the account is the one the
\* coverage began with, and neither the horizon nor the completeness at one
\* horizon may go back.
SuccessRecorded(snap, o, rev) ==
  LET prior == snap.obs
  IN IF \/ ~snap.selected
        \/ prior # Nothing /\ prior.account # Nothing /\ prior.account # o.account
        \/ prior # Nothing /\ prior.covered > o.covered
        \/ /\ prior # Nothing
           /\ prior.covered = o.covered
           /\ prior.complete = TRUE
           /\ ~o.complete
     THEN Refused
     ELSE [snap EXCEPT !.rev = rev,
             !.obs = [result |-> "success", account |-> o.account, covered |-> o.covered,
                      complete |-> o.complete, evidence |-> o.evidence]]
=============================================================================
