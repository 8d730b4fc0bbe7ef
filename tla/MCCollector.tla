----------------------------- MODULE MCCollector -----------------------------
EXTENDS Collector, TLC

\* Calls of one kind are interchangeable, and so are the listeners the wrapper takes.
Interchangeable ==
  Permutations(Exceptions) \cup Permutations(Registrations)
  \cup Permutations(Listeners \ Malformed)
=============================================================================
