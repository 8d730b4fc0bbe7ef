------------------------------ MODULE Signatures ------------------------------
(***************************************************************************)
(* How a collector finds out how to call a listener                        *)
(* (AsyncExceptionCollectorListenerWrapper, utils.py): it goes through the *)
(* parameters of the listener once and decides which one is to take the    *)
(* exception, which one the collector, and whether they are passed by      *)
(* position or by name; a listener that cannot be called so is refused.    *)
(*                                                                         *)
(* The listener's author chooses the parameters, one at a time.  An        *)
(* annotation that is no class counts as none, as it does in the code.     *)
(***************************************************************************)
EXTENDS Naturals, Sequences, FiniteSets, SequencesExt

CONSTANTS
  Others,    \* names that mean nothing
  MaxParams  \* bound: parameters of a listener

ASSUME OthersAssumption ==
  Others \cap {"e", "exception", "collector", "args", "kwargs", "none"} = {}

VARIABLES
  params,     \* the parameters looked at so far
  exception,  \* how the exception is passed: exception_type, exception_var_name
  collector,  \* how the collector is: accept_collector, collector_var_name
  backable,   \* what a later parameter may still take over
  reverse,    \* reverse_order
  refused     \* the analysis has returned early

vars == << params, exception, collector, backable, reverse, refused >>

Kinds == << "positionalOnly", "positional", "varPositional", "keywordOnly", "varKeyword" >>
ExceptionNames == {"e", "exception"}

NotPassed == [by |-> "none", name |-> "none"]
ByPosition == [by |-> "position", name |-> "none"]
ByName(name) == [by |-> "name", name |-> name]
Passed(x) == x.by # "none"
Ways(names) == {NotPassed, ByPosition} \cup {ByName(n) : n \in names}

Names == ExceptionNames \cup {"collector"} \cup Others
Parameters ==
  [kind : {"positionalOnly", "positional", "keywordOnly"}, name : Names,
   hint : {"none", "exception", "collector", "other"}, default : BOOLEAN]
  \cup [kind : {"varPositional"}, name : {"args"}, default : {FALSE},
        hint : {"none", "exception", "collector", "other"}]
  \cup [kind : {"varKeyword"}, name : {"kwargs"}, default : {FALSE},
        hint : {"none", "exception", "collector", "other"}]

Init ==
  /\ params = << >>
  /\ exception = NotPassed /\ collector = NotPassed
  /\ backable = {} /\ reverse = FALSE /\ refused = FALSE

-----------------------------------------------------------------------------
(* analyze_signature                                                       *)

\* calc_exception_type and is_collector_type
TakesException(p) == ~p.default /\ p.hint \in {"none", "exception"}
TakesCollector(p) == ~p.default /\ p.hint \in {"none", "collector"}

Way(p) == IF p.kind = "positionalOnly" THEN ByPosition ELSE ByName(p.name)

Refuse ==
  /\ refused' = TRUE
  /\ UNCHANGED << exception, collector, backable, reverse >>

ExceptionAt(p) ==
  /\ exception' = Way(p)
  /\ backable' = backable \ {"exception"}
  /\ reverse' = IF p.kind = "keywordOnly" THEN reverse ELSE Passed(collector)
  /\ UNCHANGED << collector, refused >>

CollectorAtReversed(p) ==
  /\ collector' = Way(p)
  /\ backable' = backable \ {"collector"}
  /\ reverse' = TRUE
  /\ UNCHANGED << exception, refused >>
CollectorAt(p) ==
  /\ collector' = Way(p)
  /\ backable' = backable \ {"collector"}
  /\ reverse' = IF p.kind = "keywordOnly" THEN reverse ELSE ~Passed(exception)
  /\ UNCHANGED << exception, refused >>

ForException(p) == p.name \in ExceptionNames /\ TakesException(p)
ForCollector(p) == p.name = "collector" /\ TakesCollector(p)

\* By its name a parameter takes what is not taken yet, or may be taken over.
MayTake(x, what) == ~Passed(x) \/ what \in backable

Named(p) ==
  \/ ForException(p) /\ (IF MayTake(exception, "exception") THEN ExceptionAt(p) ELSE Refuse)
  \/ ForCollector(p) /\ (IF MayTake(collector, "collector") THEN CollectorAt(p) ELSE Refuse)

\* A positional one takes by its annotation what is not taken yet.
MayBeLeftAlways(p) == TRUE
MayBeLeft(p) == p.default

Unnamed(p) ==
  /\ ~ForException(p) /\ ~ForCollector(p)
  /\ LET positional == p.kind # "keywordOnly"
     IN  IF positional /\ ~Passed(exception) /\ TakesException(p) THEN ExceptionAt(p)
         ELSE IF positional /\ ~Passed(collector) /\ TakesCollector(p) THEN CollectorAt(p)
         ELSE IF ~MayBeLeft(p) THEN Refuse
         ELSE UNCHANGED << exception, collector, backable, reverse, refused >>

\* *args takes what is not taken yet, **kwargs by a name of its own; the
\* collector whatever the annotation.
TakesTheRest(p, forException, forCollector) ==
  LET takes == ~Passed(exception) /\ TakesException(p)
  IN  /\ exception' = IF takes THEN forException ELSE exception
      /\ collector' = IF Passed(collector) THEN collector ELSE forCollector
      /\ backable' = backable \cup (IF Passed(exception) THEN {} ELSE {"exception"})
                              \cup (IF Passed(collector) THEN {} ELSE {"collector"})

ReverseOfArgs ==
  IF ~Passed(collector) THEN ~Passed(exception')
  ELSE IF ~Passed(exception) THEN TRUE ELSE reverse

Var(p) ==
  /\ \/ /\ p.kind = "varPositional"
        /\ TakesTheRest(p, ByPosition, ByPosition)
        /\ reverse' = ReverseOfArgs
     \/ /\ p.kind = "varKeyword"
        /\ TakesTheRest(p, ByName("exception"), ByName("collector"))
        /\ UNCHANGED reverse
  /\ UNCHANGED refused

\* What Python lets follow the parameters so far.
Rank(p) == CHOOSE k \in DOMAIN Kinds : Kinds[k] = p.kind
Allowed(p) ==
  \A i \in DOMAIN params :
    /\ Rank(params[i]) <= Rank(p) /\ params[i].name # p.name
    /\ params[i].default /\ Rank(p) <= 2 => p.default

Analyze(p) ==
  /\ ~refused /\ Len(params) < MaxParams /\ Allowed(p)
  /\ params' = Append(params, p)
  /\ \/ p.kind \in {"varPositional", "varKeyword"} /\ Var(p)
     \/ p.kind \notin {"varPositional", "varKeyword"} /\ (Named(p) \/ Unnamed(p))

Next == \E p \in Parameters : Analyze(p)

Spec == Init /\ [][Next]_vars

-----------------------------------------------------------------------------
(* invoke, and what Python makes of the call                               *)

PassedByPosition ==
  LET args == (IF exception = ByPosition THEN << "exception" >> ELSE << >>)
              \o (IF collector = ByPosition THEN << "collector" >> ELSE << >>)
  IN  IF reverse THEN Reverse(args) ELSE args

\* The keyword arguments.  One name for both holds the collector only.
PassedByName ==
  {<< x.name, "exception" >> : x \in {x \in {exception} : x.by = "name" /\ x # collector}}
  \cup {<< x.name, "collector" >> : x \in {x \in {collector} : x.by = "name"}}

Star == SelectInSeq(params, LAMBDA p : p.kind = "varPositional")
DoubleStar == SelectInSeq(params, LAMBDA p : p.kind = "varKeyword")
Positionals == {i \in DOMAIN params : params[i].kind \in {"positionalOnly", "positional"}}

\* The parameter that an argument lands on; 0 is none.
ByPositionTo(k) == IF k \in Positionals THEN k ELSE Star
ByNameTo(name) ==
  LET i == SelectInSeq(params, LAMBDA p : p.name = name /\ p.kind \in {"positional", "keywordOnly"})
  IN  IF i # 0 THEN i ELSE DoubleStar

Landed ==
  {<< ByPositionTo(k), PassedByPosition[k] >> : k \in DOMAIN PassedByPosition}
  \cup {<< ByNameTo(x[1]), x[2] >> : x \in PassedByName}

-----------------------------------------------------------------------------
(* Properties                                                              *)

Taken(i) == {x \in Landed : x[1] = i}
Required(p) == p.kind \in {"positionalOnly", "positional", "keywordOnly"} /\ ~p.default

\* What *args or **kwargs was to take lands on a parameter before it.
Shadowed ==
  \E what \in backable :
    /\ Passed(IF what = "exception" THEN exception ELSE collector)
    /\ ~\E i \in {Star, DoubleStar} : << i, what >> \in Landed

\* invoke: a listener that was not refused can be called.  No argument is left
\* over, no parameter is given two, none that needs one is left without.
CallBinds ==
  ~refused /\ ~Shadowed =>
    /\ \A x \in Landed : x[1] # 0
    /\ \A i \in DOMAIN params \ {Star, DoubleStar} : Cardinality(Taken(i)) <= 1
    /\ \A i \in DOMAIN params : Required(params[i]) => Taken(i) # {}

\* analyze_signature: each argument lands where the annotation lets it, and on
\* the parameter that has the name for it, if there is one.
ArgumentsFit ==
  ~refused /\ ~Shadowed =>
    /\ \A x \in Landed : x[1] \in {Star, DoubleStar} \/ params[x[1]].hint \in {"none", x[2]}
    /\ \A i \in DOMAIN params :
         /\ ForException(params[i]) => << i, "exception" >> \in Landed
         /\ ForCollector(params[i]) => << i, "collector" >> \in Landed
=============================================================================
