---------------------------- MODULE AlgorithmProofs ----------------------------
(***************************************************************************)
(* Proofs about the two algorithms that keep nothing between their calls.  *)
(*                                                                         *)
(* Signatures: a listener that was not refused can be called, and its      *)
(* parameters get what they are for, for any number of parameters and any  *)
(* names.  The argument names the parameter that each of exception and     *)
(* collector was given to, its home, and shows that the call lands it      *)
(* there.                                                                  *)
(*                                                                         *)
(* Sdp, further down: what the edits make of an offer, for any sections,   *)
(* any offer and any options that its assumptions allow.  The invariant    *)
(* cuts the text into its sections, by the lines that they start at.  It   *)
(* says of each section that it is whole, what its m-line lists and which  *)
(* rates it has, by how many edits of the call it has seen.  An edit       *)
(* replaces one section, which moves the cuts behind it, and takes that    *)
(* section one edit further.                                               *)
(***************************************************************************)
EXTENDS Signatures, Sdp, ListLemmas

Rest == {"varPositional", "varKeyword"}
IsPositional(p) == p.kind \in {"positionalOnly", "positional"}

\* Parameters in an order that Python allows.
Ordered ==
  /\ params \in Seq(Parameters)
  /\ \A i, j \in DOMAIN params : i < j =>
       /\ params[i].name # params[j].name
       /\ params[j].kind = "positionalOnly" => params[i].kind = "positionalOnly"
       /\ IsPositional(params[j]) => IsPositional(params[i])
       /\ IsPositional(params[j]) /\ params[i].default => params[j].default

WayOf(p, what) ==
  IF p.kind = "varPositional" THEN ByPosition
  ELSE IF p.kind = "varKeyword" THEN ByName(what) ELSE Way(p)
Takes(p, what) == IF what = "exception" THEN TakesException(p) ELSE TakesCollector(p)
For(p, what) == IF what = "exception" THEN ForException(p) ELSE ForCollector(p)

\* Of the parameters ps the one at h was given what is passed as x says, none if
\* h is 0.  It can be taken over just if it is *args or **kwargs; and it is the
\* one that has the name for it, if there is one.
IsHome(ps, bs, x, what, h) ==
  /\ h \in 0..Len(ps) /\ (h = 0 <=> ~Passed(x))
  /\ h # 0 =>
       /\ x = WayOf(ps[h], what)
       /\ what \in bs <=> ps[h].kind \in Rest
       /\ ps[h].kind \notin Rest => Takes(ps[h], what)
  /\ \A i \in DOMAIN ps : For(ps[i], what) => i = h

\* The homes of exception and collector.  No parameter that needs an argument is
\* left, and the order of two arguments by position is that of their homes.
Homes(e, c) ==
  /\ IsHome(params, backable, exception, "exception", e)
  /\ IsHome(params, backable, collector, "collector", c)
  /\ e = c /\ e # 0 => params[e].kind \in Rest
  /\ \A i \in DOMAIN params : Required(params[i]) => i \in {e, c}
  /\ exception = ByPosition /\ collector = ByPosition /\ e # c => (reverse <=> c < e)

Inv ==
  /\ Ordered /\ refused \in BOOLEAN
  /\ ~refused => \E e, c \in Nat : Homes(e, c)

-----------------------------------------------------------------------------
(* Parameters                                                              *)

\* What the kinds of parameters have in common.
LEMMA ParameterIs ==
  ASSUME NEW p \in Parameters
  PROVE  /\ p.kind \in {"positionalOnly", "positional", "keywordOnly"} \cup Rest
         /\ p.default \in BOOLEAN
         /\ p.kind = "varPositional" => p.name = "args"
         /\ p.kind = "varKeyword" => p.name = "kwargs"
         /\ p.kind \in Rest => ~p.default /\ ~Required(p)
         /\ \A what \in {"exception", "collector"} : For(p, what) => p.kind \notin Rest
  BY OthersAssumption
  DEF Parameters, Rest, Required, For, ForException, ForCollector, ExceptionNames

\* A way is known by what it is.
LEMMA WaysAre ==
  /\ NotPassed.by = "none" /\ ByPosition.by = "position" /\ NotPassed # ByPosition
  /\ \A n : ByName(n).by = "name" /\ ByName(n).name = n
            /\ ByName(n) # ByPosition /\ ByName(n) # NotPassed
  BY DEF NotPassed, ByPosition, ByName

\* The order of the kinds.
LEMMA RankIs ==
  ASSUME NEW p, NEW k \in DOMAIN Kinds, Kinds[k] = p.kind
  PROVE  Rank(p) = k
  <1>1. \A j \in DOMAIN Kinds : Kinds[j] = p.kind => j = k
    BY DEF Kinds
  <1>2. QED
    BY <1>1 DEF Rank

\* What an order by rank says of two parameters.
LEMMA Ranks ==
  ASSUME NEW p \in Parameters
  PROVE  /\ p.kind = "positionalOnly" => Rank(p) = 1
         /\ p.kind = "positional" => Rank(p) = 2
         /\ p.kind = "varPositional" => Rank(p) = 3
         /\ p.kind = "keywordOnly" => Rank(p) = 4
         /\ p.kind = "varKeyword" => Rank(p) = 5
  <1>1. /\ DOMAIN Kinds = 1..5
        /\ Kinds[1] = "positionalOnly" /\ Kinds[2] = "positional" /\ Kinds[3] = "varPositional"
        /\ Kinds[4] = "keywordOnly" /\ Kinds[5] = "varKeyword"
    BY DEF Kinds
  <1>2. QED
    BY <1>1, RankIs

\* The next parameter.
LEMMA OrderedStep ==
  ASSUME Ordered, NEW p \in Parameters, Allowed(p), params' = Append(params, p)
  PROVE  /\ Ordered' /\ Len(params') = Len(params) + 1 /\ params'[Len(params) + 1] = p
         /\ \A i \in DOMAIN params : params'[i] = params[i]
         /\ DOMAIN params' = 1..(Len(params) + 1) /\ DOMAIN params = 1..Len(params)
         /\ Len(params) \in Nat
  <1>1. /\ params' \in Seq(Parameters) /\ Len(params') = Len(params) + 1
        /\ params'[Len(params) + 1] = p /\ Len(params) \in Nat
        /\ DOMAIN params' = 1..(Len(params) + 1) /\ DOMAIN params = 1..Len(params)
        /\ \A i \in 1..Len(params) : params'[i] = params[i] /\ params[i] \in Parameters
    BY DEF Ordered
  <1>2. ASSUME NEW i \in 1..Len(params)
        PROVE  /\ params[i].name # p.name
               /\ p.kind = "positionalOnly" => params[i].kind = "positionalOnly"
               /\ IsPositional(p) => IsPositional(params[i])
               /\ IsPositional(p) /\ params[i].default => p.default
    <2>1. /\ Rank(params[i]) <= Rank(p) /\ params[i].name # p.name
          /\ params[i].default /\ Rank(p) <= 2 => p.default
      BY <1>1 DEF Allowed
    <2>2. params[i] \in Parameters
      BY <1>1
    <2>3. QED
      BY <2>1, <2>2, Ranks, ParameterIs DEF IsPositional, Rest
  <1>3. ASSUME NEW i \in DOMAIN params', NEW j \in DOMAIN params', i < j
        PROVE  /\ params'[i].name # params'[j].name
               /\ params'[j].kind = "positionalOnly" => params'[i].kind = "positionalOnly"
               /\ IsPositional(params'[j]) => IsPositional(params'[i])
               /\ IsPositional(params'[j]) /\ params'[i].default => params'[j].default
    <2>1. i \in 1..Len(params) /\ (j \in 1..Len(params) \/ j = Len(params) + 1)
      BY <1>1, <1>3
    <2>2. CASE j \in 1..Len(params)
      BY <1>1, <1>3, <2>1, <2>2 DEF Ordered
    <2>3. CASE j = Len(params) + 1
      BY <1>1, <1>2, <2>1, <2>3
    <2>4. QED
      BY <2>1, <2>2, <2>3
  <1>4. Ordered'
    BY <1>1, <1>3 DEF Ordered
  <1>5. QED
    BY <1>1, <1>4

-----------------------------------------------------------------------------
(* analyze_signature keeps track of the homes                              *)

\* Another parameter changes nothing for what it does not take.
LEMMA HomeStays ==
  ASSUME NEW ps \in Seq(Parameters), NEW p, NEW bs, NEW bs2, NEW x,
         NEW what \in {"exception", "collector"}, NEW h, IsHome(ps, bs, x, what, h),
         ~For(p, what), Passed(x) => (what \in bs2 <=> what \in bs)
  PROVE  IsHome(Append(ps, p), bs2, x, what, h)
  <1> DEFINE qs == Append(ps, p)
  <1>1. /\ Len(qs) = Len(ps) + 1 /\ DOMAIN qs = 1..(Len(ps) + 1) /\ qs[Len(ps) + 1] = p
        /\ \A i \in 1..Len(ps) : qs[i] = ps[i]
        /\ DOMAIN ps = 1..Len(ps) /\ Len(ps) \in Nat
    OBVIOUS
  <1> HIDE DEF qs
  <1>2. \A i \in DOMAIN qs : i \in DOMAIN ps \/ i = Len(ps) + 1
    BY <1>1
  <1>3. h \in 0..Len(qs) /\ (h # 0 => h \in DOMAIN ps /\ qs[h] = ps[h] /\ Passed(x))
    BY <1>1 DEF IsHome
  <1>4. \A i \in DOMAIN qs : For(qs[i], what) => i = h
    BY <1>1, <1>2 DEF IsHome
  <1>5. IsHome(qs, bs2, x, what, h)
    BY <1>3, <1>4 DEF IsHome
  <1>6. QED
    BY <1>5 DEF qs

\* It takes what is not taken yet, or may be taken over.
LEMMA HomeMoves ==
  ASSUME NEW ps \in Seq(Parameters), NEW p, NEW bs, NEW bs2, NEW x, NEW y,
         NEW what \in {"exception", "collector"}, NEW h, IsHome(ps, bs, x, what, h),
         ~Passed(x) \/ what \in bs, y = WayOf(p, what), what \in bs2 <=> p.kind \in Rest,
         p.kind \notin Rest => Takes(p, what)
  PROVE  IsHome(Append(ps, p), bs2, y, what, Len(ps) + 1)
  <1> DEFINE qs == Append(ps, p)
  <1>1. /\ Len(qs) = Len(ps) + 1 /\ DOMAIN qs = 1..(Len(ps) + 1) /\ qs[Len(ps) + 1] = p
        /\ \A i \in 1..Len(ps) : qs[i] = ps[i] /\ ps[i] \in Parameters
        /\ DOMAIN ps = 1..Len(ps) /\ Len(ps) \in Nat
    OBVIOUS
  <1> HIDE DEF qs
  <1>2. \A i \in DOMAIN qs : i \in DOMAIN ps \/ i = Len(ps) + 1
    BY <1>1
  <1>3. Passed(y)
    BY WaysAre DEF WayOf, Way, Passed
  <1>4. \A i \in DOMAIN ps : ~For(ps[i], what)
    <2>1. SUFFICES ASSUME NEW i \in DOMAIN ps, For(ps[i], what)
                   PROVE  FALSE
      OBVIOUS
    <2>2. i = h /\ h # 0 /\ ps[h] \in Parameters /\ ps[h].kind \in Rest
      BY <1>1, <2>1 DEF IsHome
    <2>3. QED
      BY <2>1, <2>2, ParameterIs
  <1>5. IsHome(qs, bs2, y, what, Len(ps) + 1)
    <2>1. Len(ps) + 1 \in 0..Len(qs) /\ Len(ps) + 1 # 0
      BY <1>1
    <2>2. \A i \in DOMAIN qs : For(qs[i], what) => i = Len(ps) + 1
      BY <1>1, <1>2, <1>4
    <2>3. QED
      BY <1>1, <1>3, <2>1, <2>2 DEF IsHome
  <1>6. QED
    BY <1>5 DEF qs

\* A home that may be taken over needs no argument.
LEMMA HomeFree ==
  ASSUME Ordered, NEW x, NEW what, NEW h, IsHome(params, backable, x, what, h),
         MayTake(x, what), h # 0
  PROVE  ~Required(params[h])
  <1>1. params[h] \in Parameters /\ params[h].kind \in Rest
    BY DEF IsHome, Ordered, MayTake
  <1>2. QED
    BY <1>1, ParameterIs

\* A parameter takes the exception.
LEMMA ExceptionInv ==
  ASSUME Ordered, NEW p \in Parameters, Allowed(p), params' = Append(params, p),
         NEW e \in Nat, NEW c \in Nat, Homes(e, c), p.kind \notin Rest, TakesException(p),
         MayTake(exception, "exception"), ~ForCollector(p), ExceptionAt(p)
  PROVE  \E n \in Nat : Homes(n, c)'
  <1>0. PICK n \in Nat : n = Len(params) + 1
    BY DEF Ordered
  <1>1. /\ Ordered' /\ params'[n] = p /\ DOMAIN params' = 1..n /\ DOMAIN params = 1..(n - 1)
        /\ \A i \in DOMAIN params : params'[i] = params[i]
        /\ n \in Nat /\ params \in Seq(Parameters) /\ n - 1 = Len(params)
    BY <1>0, OrderedStep DEF Ordered
  <1>2. /\ exception' = Way(p) /\ collector' = collector
        /\ backable' = backable \ {"exception"}
        /\ reverse' = IF p.kind = "keywordOnly" THEN reverse ELSE Passed(collector)
    BY DEF ExceptionAt
  <1>3. IsHome(params', backable', exception', "exception", n)
    <2>1. /\ exception' = WayOf(p, "exception") /\ Takes(p, "exception")
          /\ "exception" \notin backable'
      BY <1>2 DEF WayOf, Rest, Takes
    <2>2. IsHome(params, backable, exception, "exception", e)
          /\ (~Passed(exception) \/ "exception" \in backable)
      BY DEF Homes, MayTake
    <2>3. QED
      BY <1>0, <1>1, <2>1, <2>2, HomeMoves
  <1>4. IsHome(params', backable', collector', "collector", c)
    <2>1. IsHome(params, backable, collector, "collector", c) /\ ~For(p, "collector")
      BY DEF Homes, For
    <2>2. "collector" \in backable' <=> "collector" \in backable
      BY <1>2
    <2>3. QED
      BY <1>1, <1>2, <2>1, <2>2, HomeStays
  <1>5. c \in 0..(n - 1) /\ (c = 0 <=> ~Passed(collector))
    BY <1>1 DEF Homes, IsHome
  <1>6. \A i \in DOMAIN params' : Required(params'[i]) => i \in {n, c}
    <2>1. e # 0 => ~Required(params[e])
      BY HomeFree DEF Homes
    <2>2. \A i \in DOMAIN params : Required(params[i]) => i = c
      BY <1>1, <2>1 DEF Homes
    <2>3. \A i \in DOMAIN params' : i \in DOMAIN params \/ i = n
      BY <1>1
    <2>4. QED
      BY <1>1, <2>2, <2>3
  <1>7. exception' = ByPosition /\ collector' = ByPosition => reverse' /\ c < n
    <2>1. exception' = ByPosition => p.kind = "positionalOnly"
      BY <1>2, WaysAre DEF Way
    <2>2. collector = ByPosition => Passed(collector)
      BY WaysAre DEF Passed
    <2>3. QED
      BY <1>1, <1>2, <1>5, <2>1, <2>2
  <1>8. n # c
    BY <1>1, <1>5
  <1>9. QED
    BY <1>3, <1>4, <1>6, <1>7, <1>8 DEF Homes

\* A parameter takes the collector.
LEMMA CollectorInv ==
  ASSUME Ordered, NEW p \in Parameters, Allowed(p), params' = Append(params, p),
         NEW e \in Nat, NEW c \in Nat, Homes(e, c), p.kind \notin Rest, TakesCollector(p),
         MayTake(collector, "collector"), ~ForException(p), CollectorAt(p)
  PROVE  \E n \in Nat : Homes(e, n)'
  <1>0. PICK n \in Nat : n = Len(params) + 1
    BY DEF Ordered
  <1>1. /\ Ordered' /\ params'[n] = p /\ DOMAIN params' = 1..n /\ DOMAIN params = 1..(n - 1)
        /\ \A i \in DOMAIN params : params'[i] = params[i]
        /\ n \in Nat /\ params \in Seq(Parameters) /\ n - 1 = Len(params)
    BY <1>0, OrderedStep DEF Ordered
  <1>2. /\ collector' = Way(p) /\ exception' = exception
        /\ backable' = backable \ {"collector"}
        /\ reverse' = IF p.kind = "keywordOnly" THEN reverse ELSE ~Passed(exception)
    BY DEF CollectorAt
  <1>3. IsHome(params', backable', collector', "collector", n)
    <2>1. /\ collector' = WayOf(p, "collector") /\ Takes(p, "collector")
          /\ "collector" \notin backable'
      BY <1>2 DEF WayOf, Rest, Takes
    <2>2. IsHome(params, backable, collector, "collector", c)
          /\ (~Passed(collector) \/ "collector" \in backable)
      BY DEF Homes, MayTake
    <2>3. QED
      BY <1>0, <1>1, <2>1, <2>2, HomeMoves
  <1>4. IsHome(params', backable', exception', "exception", e)
    <2>1. IsHome(params, backable, exception, "exception", e) /\ ~For(p, "exception")
      BY DEF Homes, For
    <2>2. "exception" \in backable' <=> "exception" \in backable
      BY <1>2
    <2>3. QED
      BY <1>1, <1>2, <2>1, <2>2, HomeStays
  <1>5. e \in 0..(n - 1) /\ (e = 0 <=> ~Passed(exception))
    BY <1>1 DEF Homes, IsHome
  <1>6. \A i \in DOMAIN params' : Required(params'[i]) => i \in {e, n}
    <2>1. c # 0 => ~Required(params[c])
      BY HomeFree DEF Homes
    <2>2. \A i \in DOMAIN params : Required(params[i]) => i = e
      BY <1>1, <2>1 DEF Homes
    <2>3. \A i \in DOMAIN params' : i \in DOMAIN params \/ i = n
      BY <1>1
    <2>4. QED
      BY <1>1, <2>2, <2>3
  <1>7. exception' = ByPosition /\ collector' = ByPosition => ~reverse' /\ ~(n < e)
    <2>1. collector' = ByPosition => p.kind = "positionalOnly"
      BY <1>2, WaysAre DEF Way
    <2>2. exception = ByPosition => Passed(exception)
      BY WaysAre DEF Passed
    <2>3. p.kind = "positionalOnly" => reverse' = ~Passed(exception)
      BY <1>2
    <2>4. exception' = ByPosition /\ collector' = ByPosition => reverse' = FALSE
      BY <1>2, <2>1, <2>2, <2>3
    <2>5. QED
      BY <1>1, <1>5, <2>4
  <1>8. n # e
    BY <1>1, <1>5
  <1>9. QED
    BY <1>3, <1>4, <1>6, <1>7, <1>8 DEF Homes

\* A parameter that can be left takes nothing.
LEMMA LeftInv ==
  ASSUME Ordered, NEW p \in Parameters, Allowed(p), params' = Append(params, p),
         NEW e \in Nat, NEW c \in Nat, Homes(e, c), ~ForException(p), ~ForCollector(p),
         p.default, UNCHANGED << exception, collector, backable, reverse >>
  PROVE  Homes(e, c)'
  <1>1. /\ params'[Len(params) + 1] = p /\ params \in Seq(Parameters)
        /\ DOMAIN params' = 1..(Len(params) + 1) /\ DOMAIN params = 1..Len(params)
        /\ \A i \in DOMAIN params : params'[i] = params[i] /\ Len(params) \in Nat
    BY OrderedStep DEF Ordered
  <1>2. /\ IsHome(params', backable', exception', "exception", e)
        /\ IsHome(params', backable', collector', "collector", c)
    BY <1>1, HomeStays DEF Homes, For
  <1>3. \A i \in DOMAIN params' : i \in DOMAIN params \/ i = Len(params) + 1
    BY <1>1
  <1>4. \A i \in DOMAIN params' : Required(params'[i]) => i \in {e, c}
    BY <1>1, <1>3 DEF Homes, Required
  <1>5. e = c /\ e # 0 => params'[e].kind \in Rest
    BY <1>1 DEF Homes, IsHome
  <1>6. QED
    BY <1>2, <1>4, <1>5 DEF Homes

\* *args and **kwargs take what is not taken yet.
LEMMA VarInv ==
  ASSUME Ordered, NEW p \in Parameters, Allowed(p), params' = Append(params, p),
         NEW e \in Nat, NEW c \in Nat, Homes(e, c), p.kind \in Rest, Var(p)
  PROVE  \E e2, c2 \in Nat : Homes(e2, c2)'
  <1>0. PICK n \in Nat : n = Len(params) + 1
    BY DEF Ordered
  <1>1. /\ params'[n] = p /\ params \in Seq(Parameters)
        /\ DOMAIN params' = 1..n /\ DOMAIN params = 1..(n - 1) /\ n - 1 = Len(params)
        /\ \A i \in DOMAIN params : params'[i] = params[i]
    BY <1>0, OrderedStep DEF Ordered
  <1>2. /\ IsHome(params, backable, exception, "exception", e)
        /\ IsHome(params, backable, collector, "collector", c)
        /\ e \in 0..(n - 1) /\ c \in 0..(n - 1)
        /\ (e = 0 <=> ~Passed(exception)) /\ (c = 0 <=> ~Passed(collector))
    BY <1>1 DEF Homes, IsHome
  <1> DEFINE takes == ~Passed(exception) /\ TakesException(p)
  <1>3. /\ exception' = IF takes THEN WayOf(p, "exception") ELSE exception
        /\ collector' = IF Passed(collector) THEN collector ELSE WayOf(p, "collector")
        /\ "exception" \in backable' <=> "exception" \in backable \/ ~Passed(exception)
        /\ "collector" \in backable' <=> "collector" \in backable \/ ~Passed(collector)
    <2>1. CASE p.kind = "varPositional"
      BY <2>1 DEF Var, TakesTheRest, WayOf
    <2>2. CASE p.kind = "varKeyword"
      BY <2>2 DEF Var, TakesTheRest, WayOf
    <2>3. QED
      BY <2>1, <2>2 DEF Rest
  <1>4. p.kind \in Rest /\ ~For(p, "exception") /\ ~For(p, "collector") /\ ~Required(p)
    BY ParameterIs
  <1>5. PICK e2 \in Nat : e2 = IF takes THEN n ELSE e
    OBVIOUS
  <1>6. PICK c2 \in Nat : c2 = IF Passed(collector) THEN c ELSE n
    OBVIOUS
  <1>7. IsHome(params', backable', exception', "exception", e2)
    <2>1. CASE takes
      <3>1. exception' = WayOf(p, "exception") /\ "exception" \in backable' /\ ~Passed(exception)
        BY <1>3, <2>1
      <3>2. e2 = Len(params) + 1
        BY <1>0, <1>5, <2>1
      <3>3. QED
        BY <1>1, <1>2, <1>4, <3>1, <3>2, HomeMoves
    <2>2. CASE ~takes
      <3>1. /\ exception' = exception /\ e2 = e
            /\ Passed(exception) => ("exception" \in backable' <=> "exception" \in backable)
        BY <1>3, <1>5, <2>2
      <3>2. QED
        BY <1>1, <1>2, <1>4, <3>1, HomeStays
    <2>3. QED
      BY <2>1, <2>2
  <1>8. IsHome(params', backable', collector', "collector", c2)
    <2>1. CASE ~Passed(collector)
      <3>1. collector' = WayOf(p, "collector") /\ "collector" \in backable'
        BY <1>3, <2>1
      <3>2. c2 = Len(params) + 1
        BY <1>0, <1>6, <2>1
      <3>3. QED
        BY <1>1, <1>2, <1>4, <2>1, <3>1, <3>2, HomeMoves
    <2>2. CASE Passed(collector)
      <3>1. /\ collector' = collector /\ c2 = c
            /\ "collector" \in backable' <=> "collector" \in backable
        BY <1>3, <1>6, <2>2
      <3>2. QED
        BY <1>1, <1>2, <1>4, <3>1, HomeStays
    <2>3. QED
      BY <2>1, <2>2
  <1>9. \A i \in DOMAIN params' : Required(params'[i]) => i \in {e2, c2}
    <2>1. \A i \in DOMAIN params' : i \in DOMAIN params \/ i = n
      BY <1>1
    <2>2. ASSUME NEW i \in DOMAIN params, Required(params[i])
          PROVE  i \in {e2, c2}
      <3>1. i \in {e, c} /\ i # 0
        BY <1>1, <2>2 DEF Homes
      <3>2. (i = e => e2 = e) /\ (i = c => c2 = c)
        BY <1>2, <1>5, <1>6, <3>1
      <3>3. QED
        BY <3>1, <3>2
    <2>3. QED
      BY <1>1, <1>4, <2>1, <2>2
  <1>10. e2 = c2 /\ e2 # 0 => params'[e2].kind \in Rest
    <2>1. CASE e2 = n \/ c2 = n
      BY <1>1, <1>4, <2>1
    <2>2. CASE e2 = e /\ c2 = c
      BY <1>1, <1>2, <2>2 DEF Homes
    <2>3. QED
      BY <1>5, <1>6, <2>1, <2>2
  <1>11. ASSUME exception' = ByPosition, collector' = ByPosition, e2 # c2
         PROVE  reverse' <=> c2 < e2
    <2>1. CASE Passed(exception) /\ Passed(collector)
      <3>1. /\ exception = ByPosition /\ collector = ByPosition /\ e2 = e /\ c2 = c
            /\ reverse' = reverse
        BY <1>3, <1>5, <1>6, <1>11, <2>1 DEF Var, ReverseOfArgs
      <3>2. QED
        BY <1>11, <3>1 DEF Homes
    <2>2. p.kind = "varKeyword" => Passed(exception) /\ Passed(collector)
      BY <1>3, <1>11, WaysAre DEF WayOf, Passed
    <2>3. CASE p.kind = "varPositional" /\ ~Passed(collector)
      <3>1. Passed(exception')
        BY <1>11, WaysAre DEF Passed
      <3>2. reverse' = ~Passed(exception')
        BY <2>3 DEF Var, ReverseOfArgs
      <3>3. reverse' = FALSE
        BY <3>1, <3>2
      <3>4. c2 = n /\ e2 \in 0..n
        BY <1>2, <1>5, <1>6, <2>3
      <3>5. ~(c2 < e2)
        BY <3>4
      <3>6. QED
        BY <3>3, <3>5
    <2>4. CASE p.kind = "varPositional" /\ Passed(collector) /\ ~Passed(exception)
      <3>1. reverse' = TRUE
        BY <2>4 DEF Var, ReverseOfArgs
      <3>2. takes
        BY <1>3, <1>11, <2>4, WaysAre DEF Passed
      <3>3. c2 = c /\ e2 = n /\ c < n
        BY <1>2, <1>5, <1>6, <2>4, <3>2
      <3>4. QED
        BY <3>1, <3>3
    <2>5. QED
      BY <2>1, <2>2, <2>3, <2>4 DEF Rest
  <1>12. QED
    BY <1>7, <1>8, <1>9, <1>10, <1>11 DEF Homes

\* Nothing is taken at first.
LEMMA HomesInit == Init => Inv
  <1> SUFFICES ASSUME Init PROVE Inv
    OBVIOUS
  <1>1. Homes(0, 0)
    BY WaysAre DEF Init, Homes, IsHome, Passed
  <1>2. Ordered
    BY DEF Init, Ordered
  <1>3. QED
    BY <1>1, <1>2 DEF Init, Inv

\* Every parameter keeps track of the homes, or refuses the listener.
LEMMA HomesStep == Inv /\ [Next]_vars => Inv'
  <1> SUFFICES ASSUME Inv, [Next]_vars PROVE Inv'
    OBVIOUS
  <1>1. CASE UNCHANGED vars
    BY <1>1 DEF vars, Inv, Ordered, Homes
  <1>2. ASSUME NEW p \in Parameters, Analyze(p)
        PROVE  Inv'
    <2>1. /\ Ordered /\ Allowed(p) /\ params' = Append(params, p) /\ ~refused
          /\ refused \in BOOLEAN
      BY <1>2 DEF Analyze, Inv
    <2>2. PICK e \in Nat, c \in Nat : Homes(e, c)
      BY <2>1 DEF Inv
    <2>3. Ordered'
      BY <2>1, OrderedStep
    <2>4. CASE refused' = TRUE
      BY <2>3, <2>4 DEF Inv
    <2>5. CASE refused' = refused /\ \E e2, c2 \in Nat : Homes(e2, c2)'
      BY <2>1, <2>3, <2>5 DEF Inv
    <2>6. CASE p.kind \in Rest /\ Var(p)
      <3>1. refused' = refused
        BY <2>6 DEF Var
      <3>2. QED
        BY <2>1, <2>2, <2>5, <2>6, <3>1, VarInv
    <2>7. CASE p.kind \notin Rest /\ ExceptionAt(p) /\ TakesException(p) /\ ~ForCollector(p)
                 /\ MayTake(exception, "exception")
      <3>1. refused' = refused
        BY <2>7 DEF ExceptionAt
      <3>2. QED
        BY <2>1, <2>2, <2>5, <2>7, <3>1, ExceptionInv
    <2>8. CASE p.kind \notin Rest /\ CollectorAt(p) /\ TakesCollector(p) /\ ~ForException(p)
                 /\ MayTake(collector, "collector")
      <3>1. refused' = refused
        BY <2>8 DEF CollectorAt
      <3>2. QED
        BY <2>1, <2>2, <2>5, <2>8, <3>1, CollectorInv
    <2>9. CASE p.kind \notin Rest /\ Named(p)
      <3>1. CASE ForException(p) /\ MayTake(exception, "exception") /\ ExceptionAt(p)
        BY <2>7, <2>9, <3>1 DEF ForException, ForCollector, ExceptionNames
      <3>2. CASE ForCollector(p) /\ MayTake(collector, "collector") /\ CollectorAt(p)
        BY <2>8, <2>9, <3>2 DEF ForException, ForCollector, ExceptionNames
      <3>3. CASE Refuse
        BY <2>4, <3>3 DEF Refuse
      <3>4. QED
        BY <2>9, <3>1, <3>2, <3>3 DEF Named
    <2>10. CASE p.kind \notin Rest /\ Unnamed(p)
      <3>1. ~ForException(p) /\ ~ForCollector(p)
        BY <2>10 DEF Unnamed
      <3>2. CASE ~Passed(exception) /\ TakesException(p) /\ ExceptionAt(p)
        BY <2>7, <2>10, <3>1, <3>2 DEF MayTake
      <3>3. CASE ~Passed(collector) /\ TakesCollector(p) /\ CollectorAt(p)
        BY <2>8, <2>10, <3>1, <3>3 DEF MayTake
      <3>4. CASE Refuse
        BY <2>4, <3>4 DEF Refuse
      <3>5. CASE p.default /\ UNCHANGED << exception, collector, backable, reverse, refused >>
        BY <2>1, <2>2, <2>5, <3>1, <3>5, LeftInv
      <3>6. QED
        BY <2>10, <3>2, <3>3, <3>4, <3>5 DEF Unnamed, MayBeLeft
    <2>11. QED
      BY <1>2, <2>6, <2>9, <2>10 DEF Analyze, Rest
  <1>3. QED
    BY <1>1, <1>2 DEF Next

-----------------------------------------------------------------------------
(* invoke: where the arguments land                                        *)

\* The search for a parameter finds the only one there is.
LEMMA FirstIs ==
  ASSUME NEW I, I \subseteq Nat \ {0}, NEW f, f = IF I # {} THEN Min(I) ELSE 0
  PROVE  /\ f \in I \/ (f = 0 /\ I = {})
         /\ \A h \in I : (\A i \in I : i = h) => f = h
  <1>1. I # {} => f \in I
    BY LeastOf
  <1>2. QED
    BY <1>1

\* *args and **kwargs, if they are there.
LEMMA StarIs ==
  ASSUME Ordered
  PROVE  /\ \A h \in DOMAIN params : params[h].kind = "varPositional" => Star = h
         /\ \A h \in DOMAIN params : params[h].kind = "varKeyword" => DoubleStar = h
         /\ \A h \in {Star, DoubleStar} : h = 0 \/ (h \in DOMAIN params /\ params[h].kind \in Rest)
  <1> DEFINE I(kind) == {i \in 1..Len(params) : params[i].kind = kind}
  <1>1. /\ DOMAIN params = 1..Len(params) /\ \A i \in DOMAIN params : params[i] \in Parameters
        /\ \A kind : I(kind) \subseteq Nat \ {0} /\ I(kind) \subseteq DOMAIN params
    BY DEF Ordered
  <1>2. /\ Star = IF I("varPositional") # {} THEN Min(I("varPositional")) ELSE 0
        /\ DoubleStar = IF I("varKeyword") # {} THEN Min(I("varKeyword")) ELSE 0
    BY DEF Star, DoubleStar, SelectInSeq
  <1>3. \A i, j \in DOMAIN params : params[i].name = params[j].name => i = j
    BY <1>1 DEF Ordered
  <1>4. \A kind \in Rest : \A i, j \in I(kind) : i = j
    BY <1>1, <1>3, ParameterIs DEF Rest
  <1>5. \A h \in DOMAIN params : h \in I(params[h].kind)
    BY <1>1
  <1>6. \A kind : \A i \in I(kind) : params[i].kind = kind /\ i \in DOMAIN params
    BY <1>1
  <1> HIDE DEF I
  <1>7. /\ Star \in I("varPositional") \/ Star = 0
        /\ \A h \in I("varPositional") : Star = h
    BY <1>1, <1>2, <1>4, FirstIs DEF Rest
  <1>8. /\ DoubleStar \in I("varKeyword") \/ DoubleStar = 0
        /\ \A h \in I("varKeyword") : DoubleStar = h
    BY <1>1, <1>2, <1>4, FirstIs DEF Rest
  <1>9. QED
    BY <1>5, <1>6, <1>7, <1>8 DEF Rest

\* The parameter that takes an argument by its name.
LEMMA NamedIs ==
  ASSUME Ordered, NEW name
  PROVE  /\ \A h \in DOMAIN params :
              params[h].name = name /\ params[h].kind \in {"positional", "keywordOnly"} =>
                ByNameTo(name) = h
         /\ \/ ByNameTo(name) = DoubleStar
            \/ /\ ByNameTo(name) \in DOMAIN params
               /\ params[ByNameTo(name)].kind \in {"positional", "keywordOnly"}
  <1> DEFINE I == {i \in 1..Len(params) :
                     params[i].name = name /\ params[i].kind \in {"positional", "keywordOnly"}}
             f == IF I # {} THEN Min(I) ELSE 0
  <1>1. DOMAIN params = 1..Len(params) /\ I \subseteq Nat \ {0} /\ I \subseteq DOMAIN params
    BY DEF Ordered
  <1>2. ByNameTo(name) = IF f # 0 THEN f ELSE DoubleStar
    BY DEF ByNameTo, SelectInSeq
  <1>3. \A i, j \in I : i = j
    BY <1>1 DEF Ordered
  <1>4. \A i \in I : i \in DOMAIN params /\ params[i].kind \in {"positional", "keywordOnly"}
    BY <1>1
  <1>5. \A h \in DOMAIN params :
          params[h].name = name /\ params[h].kind \in {"positional", "keywordOnly"} => h \in I
    BY <1>1
  <1>6. (f \in I \/ (f = 0 /\ I = {})) /\ \A h \in I : f = h
    <2> HIDE DEF I
    <2>1. QED BY <1>1, <1>3, FirstIs
  <1> HIDE DEF I, f
  <1>7. \A h \in I : h # 0
    BY <1>1
  <1>8. QED
    BY <1>2, <1>4, <1>5, <1>6, <1>7

\* The arguments by position.
LEMMA PositionIs ==
  /\ exception = ByPosition /\ collector = ByPosition /\ reverse =>
       PassedByPosition = << "collector", "exception" >>
  /\ exception = ByPosition /\ collector = ByPosition /\ ~reverse =>
       PassedByPosition = << "exception", "collector" >>
  /\ exception = ByPosition /\ collector # ByPosition => PassedByPosition = << "exception" >>
  /\ exception # ByPosition /\ collector = ByPosition => PassedByPosition = << "collector" >>
  /\ exception # ByPosition /\ collector # ByPosition => PassedByPosition = << >>
  <1> DEFINE args == (IF exception = ByPosition THEN << "exception" >> ELSE << >>)
                     \o (IF collector = ByPosition THEN << "collector" >> ELSE << >>)
  <1>1. PassedByPosition = IF reverse THEN Reverse(args) ELSE args
    BY DEF PassedByPosition
  <1>2. CASE exception = ByPosition /\ collector = ByPosition
    <2>1. args = << "exception", "collector" >>
      <3>1. << "exception" >> \o << "collector" >> = << "exception", "collector" >>
        <4> DEFINE S == {"exception", "collector"}
                   a == << "exception" >>
                   b == << "collector" >>
        <4>1. /\ a \in Seq(S) /\ Len(a) = 1 /\ a[1] = "exception"
              /\ b \in Seq(S) /\ Len(b) = 1 /\ b[1] = "collector"
          OBVIOUS
        <4> HIDE DEF a, b, S
        <4>2. /\ a \o b \in Seq(S) /\ Len(a \o b) = 2
              /\ (a \o b)[1] = "exception" /\ (a \o b)[2] = "collector"
          BY <4>1, ConcatProperties
        <4> DEFINE t == << "exception", "collector" >>
        <4>3. t \in Seq(S) /\ Len(t) = 2 /\ t[1] = "exception" /\ t[2] = "collector"
          BY DEF S
        <4> HIDE DEF t
        <4>4. a \o b = t
          <5>1. \A i \in 1..2 : (a \o b)[i] = t[i]
            BY <4>2, <4>3
          <5>2. PICK u \in Seq(S) : u = a \o b
            BY <4>2
          <5>3. Len(u) = Len(t) /\ \A i \in 1..Len(u) : u[i] = t[i]
            BY <4>2, <4>3, <5>1, <5>2
          <5>4. u = t
            BY <4>3, <5>3, SeqEqual
          <5>5. QED
            BY <5>2, <5>4
        <4>5. QED
          BY <4>4 DEF a, b, t
      <3>2. QED
        BY <1>2, <3>1
    <2> HIDE DEF args
    <2>2. Reverse(args) = << "collector", "exception" >>
      BY <2>1 DEF Reverse
    <2>3. QED
      BY <1>1, <1>2, <2>1, <2>2
  <1>3. CASE exception = ByPosition /\ collector # ByPosition
    <2>1. args = << "exception" >>
      BY <1>3
    <2> HIDE DEF args
    <2>2. Reverse(args) = << "exception" >>
      BY <2>1 DEF Reverse
    <2>3. QED
      BY <1>1, <1>3, <2>1, <2>2
  <1>4. CASE exception # ByPosition /\ collector = ByPosition
    <2>1. args = << "collector" >>
      BY <1>4
    <2> HIDE DEF args
    <2>2. Reverse(args) = << "collector" >>
      BY <2>1 DEF Reverse
    <2>3. QED
      BY <1>1, <1>4, <2>1, <2>2
  <1>5. CASE exception # ByPosition /\ collector # ByPosition
    <2>1. args = << >>
      BY <1>5
    <2> HIDE DEF args
    <2>2. Reverse(args) = << >>
      BY <2>1 DEF Reverse
    <2>3. QED
      BY <1>1, <1>5, <2>1, <2>2
  <1>6. QED
    BY <1>2, <1>3, <1>4, <1>5

\* The places of the two among the arguments by position.
ExceptionPlace == IF collector = ByPosition /\ reverse THEN 2 ELSE 1
CollectorPlace == IF exception = ByPosition /\ ~reverse THEN 2 ELSE 1

\* Where an argument lands, which is one place.
LEMMA LandedIs ==
  /\ \A x \in Landed : \E i : x = << i, "exception" >> \/ x = << i, "collector" >>
  /\ \A i : << i, "exception" >> \in Landed <=>
       \/ exception = ByPosition /\ i = ByPositionTo(ExceptionPlace)
       \/ exception.by = "name" /\ exception # collector /\ i = ByNameTo(exception.name)
  /\ \A i : << i, "collector" >> \in Landed <=>
       \/ collector = ByPosition /\ i = ByPositionTo(CollectorPlace)
       \/ collector.by = "name" /\ i = ByNameTo(collector.name)
  <1> DEFINE P == PassedByPosition
             ByPlace == {<< ByPositionTo(k), P[k] >> : k \in DOMAIN P}
             Named2 == {<< ByNameTo(x[1]), x[2] >> : x \in PassedByName}
  <1>1. Landed = ByPlace \cup Named2
    BY DEF Landed
  <1>2. /\ \A k \in DOMAIN P : P[k] \in {"exception", "collector"}
        /\ \A k : (k \in DOMAIN P /\ P[k] = "exception") <=>
                    exception = ByPosition /\ k = ExceptionPlace
        /\ \A k : (k \in DOMAIN P /\ P[k] = "collector") <=>
                    collector = ByPosition /\ k = CollectorPlace
    <2> HIDE DEF P
    <2>1. CASE exception = ByPosition /\ collector = ByPosition /\ reverse
      <3>1. P = << "collector", "exception" >>
        BY <2>1, PositionIs DEF P
      <3>2. QED
        BY <2>1, <3>1 DEF ExceptionPlace, CollectorPlace
    <2>2. CASE exception = ByPosition /\ collector = ByPosition /\ ~reverse
      <3>1. P = << "exception", "collector" >>
        BY <2>2, PositionIs DEF P
      <3>2. QED
        BY <2>2, <3>1 DEF ExceptionPlace, CollectorPlace
    <2>3. CASE exception = ByPosition /\ collector # ByPosition
      <3>1. P = << "exception" >>
        BY <2>3, PositionIs DEF P
      <3>2. QED
        BY <2>3, <3>1 DEF ExceptionPlace
    <2>4. CASE exception # ByPosition /\ collector = ByPosition
      <3>1. P = << "collector" >>
        BY <2>4, PositionIs DEF P
      <3>2. QED
        BY <2>4, <3>1 DEF CollectorPlace
    <2>5. CASE exception # ByPosition /\ collector # ByPosition
      <3>1. P = << >>
        BY <2>5, PositionIs DEF P
      <3>2. QED
        BY <2>5, <3>1
    <2>6. QED
      BY <2>1, <2>2, <2>3, <2>4, <2>5
  <1>3. \A i, w : << i, w >> \in ByPlace <=> \E k \in DOMAIN P : i = ByPositionTo(k) /\ w = P[k]
    OBVIOUS
  <1>4. \A y : y \in PassedByName <=>
          \/ y = << exception.name, "exception" >> /\ exception.by = "name" /\ exception # collector
          \/ y = << collector.name, "collector" >> /\ collector.by = "name"
    BY DEF PassedByName
  <1>5. \A i, w : << i, w >> \in Named2 <=> \E x \in PassedByName : i = ByNameTo(x[1]) /\ w = x[2]
    OBVIOUS
  <1>6. /\ \A x \in PassedByName :
             \/ x[1] = exception.name /\ x[2] = "exception"
                /\ exception.by = "name" /\ exception # collector
             \/ x[1] = collector.name /\ x[2] = "collector" /\ collector.by = "name"
        /\ exception.by = "name" /\ exception # collector =>
             \E x \in PassedByName : x[1] = exception.name /\ x[2] = "exception"
        /\ collector.by = "name" =>
             \E x \in PassedByName : x[1] = collector.name /\ x[2] = "collector"
    <2>1. /\ << exception.name, "exception" >>[1] = exception.name
          /\ << exception.name, "exception" >>[2] = "exception"
          /\ << collector.name, "collector" >>[1] = collector.name
          /\ << collector.name, "collector" >>[2] = "collector"
      OBVIOUS
    <2>2. QED
      BY <1>4, <2>1
  <1>7. /\ \A i : << i, "exception" >> \in Named2 <=>
               exception.by = "name" /\ exception # collector /\ i = ByNameTo(exception.name)
        /\ \A i : << i, "collector" >> \in Named2 <=>
               collector.by = "name" /\ i = ByNameTo(collector.name)
    <2> HIDE DEF Named2
    <2>1. QED BY <1>5, <1>6
  <1>8. \A x \in Landed : \E i : x = << i, "exception" >> \/ x = << i, "collector" >>
    <2>1. \A x \in ByPlace : \E i : x = << i, "exception" >> \/ x = << i, "collector" >>
      BY <1>2
    <2>2. \A x \in Named2 : \E i : x = << i, "exception" >> \/ x = << i, "collector" >>
      BY <1>4
    <2>3. QED
      BY <1>1, <2>1, <2>2
  <1> HIDE DEF P, ByPlace, Named2
  <1>9. \A i : << i, "exception" >> \in ByPlace <=>
          exception = ByPosition /\ i = ByPositionTo(ExceptionPlace)
    BY <1>2, <1>3
  <1>10. \A i : << i, "collector" >> \in ByPlace <=>
           collector = ByPosition /\ i = ByPositionTo(CollectorPlace)
    BY <1>2, <1>3
  <1>11. QED
    BY <1>1, <1>7, <1>8, <1>9, <1>10

\* What the homes are, by their kinds.
LEMMA HomeIs ==
  ASSUME Ordered, NEW x, NEW what, NEW h, IsHome(params, backable, x, what, h), h # 0
  PROVE  /\ h \in DOMAIN params /\ h \in 1..Len(params) /\ params[h] \in Parameters /\ Passed(x)
         /\ params[h].kind \in {"positionalOnly", "varPositional"} => x = ByPosition
         /\ params[h].kind \in {"positional", "keywordOnly"} => x = ByName(params[h].name)
         /\ params[h].kind = "varKeyword" => x = ByName(what)
         /\ what \in backable <=> params[h].kind \in Rest
         /\ params[h].kind \notin Rest => Takes(params[h], what) /\ ~params[h].default
         /\ params[h].kind \in {"positionalOnly", "positional", "keywordOnly"} \cup Rest
  <1>1. h \in DOMAIN params /\ h \in 1..Len(params) /\ params[h] \in Parameters /\ Passed(x)
    BY DEF IsHome, Ordered
  <1>2. x = WayOf(params[h], what)
    BY DEF IsHome
  <1>3. params[h].kind \notin Rest => Takes(params[h], what) /\ ~params[h].default
    BY DEF IsHome, Takes, TakesException, TakesCollector
  <1>4. params[h].kind \in {"positionalOnly", "positional", "keywordOnly"} \cup Rest
    BY <1>1, ParameterIs
  <1>5. what \in backable <=> params[h].kind \in Rest
    BY DEF IsHome
  <1>6. QED
    BY <1>1, <1>2, <1>3, <1>4, <1>5 DEF WayOf, Way, Rest

\* Parameters that take by position alone come first, in the order of the arguments.
LEMMA PlacesAre ==
  ASSUME Ordered, NEW e \in Nat, NEW c \in Nat, Homes(e, c)
  PROVE  /\ e # 0 /\ params[e].kind = "positionalOnly" =>
              ExceptionPlace = e /\ ByPositionTo(e) = e
         /\ c # 0 /\ params[c].kind = "positionalOnly" =>
              CollectorPlace = c /\ ByPositionTo(c) = c
  <1>1. /\ IsHome(params, backable, exception, "exception", e)
        /\ IsHome(params, backable, collector, "collector", c)
        /\ DOMAIN params = 1..Len(params) /\ Len(params) \in Nat
    BY DEF Homes, Ordered
  <1>2. /\ e # 0 => /\ e \in 1..Len(params)
                    /\ params[e].kind = "positionalOnly" => exception = ByPosition
        /\ c # 0 => /\ c \in 1..Len(params)
                    /\ params[c].kind = "positionalOnly" => collector = ByPosition
        /\ exception = ByPosition => e # 0
        /\ collector = ByPosition => c # 0
    <2>1. (exception = ByPosition => e # 0) /\ (collector = ByPosition => c # 0)
      BY <1>1, WaysAre DEF IsHome, Passed
    <2>2. QED
      BY <1>1, <2>1, HomeIs
  \* Those before it take the other argument.
  <1>3. ASSUME NEW h \in {e, c}, h # 0, params[h].kind = "positionalOnly", NEW i \in 1..(h - 1)
        PROVE  i \in {e, c} /\ i # h /\ params[i].kind = "positionalOnly"
    <2>1. i \in DOMAIN params /\ i < h /\ h \in DOMAIN params /\ ~params[h].default
      BY <1>1, <1>3, HomeIs DEF Rest
    <2>2. params[i].kind = "positionalOnly"
      BY <1>3, <2>1 DEF Ordered
    <2>3. params[i].default => params[h].default
      BY <1>3, <2>1 DEF Ordered, IsPositional
    <2>4. Required(params[i])
      BY <2>1, <2>2, <2>3 DEF Required
    <2>5. QED
      BY <2>1, <2>2, <2>4 DEF Homes
  <1>4. \A h \in {e, c} : h # 0 /\ params[h].kind = "positionalOnly" => ByPositionTo(h) = h
    BY <1>1, <1>2 DEF ByPositionTo, Positionals
  <1>5. e = c /\ e # 0 => params[e].kind # "positionalOnly"
    BY DEF Homes, Rest
  <1>6. exception = ByPosition /\ collector = ByPosition /\ e # c => (reverse <=> c < e)
    BY DEF Homes
  <1>7. ASSUME e # 0, params[e].kind = "positionalOnly"
        PROVE  ExceptionPlace = e
    <2>1. e # c /\ e \in 1..Len(params)
      BY <1>2, <1>5, <1>7
    <2>2. CASE c # 0 /\ c < e
      <3>1. e = 2 /\ c = 1
        <4>1. \A i \in 1..(e - 1) : i = c
          BY <1>3, <1>7
        <4>2. 1 \in 1..(e - 1)
          BY <2>1, <2>2
        <4>3. c = 1 /\ ~(2 \in 1..(e - 1))
          BY <4>1, <4>2
        <4>4. QED
          BY <2>1, <2>2, <4>3
      <3>2. params[c].kind = "positionalOnly"
        BY <1>3, <1>7, <3>1
      <3>3. collector = ByPosition /\ exception = ByPosition /\ reverse
        BY <1>2, <1>6, <1>7, <2>1, <2>2, <3>2
      <3>4. QED
        BY <3>1, <3>3 DEF ExceptionPlace
    <2>3. CASE c = 0 \/ e < c
      <3>1. e = 1
        <4>1. \A i \in 1..(e - 1) : i = c
          BY <1>3, <1>7
        <4>2. ~(1 \in 1..(e - 1))
          BY <2>1, <2>3, <4>1
        <4>3. QED
          BY <2>1, <4>2
      <3>2. ~(collector = ByPosition /\ reverse)
        BY <1>2, <1>6, <1>7, <2>1, <2>3, <3>1
      <3>3. QED
        BY <3>1, <3>2 DEF ExceptionPlace
    <2>4. QED
      BY <2>1, <2>2, <2>3
  <1>8. ASSUME c # 0, params[c].kind = "positionalOnly"
        PROVE  CollectorPlace = c
    <2>1. e # c /\ c \in 1..Len(params)
      BY <1>2, <1>5, <1>8
    <2>2. CASE e # 0 /\ e < c
      <3>1. c = 2 /\ e = 1
        <4>1. \A i \in 1..(c - 1) : i = e
          BY <1>3, <1>8
        <4>2. 1 \in 1..(c - 1)
          BY <2>1, <2>2
        <4>3. e = 1 /\ ~(2 \in 1..(c - 1))
          BY <4>1, <4>2
        <4>4. QED
          BY <2>1, <2>2, <4>3
      <3>2. params[e].kind = "positionalOnly"
        BY <1>3, <1>8, <3>1
      <3>3. exception = ByPosition /\ ~reverse
        BY <1>2, <1>6, <1>8, <2>1, <2>2, <3>1, <3>2
      <3>4. QED
        BY <3>1, <3>3 DEF CollectorPlace
    <2>3. CASE e = 0 \/ c < e
      <3>1. c = 1
        <4>1. \A i \in 1..(c - 1) : i = e
          BY <1>3, <1>8
        <4>2. ~(1 \in 1..(c - 1))
          BY <2>1, <2>3, <4>1
        <4>3. QED
          BY <2>1, <4>2
      <3>2. ~(exception = ByPosition /\ ~reverse)
        BY <1>2, <1>6, <1>8, <2>1, <2>3, <3>1
      <3>3. QED
        BY <3>1, <3>2 DEF CollectorPlace
    <2>4. QED
      BY <2>1, <2>2, <2>3
  <1>9. QED
    BY <1>4, <1>7, <1>8

\* Unless *args or **kwargs is shadowed, what was taken by a parameter lands on it.
LEMMA Lands ==
  ASSUME Ordered, NEW e \in Nat, NEW c \in Nat, Homes(e, c), ~Shadowed
  PROVE  /\ \A i : << i, "exception" >> \in Landed <=> e # 0 /\ i = e
         /\ \A i : << i, "collector" >> \in Landed <=> c # 0 /\ i = c
  <1>1. /\ IsHome(params, backable, exception, "exception", e)
        /\ IsHome(params, backable, collector, "collector", c)
        /\ e = c /\ e # 0 => params[e].kind \in Rest
    BY DEF Homes
  <1>2. /\ e = 0 => ~Passed(exception)
        /\ c = 0 => ~Passed(collector)
    BY <1>1 DEF IsHome
  <1>3. /\ e = 0 => \A i : << i, "exception" >> \notin Landed
        /\ c = 0 => \A i : << i, "collector" >> \notin Landed
    BY <1>2, LandedIs, WaysAre DEF Passed
  <1>4. \A h \in {Star, DoubleStar} : h = 0 \/ (h \in DOMAIN params /\ params[h].kind \in Rest)
    BY StarIs
  <1>5. /\ e # 0 /\ params[e].kind \in Rest =>
             \E i \in {Star, DoubleStar} : << i, "exception" >> \in Landed
        /\ c # 0 /\ params[c].kind \in Rest =>
             \E i \in {Star, DoubleStar} : << i, "collector" >> \in Landed
    BY <1>1, HomeIs DEF Shadowed
  <1>6. \A k : ByPositionTo(k) = Star \/ (ByPositionTo(k) \in DOMAIN params
                                           /\ params[ByPositionTo(k)].kind \notin Rest)
    BY DEF ByPositionTo, Positionals, Rest
  <1>7. \A name : ByNameTo(name) = DoubleStar \/ (ByNameTo(name) \in DOMAIN params
                                                   /\ params[ByNameTo(name)].kind \notin Rest)
    BY NamedIs DEF Rest
  <1>8. 0 \notin DOMAIN params
    BY DEF Ordered
  <1>9. ASSUME c # 0
        PROVE  \A i : << i, "collector" >> \in Landed <=> i = c
    <2>1. CASE params[c].kind = "positionalOnly"
      <3>1. collector = ByPosition
        BY <1>1, <1>9, <2>1, HomeIs
      <3>2. CollectorPlace = c /\ ByPositionTo(CollectorPlace) = c
        BY <1>9, <2>1, PlacesAre
      <3>3. collector.by # "name"
        BY <3>1, WaysAre
      <3>4. QED
        BY <3>1, <3>2, <3>3, LandedIs
    <2>2. CASE params[c].kind \in {"positional", "keywordOnly"}
      <3>1. c \in DOMAIN params /\ collector = ByName(params[c].name)
        BY <1>1, <1>9, <2>2, HomeIs
      <3>2. collector.by = "name" /\ collector # ByPosition /\ collector.name = params[c].name
        BY <3>1, WaysAre
      <3>3. ByNameTo(params[c].name) = c
        BY <2>2, <3>1, NamedIs
      <3>4. QED
        BY <3>2, <3>3, LandedIs
    <2>3. CASE params[c].kind = "varPositional"
      <3>1. c \in DOMAIN params /\ collector = ByPosition /\ Star = c /\ collector.by # "name"
        BY <1>1, <1>9, <2>3, HomeIs, StarIs, WaysAre
      <3>2. PICK i \in {Star, DoubleStar} : << i, "collector" >> \in Landed
        BY <1>5, <1>9, <2>3 DEF Rest
      <3>3. i = ByPositionTo(CollectorPlace)
        BY <3>1, <3>2, LandedIs
      <3>4. i = c
        BY <1>4, <1>6, <1>8, <3>1, <3>2, <3>3
      <3>5. QED
        BY <3>1, <3>3, <3>4, LandedIs
    <2>4. CASE params[c].kind = "varKeyword"
      <3>1. /\ c \in DOMAIN params /\ collector = ByName("collector") /\ DoubleStar = c
            /\ collector.by = "name" /\ collector # ByPosition /\ collector.name = "collector"
        BY <1>1, <1>9, <2>4, HomeIs, StarIs, WaysAre
      <3>2. PICK i \in {Star, DoubleStar} : << i, "collector" >> \in Landed
        BY <1>5, <1>9, <2>4 DEF Rest
      <3>3. i = ByNameTo("collector")
        BY <3>1, <3>2, LandedIs
      <3>4. i = c
        BY <1>4, <1>7, <1>8, <3>1, <3>2, <3>3
      <3>5. QED
        BY <3>1, <3>3, <3>4, LandedIs
    <2>5. QED
      BY <1>1, <1>9, <2>1, <2>2, <2>3, <2>4, HomeIs DEF Rest
  <1>10. ASSUME e # 0
         PROVE  \A i : << i, "exception" >> \in Landed <=> i = e
    <2>1. CASE params[e].kind = "positionalOnly"
      <3>1. exception = ByPosition
        BY <1>1, <1>10, <2>1, HomeIs
      <3>2. ExceptionPlace = e /\ ByPositionTo(ExceptionPlace) = e
        BY <1>10, <2>1, PlacesAre
      <3>3. exception.by # "name"
        BY <3>1, WaysAre
      <3>4. QED
        BY <3>1, <3>2, <3>3, LandedIs
    <2>2. CASE params[e].kind \in {"positional", "keywordOnly"}
      <3>1. e \in DOMAIN params /\ exception = ByName(params[e].name)
        BY <1>1, <1>10, <2>2, HomeIs
      <3>2. exception.by = "name" /\ exception # ByPosition /\ exception.name = params[e].name
        BY <3>1, WaysAre
      <3>3. ByNameTo(params[e].name) = e
        BY <2>2, <3>1, NamedIs
      \* No other argument has that name.
      <3>4. exception # collector
        <4>1. SUFFICES ASSUME exception = collector
                       PROVE  FALSE
          OBVIOUS
        <4>2. c # 0 /\ << e, "collector" >> \in Landed
          BY <1>3, <3>2, <3>3, <4>1, LandedIs
        <4>3. e = c
          BY <1>9, <4>2
        <4>4. QED
          BY <1>1, <1>10, <2>2, <4>3 DEF Rest
      <3>5. QED
        BY <3>2, <3>3, <3>4, LandedIs
    <2>3. CASE params[e].kind = "varPositional"
      <3>1. e \in DOMAIN params /\ exception = ByPosition /\ Star = e /\ exception.by # "name"
        BY <1>1, <1>10, <2>3, HomeIs, StarIs, WaysAre
      <3>2. PICK i \in {Star, DoubleStar} : << i, "exception" >> \in Landed
        BY <1>5, <1>10, <2>3 DEF Rest
      <3>3. i = ByPositionTo(ExceptionPlace)
        BY <3>1, <3>2, LandedIs
      <3>4. i = e
        BY <1>4, <1>6, <1>8, <3>1, <3>2, <3>3
      <3>5. QED
        BY <3>1, <3>3, <3>4, LandedIs
    <2>4. CASE params[e].kind = "varKeyword"
      <3>1. /\ e \in DOMAIN params /\ exception = ByName("exception") /\ DoubleStar = e
            /\ exception.by = "name" /\ exception # ByPosition /\ exception.name = "exception"
        BY <1>1, <1>10, <2>4, HomeIs, StarIs, WaysAre
      <3>2. PICK i \in {Star, DoubleStar} : << i, "exception" >> \in Landed
        BY <1>5, <1>10, <2>4 DEF Rest
      <3>3. i = ByNameTo("exception") /\ exception # collector
        BY <3>1, <3>2, LandedIs
      <3>4. i = e
        BY <1>4, <1>7, <1>8, <3>1, <3>2, <3>3
      <3>5. QED
        BY <3>1, <3>3, <3>4, LandedIs
    <2>5. QED
      BY <1>1, <1>10, <2>1, <2>2, <2>3, <2>4, HomeIs DEF Rest
  <1>11. QED
    BY <1>3, <1>9, <1>10

\* What the invariant says of the call.
LEMMA CallIs ==
  ASSUME Inv, ~refused, ~Shadowed
  PROVE  /\ \A x \in Landed : x[1] # 0
         /\ \A i \in DOMAIN params \ {Star, DoubleStar} : Cardinality(Taken(i)) <= 1
         /\ \A i \in DOMAIN params : Required(params[i]) => Taken(i) # {}
         /\ \A x \in Landed : x[1] \in {Star, DoubleStar} \/ params[x[1]].hint \in {"none", x[2]}
         /\ \A i \in DOMAIN params :
              /\ ForException(params[i]) => << i, "exception" >> \in Landed
              /\ ForCollector(params[i]) => << i, "collector" >> \in Landed
  <1>1. PICK e \in Nat, c \in Nat : Ordered /\ Homes(e, c)
    BY DEF Inv
  <1>2. /\ IsHome(params, backable, exception, "exception", e)
        /\ IsHome(params, backable, collector, "collector", c)
        /\ e = c /\ e # 0 => params[e].kind \in Rest
        /\ \A i \in DOMAIN params : Required(params[i]) => i \in {e, c}
        /\ 0 \notin DOMAIN params
    BY <1>1 DEF Homes, Ordered
  <1>3. /\ \A i : << i, "exception" >> \in Landed <=> e # 0 /\ i = e
        /\ \A i : << i, "collector" >> \in Landed <=> c # 0 /\ i = c
    BY <1>1, Lands
  <1>4. \A x \in Landed : \/ x = << e, "exception" >> /\ e # 0
                          \/ x = << c, "collector" >> /\ c # 0
    BY <1>3, LandedIs
  <1>5. << e, "exception" >>[1] = e /\ << c, "collector" >>[1] = c
        /\ << e, "exception" >>[2] = "exception" /\ << c, "collector" >>[2] = "collector"
    OBVIOUS
  <1>6. \A x \in Landed : x[1] # 0
    BY <1>4, <1>5
  <1>7. /\ e # 0 => e \in {Star, DoubleStar} \/ params[e].hint \in {"none", "exception"}
        /\ c # 0 => c \in {Star, DoubleStar} \/ params[c].hint \in {"none", "collector"}
    <2>1. /\ e # 0 => /\ e \in DOMAIN params
                      /\ params[e].kind \in Rest \/ Takes(params[e], "exception")
          /\ c # 0 => /\ c \in DOMAIN params
                      /\ params[c].kind \in Rest \/ Takes(params[c], "collector")
      BY <1>1, <1>2, HomeIs
    <2>2. \A h \in DOMAIN params : params[h].kind \in Rest => h \in {Star, DoubleStar}
      BY <1>1, StarIs DEF Rest
    <2>3. QED
      BY <2>1, <2>2 DEF Takes, TakesException, TakesCollector
  <1>8. \A x \in Landed : x[1] \in {Star, DoubleStar} \/ params[x[1]].hint \in {"none", x[2]}
    BY <1>4, <1>5, <1>7
  <1>9. ASSUME NEW i \in DOMAIN params \ {Star, DoubleStar}
        PROVE  Cardinality(Taken(i)) <= 1
    <2>1. ~(i = e /\ i = c)
      <3>1. i \in DOMAIN params /\ params[i].kind \in Rest => i \in {Star, DoubleStar}
        BY <1>1, StarIs DEF Rest
      <3>2. QED
        BY <1>2, <1>9, <3>1
    <2>2. PICK y : \A x \in Taken(i) : x = y
      BY <1>4, <1>5, <2>1 DEF Taken
    <2>3. CASE Taken(i) = {}
      BY <2>3, FS_EmptySet
    <2>4. CASE Taken(i) # {}
      <3>1. Taken(i) = {y}
        BY <2>2, <2>4
      <3>2. QED
        BY <3>1, FS_Singleton
    <2>5. QED
      BY <2>3, <2>4
  <1>10. ASSUME NEW i \in DOMAIN params, Required(params[i])
         PROVE  Taken(i) # {}
    BY <1>2, <1>3, <1>5, <1>10 DEF Taken
  <1>11. ASSUME NEW i \in DOMAIN params
         PROVE  /\ ForException(params[i]) => << i, "exception" >> \in Landed
                /\ ForCollector(params[i]) => << i, "collector" >> \in Landed
    BY <1>2, <1>3, <1>11 DEF IsHome, For
  <1>12. QED
    BY <1>6, <1>8, <1>9, <1>10, <1>11

\* AsyncExceptionCollectorListenerWrapper.invoke: the call of a listener that was
\* not refused binds, whatever parameters it has.
THEOREM CallsBind == Spec => []CallBinds
  <1>1. Inv => CallBinds
    BY CallIs DEF CallBinds
  <1>2. QED
    BY <1>1, HomesInit, HomesStep, PTL DEF Spec

\* analyze_signature: exception and collector land where the annotations let them,
\* and on the parameters that have the names for them.
THEOREM ArgumentsLand == Spec => []ArgumentsFit
  <1>1. Inv => ArgumentsFit
    BY CallIs DEF ArgumentsFit
  <1>2. QED
    BY <1>1, HomesInit, HomesStep, PTL DEF Spec

-----------------------------------------------------------------------------
(* Sdp: the text and its sections                                          *)

\* The payloads that are offered, and the lines that a text has.
Offered == UNION {ToSet(Media[type]) : type \in Types}
Attributes == {"rtpmap", "rtcp-fb", "fmtp"}
Lines ==
  {SessionLine, EndLine} \cup {MLine(type, pts) : type \in Types, pts \in Seq(Nat)}
  \cup {MidLine(m) : m \in Nat} \cup {Rtpmap(c) : c \in Offered}
  \cup {Feedback(c) : c \in Offered} \cup {Fmtp(c, rate) : c \in Offered, rate \in Nat}

\* A section of m: its m-line, its mid line, and attributes of payloads.
Shape(s, m) ==
  /\ s \in Seq(Lines) /\ Len(s) >= 2 /\ IsM(s[1]) /\ s[2] = MidLine(m)
  /\ \A k \in 3..Len(s) : s[k].key \in Attributes

\* A text of n sections, where section m starts at line start[m].
Part(text, start, m) == SubSeq(text, start[m], start[m + 1] - 1)
Cuts(text, n, start) ==
  /\ text \in Seq(Lines) /\ start \in [1..(n + 1) -> Nat]
  /\ start[1] = 2 /\ start[n + 1] = Len(text)
  /\ text[1] = SessionLine /\ text[Len(text)] = EndLine
  /\ \A i, j \in 1..(n + 1) : i <= j => start[i] <= start[j]
  /\ \A k \in 2..(Len(text) - 1) : \E m \in 1..n : start[m] <= k /\ k < start[m + 1]
  /\ \A m \in 1..n : Shape(Part(text, start, m), m)

\* The kinds of lines are told by their keys.
LEMMA KindsOfLines ==
  /\ ~IsM(SessionLine) /\ ~IsM(EndLine) /\ SessionLine # EndLine
  /\ \A m : ~IsM(MidLine(m)) /\ MidLine(m).key \notin Attributes /\ MidLine(m) # SessionLine
            /\ MidLine(m) # EndLine
  /\ \A m, n : MidLine(m) = MidLine(n) => m = n
  /\ \A l : IsM(l) => l # SessionLine /\ l # EndLine /\ l.key \notin Attributes
                      /\ \A m : l # MidLine(m)
  /\ \A l : l.key \in Attributes => ~IsM(l) /\ l # SessionLine /\ l # EndLine
                                    /\ \A m : l # MidLine(m)
  <1>1. /\ SessionLine.key = "session" /\ EndLine.key = "end" /\ \A m : MidLine(m).key = "mid"
        /\ \A m : MidLine(m).mid = m
    BY DEF SessionLine, EndLine, MidLine
  <1>2. \A m, n : MidLine(m) = MidLine(n) => m = n
    BY <1>1
  <1>3. QED
    BY <1>1, <1>2 DEF IsM, Attributes

\* The lines of a text by its cuts.
LEMMA CutsLines ==
  ASSUME NEW n \in Nat, NEW text, NEW start, Cuts(text, n, start), NEW m \in 1..n
  PROVE  /\ start[m] \in Nat /\ start[m + 1] \in Nat /\ start[m] >= 2
         /\ start[m] + 2 <= start[m + 1] /\ start[m + 1] <= Len(text)
         /\ Part(text, start, m) \in Seq(Lines)
         /\ Len(Part(text, start, m)) = start[m + 1] - start[m]
         /\ \A k \in 1..(start[m + 1] - start[m]) : Part(text, start, m)[k] = text[start[m] + k - 1]
         /\ IsM(text[start[m]]) /\ text[start[m] + 1] = MidLine(m)
         /\ \A k \in (start[m] + 2)..(start[m + 1] - 1) : text[k].key \in Attributes
  <1> DEFINE a == start[m]
             b == start[m + 1]
             s == Part(text, start, m)
  <1>1. m \in 1..(n + 1) /\ m + 1 \in 1..(n + 1) /\ 1 \in 1..(n + 1) /\ n + 1 \in 1..(n + 1)
        /\ 1 <= m /\ m + 1 <= n + 1 /\ m <= m + 1
    OBVIOUS
  <1>2. a \in Nat /\ b \in Nat /\ a >= 2 /\ a <= b /\ b <= Len(text) /\ Len(text) \in Nat
        /\ text \in Seq(Lines)
    BY <1>1 DEF Cuts
  <1>3. /\ s \in Seq(Lines) /\ Len(s) >= 2 /\ IsM(s[1]) /\ s[2] = MidLine(m)
        /\ \A k \in 3..Len(s) : s[k].key \in Attributes
    BY DEF Cuts, Shape
  <1>4. s = SubSeq(text, a, b - 1)
    BY DEF Part
  <1> HIDE DEF a, b, s
  <1>5. /\ Len(s) = IF a <= b - 1 THEN (b - 1) - a + 1 ELSE 0
        /\ \A k \in 1..((b - 1) - a + 1) : s[k] = text[a + k - 1]
    <2>1. a \in Int /\ b - 1 \in Int /\ \A k \in a..(b - 1) : text[k] \in Lines
      BY <1>2
    <2>2. QED
      BY <1>4, <2>1, SubSeqProperties
  <1>6. Len(s) = b - a /\ a + 2 <= b
    BY <1>2, <1>3, <1>5
  <1>7. \A k \in 1..(b - a) : s[k] = text[a + k - 1]
    BY <1>2, <1>5
  <1>8. IsM(text[a]) /\ text[a + 1] = MidLine(m)
    <2>1. 1 \in 1..(b - a) /\ 2 \in 1..(b - a) /\ a + 1 - 1 = a /\ a + 2 - 1 = a + 1
      BY <1>2, <1>6
    <2>2. s[1] = text[a] /\ s[2] = text[a + 1]
      BY <1>7, <2>1
    <2>3. QED
      BY <1>3, <2>2
  <1>9. ASSUME NEW k \in (a + 2)..(b - 1) PROVE text[k].key \in Attributes
    <2>1. k - a + 1 \in 1..(b - a) /\ k - a + 1 \in 3..Len(s) /\ a + (k - a + 1) - 1 = k
      BY <1>2, <1>6
    <2>2. s[k - a + 1] = text[k]
      BY <1>7, <2>1
    <2>3. QED
      BY <1>3, <2>1, <2>2
  <1>10. QED
    BY <1>2, <1>3, <1>6, <1>7, <1>8, <1>9 DEF a, b, s

\* The first line of a section.
LEMMA FirstLine ==
  ASSUME NEW n \in Nat, NEW text, NEW start, Cuts(text, n, start), NEW m \in 1..n
  PROVE  text[start[m]] = Part(text, start, m)[1]
  <1> DEFINE a == start[m]
             b == start[m + 1]
             s == Part(text, start, m)
  <1>1. /\ a \in Nat /\ b \in Nat /\ a + 2 <= b
        /\ \A k \in 1..(b - a) : s[k] = text[a + k - 1]
    BY CutsLines
  <1> HIDE DEF a, b, s
  <1>2. 1 \in 1..(b - a) /\ a + 1 - 1 = a
    BY <1>1
  <1>3. s[1] = text[a]
    BY <1>1, <1>2
  <1>4. QED
    BY <1>3 DEF a, s

\* Where the m-lines, the mid lines and the end of a text are.
LEMMA Places ==
  ASSUME NEW n \in Nat, NEW text, NEW start, Cuts(text, n, start), NEW k \in 1..Len(text)
  PROVE  /\ IsM(text[k]) <=> \E m \in 1..n : k = start[m]
         /\ \A m : text[k] = MidLine(m) => m \in 1..n /\ k = start[m] + 1
         /\ text[k] = EndLine => k = Len(text)
  <1>1. /\ text \in Seq(Lines) /\ Len(text) \in Nat
        /\ text[1] = SessionLine /\ text[Len(text)] = EndLine
        /\ \A i \in 2..(Len(text) - 1) : \E m \in 1..n : start[m] <= i /\ i < start[m + 1]
    BY SMTT(40) DEF Cuts
  <1>2. ASSUME NEW m \in 1..n, k = start[m] PROVE IsM(text[k])
    BY <1>2, CutsLines
  <1>3. CASE k = 1 \/ k = Len(text)
    BY <1>1, <1>2, <1>3, KindsOfLines
  <1>4. CASE k # 1 /\ k # Len(text)
    <2>1. k \in 2..(Len(text) - 1)
      BY <1>1, <1>4
    <2>2. PICK m \in 1..n : start[m] <= k /\ k < start[m + 1]
      BY <1>1, <2>1
    <2> DEFINE a == start[m]
               b == start[m + 1]
    <2>3. /\ a \in Nat /\ b \in Nat /\ a <= k /\ k < b
          /\ IsM(text[a]) /\ text[a + 1] = MidLine(m)
          /\ \A i \in (a + 2)..(b - 1) : text[i].key \in Attributes
      BY <2>2, CutsLines
    <2>4. a = start[m]
      OBVIOUS
    <2> HIDE DEF a, b
    <2>5. k = a \/ k = a + 1 \/ k \in (a + 2)..(b - 1)
      BY <2>3
    <2>6. CASE k = a
      BY <2>3, <2>4, <2>6, KindsOfLines
    <2>7. CASE k = a + 1
      BY <1>2, <2>3, <2>4, <2>7, KindsOfLines
    <2>8. CASE k \in (a + 2)..(b - 1)
      BY <1>2, <2>3, <2>8, KindsOfLines
    <2>9. QED
      BY <2>5, <2>6, <2>7, <2>8
  <1>5. QED
    BY <1>3, <1>4

\* The sections start one after the other.
LEMMA StartsGrow ==
  ASSUME NEW n \in Nat, NEW text, NEW start, Cuts(text, n, start), NEW i \in 1..n,
           NEW j \in 1..(n + 1)
  PROVE  /\ i < j => start[i] + 2 <= start[j]
         /\ start[j] \in Nat
  <1>1. /\ \A p, q \in 1..(n + 1) : p <= q => start[p] <= start[q]
        /\ start \in [1..(n + 1) -> Nat]
    BY DEF Cuts
  <1>2. start[i] + 2 <= start[i + 1] /\ start[i] \in Nat /\ start[i + 1] \in Nat
    BY CutsLines
  <1>3. ASSUME i < j PROVE start[i] + 2 <= start[j]
    <2>1. i + 1 \in 1..(n + 1) /\ i + 1 <= j
      BY <1>3
    <2>2. start[i + 1] <= start[j] /\ start[j] \in Nat
      BY <1>1, <2>1
    <2>3. QED
      BY <1>2, <2>2
  <1>4. QED
    BY <1>1, <1>3

\* findMLineRangeWithMID finds the section.
LEMMA RangeIs ==
  ASSUME NEW n \in Nat, NEW text, NEW start, Cuts(text, n, start), NEW m \in 1..n
  PROVE  /\ SectionRange(text, m) = [first |-> start[m], last |-> start[m + 1] - 1]
         /\ SectionOf(text, m) = Part(text, start, m)
  <1> DEFINE a == start[m]
             b == start[m + 1]
             L == Len(text)
             A == {k \in 1..L : text[k] = MidLine(m)}
             at == IF A # {} THEN Min(A) ELSE 0
             N == {k \in at..L : IsM(text[k])}
             next == IF N # {} THEN Min(N) ELSE 0
             F == {k \in 1..at : IsM(text[k])}
             home == IF F # {} THEN Max(F) ELSE 0
  <1>1. /\ a \in Nat /\ b \in Nat /\ a >= 2 /\ a + 2 <= b /\ b <= L /\ L \in Nat
        /\ IsM(text[a]) /\ text[a + 1] = MidLine(m)
    <2>1. L \in Nat
      BY DEF Cuts
    <2>2. QED
      BY <2>1, CutsLines
  <1>2. \A k \in 1..L : text[k] = MidLine(m) => k = a + 1
    BY Places
  <1>3. \A k \in 1..L : IsM(text[k]) => \E i \in 1..n : k = start[i]
    BY Places
  <1>4. \A i \in 1..n : start[i] \in Nat /\ (start[i] <= a \/ b <= start[i])
    <2>1. SUFFICES ASSUME NEW i \in 1..n
                   PROVE  start[i] \in Nat /\ (start[i] <= a \/ b <= start[i])
      OBVIOUS
    <2>2. i \in 1..(n + 1) /\ m \in 1..(n + 1) /\ m + 1 \in 1..(n + 1) /\ (i <= m \/ m + 1 <= i)
      OBVIOUS
    <2>3. QED
      BY <2>2 DEF Cuts
  <1>5. at = a + 1
    <2>1. A = {a + 1}
      BY <1>1, <1>2, SMTT(40)
    <2>2. Min({a + 1}) \in {a + 1}
      <3>1. {a + 1} \subseteq Nat /\ {a + 1} # {}
        BY <1>1
      <3>2. QED
        BY <3>1, LeastOf
    <2>3. QED
      BY <2>1, <2>2
  <1>6. (IF next = 0 THEN L ELSE next) = b
    <2>1. CASE m = n
      <3>1. b = L /\ \A i \in 1..n : start[i] <= a
        <4>1. b = L
          BY <2>1 DEF Cuts
        <4>2. ASSUME NEW i \in 1..n PROVE start[i] <= a
          <5>1. i \in 1..(n + 1) /\ m \in 1..(n + 1) /\ i <= m
            BY <2>1
          <5>2. QED
            BY <5>1 DEF Cuts
        <4>3. QED
          BY <4>1, <4>2
      <3>2. N = {}
        <4>1. SUFFICES ASSUME NEW k \in at..L, IsM(text[k]) PROVE FALSE
          OBVIOUS
        <4> HIDE DEF at, a
        <4>2. k \in 1..L /\ a + 1 <= k
          BY <1>1, <1>5
        <4>3. QED
          BY <1>1, <1>3, <1>4, <3>1, <4>1, <4>2
      <3>3. QED
        BY <3>1, <3>2
    <2>2. CASE m # n
      <3>1. m + 1 \in 1..n
        BY <2>2
      <3>2. IsM(text[b])
        BY <3>1, CutsLines
      <3> HIDE DEF at, a, b
      <3>3. b \in N
        BY <1>1, <1>5, <3>2
      <3>4. \A k \in N : k \in Nat /\ b <= k
        <4>1. SUFFICES ASSUME NEW k \in at..L, IsM(text[k]) PROVE k \in Nat /\ b <= k
          OBVIOUS
        <4>2. k \in 1..L /\ a + 1 <= k
          BY <1>1, <1>5
        <4>3. QED
          BY <1>1, <1>3, <1>4, <4>1, <4>2
      <3>5. N \subseteq Nat /\ N # {}
        BY <3>3, <3>4
      <3>6. Min(N) \in N /\ \A k \in N : Min(N) <= k
        <4> HIDE DEF N
        <4>1. QED BY <3>5, LeastOf
      <3>7. Min(N) = b
        <4> HIDE DEF N
        <4>1. Min(N) \in Nat /\ b <= Min(N) /\ Min(N) <= b
          BY <3>3, <3>4, <3>6
        <4>2. QED
          BY <4>1, <1>1
      <3>8. next = b /\ b # 0
        BY <1>1, <3>5, <3>7
      <3>9. QED
        <4> HIDE DEF next
        <4>1. QED BY <3>8
    <2>3. QED
      BY <2>1, <2>2
  <1>7. home = a
    <2> HIDE DEF at, a, b, next
    <2>1. a \in F
      BY <1>1, <1>5
    <2>2. \A k \in F : k \in 0..L /\ k <= a
      <3>1. SUFFICES ASSUME NEW k \in 1..at, IsM(text[k]) PROVE k \in 0..L /\ k <= a
        OBVIOUS
      <3>2. k \in 1..L /\ k <= a + 1
        BY <1>1, <1>5
      <3>3. QED
        BY <1>1, <1>3, <1>4, <3>1, <3>2, SMTT(40)
    <2>3. F \in SUBSET (0..L) /\ F # {}
      BY <2>1, <2>2
    <2>4. Max(F) \in F /\ \A k \in F : k <= Max(F)
      <3> HIDE DEF F
      <3>1. QED BY <1>1, <2>3, GreatestOf
    <2>5. Max(F) = a
      <3> HIDE DEF F
      <3>1. Max(F) \in Nat /\ a <= Max(F) /\ Max(F) <= a
        <4>1. PICK x \in F : x = Max(F)
          BY <2>4
        <4>2. x \in 0..L /\ x <= a /\ a <= x
          BY <2>1, <2>2, <2>4, <4>1
        <4>3. QED
          BY <4>1, <4>2, <1>1
      <3>2. QED
        BY <3>1, <1>1
    <2>6. QED
      BY <2>3, <2>5
  <1>8. SectionRange(text, m) = [first |-> home, last |-> (IF next = 0 THEN L ELSE next) - 1]
    BY DEF SectionRange, SelectInSubSeq, SelectLastInSubSeq
  <1>9. SectionRange(text, m) = [first |-> a, last |-> b - 1]
    <2> HIDE DEF home, next, a, b
    <2>1. QED BY <1>6, <1>7, <1>8
  <1>10. QED
    <2> HIDE DEF a, b
    <2>1. SectionRange(text, m).first = a /\ SectionRange(text, m).last = b - 1
      BY <1>9
    <2>2. SectionOf(text, m) = SubSeq(text, a, b - 1)
      BY <2>1 DEF SectionOf
    <2>3. QED
      BY <1>9, <2>2 DEF Part, a, b

\* The section of the properties is the one between the cuts.
LEMMA SectionIs ==
  ASSUME NEW n \in Nat, NEW text, NEW start, Cuts(text, n, start), NEW m \in 1..n
  PROVE  /\ Home(text, m) = start[m] /\ start[m] \in 1..Len(text)
         /\ Section(text, m) = Part(text, start, m)
  <1> DEFINE a == start[m]
             b == start[m + 1]
             L == Len(text)
             N == {k \in (a + 1)..L : IsM(text[k]) \/ text[k] = EndLine}
             Here(k) == k < L /\ IsM(text[k]) /\ text[k + 1] = MidLine(m)
  <1>1. /\ a \in Nat /\ b \in Nat /\ a >= 2 /\ a + 2 <= b /\ b <= L /\ L \in Nat
        /\ IsM(text[a]) /\ text[a + 1] = MidLine(m)
    <2>1. L \in Nat
      BY DEF Cuts
    <2>2. QED
      BY <2>1, CutsLines
  <1>d. DOMAIN text = 1..L
    BY DEF Cuts
  <1>2. \A k \in 1..L : text[k] = MidLine(m) => k = a + 1
    BY Places
  <1>3. \A k \in 1..L : IsM(text[k]) => \E i \in 1..n : k = start[i]
    BY Places
  <1>4. \A k \in 1..L : text[k] = EndLine => k = L
    BY Places
  <1>5. \A i \in 1..n : start[i] \in Nat /\ (start[i] <= a \/ b <= start[i])
    <2>1. SUFFICES ASSUME NEW i \in 1..n
                   PROVE  start[i] \in Nat /\ (start[i] <= a \/ b <= start[i])
      OBVIOUS
    <2>2. i \in 1..(n + 1) /\ m \in 1..(n + 1) /\ m + 1 \in 1..(n + 1) /\ (i <= m \/ m + 1 <= i)
      OBVIOUS
    <2>3. QED
      BY <2>2 DEF Cuts
  <1>6. IsM(text[b]) \/ text[b] = EndLine
    <2>1. CASE m = n
      BY <2>1 DEF Cuts
    <2>2. CASE m # n
      <3>1. m + 1 \in 1..n
        BY <2>2
      <3>2. QED
        BY <3>1, CutsLines
    <2>3. QED
      BY <2>1, <2>2
  <1> HIDE DEF a, b
  <1>7. a \in 1..L /\ a + 1 \in 1..L /\ a < L
    BY <1>1
  <1>8. \A k \in 1..L : Here(k) <=> k = a
    <2>1. Here(a)
      BY <1>1, <1>7
    <2>2. ASSUME NEW k \in 1..L, Here(k) PROVE k = a
      <3>1. k + 1 \in 1..L /\ text[k + 1] = MidLine(m)
        BY <1>1, <2>2
      <3>2. k + 1 = a + 1
        BY <3>1, <1>2
      <3>3. QED
        BY <3>2, <1>1
    <2>3. QED
      BY <2>1, <2>2
  <1> HIDE DEF Here
  <1>9. (CHOOSE k \in 1..L : Here(k)) = a
    BY <1>7, <1>8
  <1>10. Home(text, m) = CHOOSE k \in 1..L : Here(k)
    BY <1>d DEF Home, Here
  <1>11. Home(text, m) = a
    BY <1>9, <1>10
  <1>12. b \in N /\ \A k \in N : k \in Nat /\ b <= k
    <2>1. b \in N
      BY <1>1, <1>6
    <2>2. ASSUME NEW k \in (a + 1)..L, IsM(text[k]) \/ text[k] = EndLine
          PROVE  k \in Nat /\ b <= k
      <3>1. k \in 1..L /\ a + 1 <= k
        BY <1>1
      <3>2. CASE IsM(text[k])
        BY <1>1, <1>3, <1>5, <3>1, <3>2
      <3>3. CASE text[k] = EndLine
        BY <1>1, <1>4, <3>1, <3>3
      <3>4. QED
        BY <2>2, <3>2, <3>3
    <2>3. QED
      BY <2>1, <2>2
  <1>13. Min(N) = b
    <2>1. N \subseteq Nat /\ N # {}
      BY <1>12
    <2> HIDE DEF N
    <2>2. Min(N) \in N /\ \A k \in N : Min(N) <= k
      BY <2>1, LeastOf
    <2>3. PICK x \in N : x = Min(N)
      BY <2>2
    <2>4. x \in Nat /\ b <= x /\ x <= b
      BY <1>12, <2>2, <2>3
    <2>5. QED
      BY <2>3, <2>4, <1>1
  <1>14. Section(text, m) = SubSeq(text, Home(text, m), Min(N) - 1)
    BY <1>11 DEF Section
  <1>15. Section(text, m) = SubSeq(text, a, b - 1)
    BY <1>11, <1>13, <1>14
  <1>16. QED
    BY <1>7, <1>11, <1>15 DEF Part, a, b

\* Lines i to j of a text, put together from those of another one.
LEMMA SamePart ==
  ASSUME NEW text \in Seq(Lines), NEW new \in Seq(Lines), NEW i \in 1..Len(text), NEW j \in Int,
         i <= j + 1, j <= Len(text),
         NEW p \in 1..Len(new), NEW q \in Int, q <= Len(new), q - p = j - i,
         \A k \in i..j : new[k - i + p] = text[k]
  PROVE  SubSeq(new, p, q) = SubSeq(text, i, j)
  <1>0. Len(text) \in Nat /\ Len(new) \in Nat /\ \A k \in 1..Len(new) : new[k] \in Lines
    OBVIOUS
  <1>1. /\ SubSeq(text, i, j) \in Seq(Lines) /\ Len(SubSeq(text, i, j)) = j - i + 1
        /\ \A k \in 1..(j - i + 1) : SubSeq(text, i, j)[k] = text[i + k - 1]
    <2>1. i \in Int /\ \A k \in i..j : text[k] \in Lines
      OBVIOUS
    <2>2. Len(SubSeq(text, i, j)) = IF i <= j THEN j - i + 1 ELSE 0
      BY <2>1, SubSeqProperties
    <2>3. (IF i <= j THEN j - i + 1 ELSE 0) = j - i + 1
      OBVIOUS
    <2>4. QED
      BY <2>1, <2>2, <2>3, SubSeqProperties
  <1>2. /\ SubSeq(new, p, q) \in Seq(Lines) /\ Len(SubSeq(new, p, q)) = q - p + 1
        /\ \A k \in 1..(q - p + 1) : SubSeq(new, p, q)[k] = new[p + k - 1]
    <2>1. p \in Int /\ \A k \in p..q : new[k] \in Lines
      BY <1>0
    <2>2. Len(SubSeq(new, p, q)) = IF p <= q THEN q - p + 1 ELSE 0
      BY <2>1, SubSeqProperties
    <2>3. (IF p <= q THEN q - p + 1 ELSE 0) = q - p + 1
      OBVIOUS
    <2>4. QED
      BY <2>1, <2>2, <2>3, SubSeqProperties
  <1>3. \A k \in 1..(j - i + 1) : new[p + k - 1] = text[i + k - 1]
    <2>1. SUFFICES ASSUME NEW k \in 1..(j - i + 1) PROVE new[p + k - 1] = text[i + k - 1]
      OBVIOUS
    <2>2. i + k - 1 \in i..j /\ (i + k - 1) - i + p = p + k - 1
      OBVIOUS
    <2>3. QED
      BY <2>2
  <1>4. q - p + 1 = j - i + 1
    OBVIOUS
  <1> DEFINE u == SubSeq(text, i, j)
             v == SubSeq(new, p, q)
             l == j - i + 1
  <1>5. l = q - p + 1
    OBVIOUS
  <1>6. u \in Seq(Lines) /\ v \in Seq(Lines) /\ Len(u) = l /\ Len(v) = l
    BY <1>1, <1>2, <1>5
  <1>7. \A k \in 1..l : v[k] = u[k]
    BY <1>1, <1>2, <1>3, <1>4
  <1> HIDE DEF u, v, l
  <1>8. v = u
    BY <1>6, <1>7, SeqEqual
  <1>9. QED
    BY <1>8 DEF u, v

\* Replacing a section keeps the text in cuts, and the other sections.
LEMMA ReplaceIs ==
  ASSUME NEW n \in Nat, NEW text, NEW start, Cuts(text, n, start), NEW m \in 1..n,
         NEW s, Shape(s, m)
  PROVE  \E new : /\ Cuts(Replaced(text, m, s), n, new)
                  /\ Part(Replaced(text, m, s), new, m) = s
                  /\ \A i \in 1..n : i # m =>
                       Part(Replaced(text, m, s), new, i) = Part(text, start, i)
  <1> DEFINE a == start[m]
             b == start[m + 1]
             c == a + Len(s)
             L == Len(text)
             t == Replaced(text, m, s)
             u == SubSeq(text, 1, a - 1)
             v == SubSeq(text, b, L)
             new == [i \in 1..(n + 1) |-> IF i <= m THEN start[i] ELSE start[i] - b + c]
  <1>0. L \in Nat /\ text \in Seq(Lines) /\ start \in [1..(n + 1) -> Nat]
        /\ start[1] = 2 /\ start[n + 1] = L
        /\ (\A i, j \in 1..(n + 1) : i <= j => start[i] <= start[j])
        /\ text[1] = SessionLine /\ text[L] = EndLine
        /\ \A k \in 2..(L - 1) : \E i \in 1..n : start[i] <= k /\ k < start[i + 1]
    <2>1. L \in Nat /\ text \in Seq(Lines)
      BY DEF Cuts
    <2>2. start \in [1..(n + 1) -> Nat] /\ start[1] = 2 /\ start[n + 1] = L
          /\ (\A i, j \in 1..(n + 1) : i <= j => start[i] <= start[j])
      BY DEF Cuts
    <2>3. text[1] = SessionLine /\ text[L] = EndLine
          /\ \A k \in 2..(L - 1) : \E i \in 1..n : start[i] <= k /\ k < start[i + 1]
      BY DEF Cuts
    <2>4. QED
      BY <2>1, <2>2, <2>3
  <1>1. /\ a \in Nat /\ b \in Nat /\ a >= 2 /\ a + 2 <= b /\ b <= L
    BY CutsLines
  <1>2. s \in Seq(Lines) /\ Len(s) \in Nat /\ Len(s) >= 2
    BY DEF Shape
  <1>3. t = (u \o s) \o v
    <2>1. SectionRange(text, m).first = a /\ SectionRange(text, m).last = b - 1
      BY RangeIs
    <2>2. (b - 1) + 1 = b
      BY <1>1
    <2> HIDE DEF a, b
    <2>3. t = SubSeq(text, 1, a - 1) \o s \o SubSeq(text, (b - 1) + 1, L)
      BY <2>1 DEF Replaced
    <2>4. QED
      BY <2>2, <2>3
  <1>a. a = start[m] /\ b = start[m + 1]
    OBVIOUS
  <1>n. /\ \A i \in 1..(n + 1) : new[i] = IF i <= m THEN start[i] ELSE start[i] - b + c
        /\ DOMAIN new = 1..(n + 1) /\ new = [i \in 1..(n + 1) |-> new[i]]
    OBVIOUS
  <1> HIDE DEF t, a, b, new
  <1>4. u \in Seq(Lines) /\ Len(u) = a - 1 /\ \A k \in 1..(a - 1) : u[k] = text[k]
    <2>1. 1 \in Int /\ a - 1 \in Int /\ \A k \in 1..(a - 1) : text[k] \in Lines
      BY <1>0, <1>1
    <2>2. Len(u) = (IF 1 <= a - 1 THEN (a - 1) - 1 + 1 ELSE 0) /\ u \in Seq(Lines)
          /\ \A k \in 1..((a - 1) - 1 + 1) : u[k] = text[1 + k - 1]
      BY <2>1, SubSeqProperties
    <2>3. (a - 1) - 1 + 1 = a - 1 /\ 1 <= a - 1 /\ \A k \in 1..(a - 1) : 1 + k - 1 = k
      BY <1>1
    <2> HIDE DEF u
    <2>4. QED
      BY <2>2, <2>3
  <1>5. v \in Seq(Lines) /\ Len(v) = L - b + 1 /\ \A k \in 1..(L - b + 1) : v[k] = text[b + k - 1]
    <2>1. b \in Int /\ L \in Int /\ \A k \in b..L : text[k] \in Lines
      BY <1>0, <1>1
    <2>2. Len(v) = (IF b <= L THEN L - b + 1 ELSE 0) /\ v \in Seq(Lines)
          /\ \A k \in 1..(L - b + 1) : v[k] = text[b + k - 1]
      BY <2>1, SubSeqProperties
    <2>3. b <= L
      BY <1>1
    <2>4. QED
      BY <2>2, <2>3
  <1> HIDE DEF u, v
  <1>6. u \o s \in Seq(Lines) /\ Len(u \o s) = c - 1
        /\ \A k \in 1..(c - 1) : (u \o s)[k] = IF k <= a - 1 THEN u[k] ELSE s[k - (a - 1)]
    <2>1. u \o s \in Seq(Lines) /\ Len(u \o s) = Len(u) + Len(s)
          /\ \A k \in 1..(Len(u) + Len(s)) :
               (u \o s)[k] = IF k <= Len(u) THEN u[k] ELSE s[k - Len(u)]
      BY <1>2, <1>4, ConcatProperties
    <2>2. Len(u) = a - 1 /\ (a - 1) + Len(s) = c - 1
      BY <1>1, <1>2, <1>4
    <2>3. QED
      BY <2>1, <2>2
  <1> DEFINE w == u \o s
  <1> HIDE DEF w
  <1>7. w \in Seq(Lines) /\ Len(w) = c - 1
        /\ \A k \in 1..(c - 1) : w[k] = IF k <= a - 1 THEN text[k] ELSE s[k - (a - 1)]
    <2>1. \A k \in 1..(c - 1) : k <= a - 1 => k \in 1..(a - 1)
      OBVIOUS
    <2>2. QED
      BY <1>4, <1>6, <2>1 DEF w
  <1>8. t \in Seq(Lines) /\ Len(t) = L - b + c
        /\ \A k \in 1..(L - b + c) : t[k] = IF k <= c - 1 THEN w[k] ELSE v[k - (c - 1)]
    <2>1. t = w \o v
      BY <1>3 DEF w
    <2>2. w \o v \in Seq(Lines) /\ Len(w \o v) = Len(w) + Len(v)
          /\ \A k \in 1..(Len(w) + Len(v)) :
               (w \o v)[k] = IF k <= Len(w) THEN w[k] ELSE v[k - Len(w)]
      <3>1. w \in Seq(Lines) /\ v \in Seq(Lines)
        BY <1>5, <1>7
      <3>2. QED
        BY <3>1, ConcatProperties
    <2>3. Len(w) = c - 1 /\ Len(w) + Len(v) = L - b + c
      BY <1>0, <1>1, <1>2, <1>5, <1>7
    <2>4. QED
      BY <2>1, <2>2, <2>3
  <1>9. c \in Nat /\ a + 2 <= c /\ c = a + Len(s) /\ c <= Len(t) /\ Len(t) \in Nat
          /\ Len(t) = L - b + c
    <2>1. c \in Nat /\ a + 2 <= c /\ c = a + Len(s)
      BY <1>1, <1>2
    <2> HIDE DEF c
    <2>2. Len(t) = L - b + c
      BY <1>8
    <2>3. L - b + c \in Nat /\ c <= L - b + c
      BY <2>1, <1>0, <1>1
    <2>4. QED
      BY <2>1, <2>2, <2>3
  <1> HIDE DEF c
  <1>10. \A k \in 1..(a - 1) : t[k] = text[k]
    <2>1. \A k \in 1..(a - 1) : k \in 1..(L - b + c) /\ k \in 1..(c - 1) /\ k <= c - 1 /\ k <= a - 1
      BY <1>0, <1>1, <1>9, SMTT(40)
    <2>2. QED
      BY <2>1, <1>7, <1>8
  <1>11. \A k \in 1..Len(s) : t[a + k - 1] = s[k]
    <2>1. SUFFICES ASSUME NEW k \in 1..Len(s) PROVE t[a + k - 1] = s[k]
      OBVIOUS
    <2>2. a + k - 1 \in 1..(L - b + c) /\ a + k - 1 \in 1..(c - 1) /\ a + k - 1 <= c - 1
          /\ ~(a + k - 1 <= a - 1) /\ (a + k - 1) - (a - 1) = k
      BY <1>0, <1>1, <1>2, <1>9
    <2>3. t[a + k - 1] = w[a + k - 1] /\ w[a + k - 1] = s[(a + k - 1) - (a - 1)]
      BY <2>2, <1>7, <1>8
    <2>4. QED
      BY <2>2, <2>3
  <1>12. \A k \in b..L : t[k - b + c] = text[k]
    <2>1. SUFFICES ASSUME NEW k \in b..L PROVE t[k - b + c] = text[k]
      OBVIOUS
    <2>2. k - b + c \in 1..(L - b + c) /\ ~(k - b + c <= c - 1)
          /\ (k - b + c) - (c - 1) = k - b + 1 /\ k - b + 1 \in 1..(L - b + 1)
          /\ b + (k - b + 1) - 1 = k
      BY <1>0, <1>1, <1>2, <1>9, SMTT(40)
    <2>3. t[k - b + c] = v[(k - b + c) - (c - 1)] /\ v[k - b + 1] = text[b + (k - b + 1) - 1]
      BY <2>2, <1>5, <1>8
    <2>4. QED
      BY <2>2, <2>3
  <1>13. \A i \in 1..(n + 1) : i > m => start[i] \in Nat /\ b <= start[i] /\ start[i] <= L
    <2>1. SUFFICES ASSUME NEW i \in 1..(n + 1), i > m
                   PROVE  start[i] \in Nat /\ b <= start[i] /\ start[i] <= L
      OBVIOUS
    <2>2. m + 1 \in 1..(n + 1) /\ n + 1 \in 1..(n + 1) /\ m + 1 <= i /\ i <= n + 1
      BY <2>1
    <2>3. QED
      BY <2>2, <1>0, <1>a
  <1>14. \A i \in 1..(n + 1) : i <= m => start[i] \in Nat /\ start[i] <= a
    <2>1. SUFFICES ASSUME NEW i \in 1..(n + 1), i <= m
                   PROVE  start[i] \in Nat /\ start[i] <= a
      OBVIOUS
    <2>2. m \in 1..(n + 1)
      OBVIOUS
    <2>3. QED
      BY <2>1, <2>2, <1>0, <1>a
  <1>15. new \in [1..(n + 1) -> Nat] /\ new[1] = 2 /\ new[n + 1] = Len(t)
         /\ new[m] = a /\ new[m + 1] = c
    <2>1. \A i \in 1..(n + 1) : new[i] \in Nat
      <3>1. SUFFICES ASSUME NEW i \in 1..(n + 1) PROVE new[i] \in Nat
        OBVIOUS
      <3>2. CASE i <= m
        BY <3>2, <1>14, <1>n
      <3>3. CASE ~(i <= m)
        <4>1. start[i] \in Nat /\ b <= start[i]
          BY <3>3, <1>13
        <4>2. start[i] - b + c \in Nat
          BY <4>1, <1>1, <1>9, SMTT(40)
        <4>3. QED
          BY <4>2, <3>3, <1>n
      <3>4. QED
        BY <3>2, <3>3
    <2>2. new \in [1..(n + 1) -> Nat]
      BY <2>1, <1>n
    <2>3. 1 \in 1..(n + 1) /\ n + 1 \in 1..(n + 1) /\ m \in 1..(n + 1) /\ m + 1 \in 1..(n + 1)
          /\ 1 <= m /\ m <= m /\ ~(m + 1 <= m) /\ ~(n + 1 <= m)
      OBVIOUS
    <2>4. new[1] = 2 /\ new[m] = a /\ new[n + 1] = L - b + c /\ new[m + 1] = b - b + c
      BY <2>3, <1>n, <1>0, <1>a
    <2>5. b - b + c = c
      BY <1>1, <1>9
    <2>6. QED
      BY <2>2, <2>4, <2>5, <1>9
  <1>16. \A i, j \in 1..(n + 1) : i <= j => new[i] <= new[j]
    <2>1. SUFFICES ASSUME NEW i \in 1..(n + 1), NEW j \in 1..(n + 1), i <= j
                   PROVE  new[i] <= new[j]
      OBVIOUS
    <2>2. start[i] \in Nat /\ start[j] \in Nat /\ start[i] <= start[j]
      BY <2>1, <1>0
    <2>3. CASE j <= m
      BY <2>1, <2>2, <2>3, <1>n
    <2>4. CASE ~(i <= m)
      <3>1. new[i] = start[i] - b + c /\ new[j] = start[j] - b + c
        BY <2>1, <2>4, <1>n
      <3>2. PICK x \in Nat, y \in Nat : x = start[i] /\ y = start[j]
        BY <2>2
      <3>3. x - b + c <= y - b + c
        <4>1. x <= y /\ b \in Nat /\ c \in Nat
          BY <2>2, <3>2, <1>1, <1>9
        <4>2. QED
          BY <4>1
      <3>4. QED
        BY <3>1, <3>2, <3>3
    <2>5. CASE i <= m /\ ~(j <= m)
      <3>1. new[i] = start[i] /\ new[j] = start[j] - b + c
        BY <2>5, <1>n
      <3>2. start[i] <= a /\ b <= start[j]
        BY <2>5, <1>13, <1>14
      <3>3. PICK x \in Nat, y \in Nat : x = start[i] /\ y = start[j]
        BY <2>2
      <3>4. x <= a /\ b <= y /\ a <= c
        BY <3>2, <3>3, <1>1, <1>9
      <3>5. x <= y - b + c
        BY <3>4, <1>1, <1>9
      <3>6. QED
        BY <3>1, <3>3, <3>5
    <2>6. QED
      BY <2>3, <2>4, <2>5
  <1>17. Part(t, new, m) = s
    <2>1. a \in Int /\ c - 1 \in Int /\ \A k \in a..(c - 1) : t[k] \in Lines
      BY <1>1, <1>8, <1>9
    <2>2. /\ SubSeq(t, a, c - 1) \in Seq(Lines)
          /\ Len(SubSeq(t, a, c - 1)) = IF a <= c - 1 THEN (c - 1) - a + 1 ELSE 0
          /\ \A k \in 1..((c - 1) - a + 1) : SubSeq(t, a, c - 1)[k] = t[a + k - 1]
      BY <2>1, SubSeqProperties
    <2>3. (c - 1) - a + 1 = Len(s) /\ a <= c - 1
      BY <1>1, <1>2, <1>9
    <2>4. SubSeq(t, a, c - 1) = s
      <3> DEFINE x == SubSeq(t, a, c - 1)
      <3>1. x \in Seq(Lines) /\ Len(x) = Len(s) /\ \A k \in 1..Len(s) : x[k] = s[k]
        BY <2>2, <2>3, <1>11
      <3> HIDE DEF x
      <3>2. x = s
        BY <3>1, <1>2, SeqEqual
      <3>3. QED
        BY <3>2 DEF x
    <2>5. QED
      BY <2>4, <1>15 DEF Part
  <1>18. ASSUME NEW i \in 1..n, i # m PROVE Part(t, new, i) = Part(text, start, i)
    <2> DEFINE p == start[i]
               q == start[i + 1]
    <2>1. p \in Nat /\ q \in Nat /\ p >= 2 /\ p + 2 <= q /\ q <= L
      BY CutsLines
    <2>2. i \in 1..(n + 1) /\ i + 1 \in 1..(n + 1)
      OBVIOUS
    <2>3. CASE i < m
      <3>1. i <= m /\ i + 1 <= m
        BY <2>3
      <3>2. new[i] = p /\ new[i + 1] = q /\ q <= a
        BY <2>2, <3>1, <1>14, <1>n
      <3> HIDE DEF p, q
      <3>3. p \in 1..L /\ q - 1 \in Int /\ p <= (q - 1) + 1 /\ q - 1 <= L
            /\ p \in 1..Len(t) /\ q - 1 <= Len(t) /\ (q - 1) - p = (q - 1) - p
        <4>1. q <= Len(t) /\ Len(t) \in Nat
          BY <2>1, <3>2, <1>1, <1>9, SMTT(40)
        <4>2. QED
          BY <2>1, <4>1, <1>0, SMTT(40)
      <3>4. \A k \in p..(q - 1) : t[k - p + p] = text[k]
        <4>1. \A k \in p..(q - 1) : k \in 1..(a - 1) /\ k - p + p = k
          BY <2>1, <3>2, <1>1
        <4>2. QED
          BY <4>1, <1>10
      <3>5. SubSeq(t, p, q - 1) = SubSeq(text, p, q - 1)
        <4>1. text \in Seq(Lines) /\ t \in Seq(Lines)
          BY <1>0, <1>8
        <4> DEFINE y == q - 1
        <4>2. y \in Int /\ p <= y + 1 /\ y <= Len(text) /\ y <= Len(t) /\ y - p = y - p
              /\ p \in 1..Len(text) /\ p \in 1..Len(t) /\ \A k \in p..y : t[k - p + p] = text[k]
          BY <3>3, <3>4
        <4> HIDE DEF y
        <4>3. SubSeq(t, p, y) = SubSeq(text, p, y)
          BY <4>1, <4>2, SamePart
        <4>4. QED
          BY <4>3 DEF y
      <3>6. QED
        BY <3>2, <3>5 DEF Part, p, q
    <2>4. CASE m < i
      <3>1. i > m /\ i + 1 > m /\ ~(i <= m) /\ ~(i + 1 <= m)
        BY <2>4
      <3>2. new[i] = p - b + c /\ new[i + 1] = q - b + c /\ b <= p
        BY <2>2, <3>1, <1>13, <1>n
      <3> HIDE DEF p, q
      <3>3. p \in 1..L /\ q - 1 \in Int /\ p <= (q - 1) + 1 /\ q - 1 <= L
            /\ p - b + c \in 1..Len(t) /\ (q - b + c) - 1 \in Int /\ (q - b + c) - 1 <= Len(t)
            /\ ((q - b + c) - 1) - (p - b + c) = (q - 1) - p
        <4>1. p \in 1..L /\ q - 1 \in Int /\ p <= (q - 1) + 1 /\ q - 1 <= L
          BY <2>1, <1>0
        <4>2. p - b + c \in Nat /\ p - b + c >= 1 /\ p - b + c <= Len(t)
          <5>0. L \in Nat /\ p <= L /\ b <= p /\ c >= 4
            <6>1. L \in Nat /\ b <= p
              BY <3>2, <1>0
            <6>2. p <= L
              BY <6>1, <2>1
            <6>3. c >= 4
              BY <1>1, <1>9
            <6>4. QED
              BY <6>1, <6>2, <6>3
          <5>1. p - b + c <= L - b + c /\ p - b + c \in Nat /\ p - b + c >= 1
            BY <5>0, <2>1, <1>1, <1>9
          <5>2. QED
            BY <5>1, <1>9
        <4>3. (q - b + c) - 1 \in Int /\ (q - b + c) - 1 <= Len(t)
          <5>0. L \in Nat /\ q <= L /\ q \in Nat /\ b \in Nat /\ c \in Nat
            BY <2>1, <1>0, <1>1, <1>9
          <5>1. (q - b + c) - 1 <= L - b + c /\ (q - b + c) - 1 \in Int
            BY <5>0
          <5>2. QED
            BY <5>1, <1>9
        <4>4. ((q - b + c) - 1) - (p - b + c) = (q - 1) - p
          BY <2>1, <1>1, <1>9
        <4>5. QED
          BY <4>1, <4>2, <4>3, <4>4, <1>9
      <3>4. \A k \in p..(q - 1) : t[k - p + (p - b + c)] = text[k]
        <4>1. \A k \in p..(q - 1) : k \in b..L /\ k - p + (p - b + c) = k - b + c
          BY <2>1, <3>2, <1>0, <1>1, <1>9, SMTT(40)
        <4>2. QED
          BY <4>1, <1>12
      <3> DEFINE x == p - b + c
                 y == (q - b + c) - 1
      <3>5. SubSeq(t, x, y) = SubSeq(text, p, q - 1)
        <4>1. x \in 1..Len(t) /\ y \in Int /\ y <= Len(t) /\ y - x = (q - 1) - p
              /\ \A k \in p..(q - 1) : t[k - p + x] = text[k]
          BY <3>3, <3>4
        <4> HIDE DEF x, y
        <4>2. text \in Seq(Lines) /\ t \in Seq(Lines) /\ p \in 1..Len(text) /\ q - 1 \in Int
              /\ p <= (q - 1) + 1 /\ q - 1 <= Len(text)
          BY <3>3, <1>0, <1>8
        <4>3. QED
          BY <4>1, <4>2, SamePart
      <3>6. QED
        BY <3>2, <3>5 DEF Part, p, q
    <2>5. QED
      BY <1>18, <2>3, <2>4
  <1>19. \A i \in 1..n : Shape(Part(t, new, i), i)
    <2>1. SUFFICES ASSUME NEW i \in 1..n PROVE Shape(Part(t, new, i), i)
      OBVIOUS
    <2>2. CASE i = m
      BY <2>2, <1>17
    <2>3. CASE i # m
      <3>1. Shape(Part(text, start, i), i)
        BY DEF Cuts
      <3>2. QED
        BY <2>3, <3>1, <1>18
    <2>4. QED
      BY <2>2, <2>3
  <1>20. \A k \in 2..(Len(t) - 1) : \E i \in 1..n : new[i] <= k /\ k < new[i + 1]
    <2>1. SUFFICES ASSUME NEW k \in 2..(Len(t) - 1)
                   PROVE  \E i \in 1..n : new[i] <= k /\ k < new[i + 1]
      OBVIOUS
    <2>2. CASE k < a
      <3>1. k \in 2..(L - 1)
        BY <2>1, <2>2, <1>0, <1>1
      <3>2. PICK i \in 1..n : start[i] <= k /\ k < start[i + 1]
        BY <3>1, <1>0
      <3>3. i \in 1..(n + 1) /\ i + 1 \in 1..(n + 1)
        OBVIOUS
      <3>4. i <= m /\ i # m
        <4>1. CASE i = m
          BY <4>1, <2>2, <3>2, <1>a, <1>1
        <4>2. CASE i > m
          <5>1. b <= start[i] /\ start[i] \in Nat
            BY <4>2, <3>3, <1>13
          <5>2. QED
            BY <5>1, <2>2, <3>2, <1>1
        <4>3. QED
          BY <4>1, <4>2
      <3>5. i + 1 <= m
        BY <3>4
      <3>6. new[i] = start[i] /\ new[i + 1] = start[i + 1]
        BY <3>3, <3>4, <3>5, <1>n
      <3>7. QED
        BY <3>2, <3>6
    <2>3. CASE a <= k /\ k < c
      BY <2>3, <1>15
    <2>4. CASE c <= k
      <3> DEFINE l == k - c + b
      <3>1. l \in 2..(L - 1) /\ b <= l /\ l - b + c = k
        BY <2>1, <2>4, <1>0, <1>1, <1>9, SMTT(40)
      <3> HIDE DEF l
      <3>2. PICK i \in 1..n : start[i] <= l /\ l < start[i + 1]
        BY <3>1, <1>0
      <3>3. i \in 1..(n + 1) /\ i + 1 \in 1..(n + 1) /\ m + 1 \in 1..(n + 1)
        OBVIOUS
      <3>4. i > m
        <4>1. SUFFICES ASSUME i <= m PROVE FALSE
          OBVIOUS
        <4>2. i + 1 <= m + 1
          BY <4>1
        <4>3. start[i + 1] <= b /\ start[i + 1] \in Nat
          BY <4>2, <3>3, <1>0, <1>a
        <4>4. QED
          BY <4>3, <3>1, <3>2, <1>0, <1>1, SMTT(40)
      <3>5. new[i] = start[i] - b + c /\ new[i + 1] = start[i + 1] - b + c
            /\ start[i] \in Nat /\ start[i + 1] \in Nat
        BY <3>3, <3>4, <1>0, <1>n
      <3>6. new[i] <= k /\ k < new[i + 1]
        <4>1. PICK x \in Nat, y \in Nat : x = start[i] /\ y = start[i + 1]
          BY <3>5
        <4>2. x <= l /\ l < y /\ l \in Nat
          BY <3>1, <3>2, <4>1, <1>0
        <4>3. x - b + c <= l - b + c /\ l - b + c < y - b + c
          BY <4>2, <1>1, <1>9
        <4>4. QED
          BY <4>1, <4>3, <3>1, <3>5
      <3>7. QED
        BY <3>6
    <2>5. QED
      BY <2>2, <2>3, <2>4, <1>1, <1>9
  <1>21. t[1] = SessionLine /\ t[Len(t)] = EndLine
    <2>1. 1 \in 1..(a - 1) /\ L \in b..L /\ L - b + c = Len(t)
      BY <1>0, <1>1, <1>9
    <2>2. QED
      BY <2>1, <1>0, <1>10, <1>12
  <1>22. Cuts(t, n, new)
    BY <1>8, <1>15, <1>16, <1>19, <1>20, <1>21 DEF Cuts
  <1>23. QED
    BY <1>17, <1>18, <1>22 DEF t

\* Sections one after the other between the ends are a text in cuts.
LEMMA Concatenated ==
  ASSUME NEW secs \in Seq(Seq(Lines)), \A m \in 1..Len(secs) : Shape(secs[m], m)
  PROVE  \E start :
           /\ Cuts(<< SessionLine >> \o FlattenSeq(secs) \o << EndLine >>, Len(secs), start)
           /\ \A m \in 1..Len(secs) :
                Part(<< SessionLine >> \o FlattenSeq(secs) \o << EndLine >>, start, m) = secs[m]
  <1> DEFINE n == Len(secs)
             f == FlattenSeq(secs)
             text == << SessionLine >> \o FlattenSeq(secs) \o << EndLine >>
  <1>0. n \in Nat /\ \A m \in 1..n :
          secs[m] \in Seq(Lines) /\ Len(secs[m]) \in Nat /\ Len(secs[m]) >= 2
    BY DEF Shape
  <1>1. f \in Seq(Lines) /\ \E off : Blocks(f, secs, n, off)
    BY FlattenIs
  <1>2. text = (<< SessionLine >> \o f) \o << EndLine >>
    OBVIOUS
  <1>n. \A m \in 1..n : Shape(secs[m], m)
    OBVIOUS
  <1> HIDE DEF f, n, text
  <1>3. PICK off : Blocks(f, secs, n, off)
    BY <1>1
  <1>4. /\ off \in [1..(n + 1) -> Nat] /\ off[1] = 0 /\ off[n + 1] = Len(f)
        /\ \A i \in 1..n : off[i + 1] = off[i] + Len(secs[i])
    BY <1>3 DEF Blocks
  <1>5. \A i, j \in 1..(n + 1) : i <= j => off[i] <= off[j]
    BY <1>3 DEF Blocks
  <1>6. \A i \in 1..n : \A k \in 1..Len(secs[i]) : f[off[i] + k] = secs[i][k]
    BY <1>3 DEF Blocks
  <1>7. \A j \in 1..Len(f) : \E i \in 1..n : \E k \in 1..Len(secs[i]) : j = off[i] + k
    BY <1>3 DEF Blocks
  <1>8. SessionLine \in Lines /\ EndLine \in Lines
    BY DEF Lines
  <1>9. << SessionLine >> \o f \in Seq(Lines) /\ Len(<< SessionLine >> \o f) = Len(f) + 1
        /\ (<< SessionLine >> \o f)[1] = SessionLine
        /\ \A k \in 1..Len(f) : (<< SessionLine >> \o f)[k + 1] = f[k]
    <2>1. << SessionLine >> \in Seq(Lines) /\ Len(<< SessionLine >>) = 1
          /\ << SessionLine >>[1] = SessionLine
      BY <1>8
    <2>2. /\ << SessionLine >> \o f \in Seq(Lines) /\ Len(<< SessionLine >> \o f) = 1 + Len(f)
          /\ \A k \in 1..(1 + Len(f)) : (<< SessionLine >> \o f)[k] =
               IF k <= 1 THEN << SessionLine >>[k] ELSE f[k - 1]
      BY <1>1, <2>1, ConcatProperties
    <2>3. Len(f) \in Nat /\ \A k \in 1..Len(f) :
            k + 1 \in 1..(1 + Len(f)) /\ ~(k + 1 <= 1) /\ (k + 1) - 1 = k
      BY <1>1
    <2>4. 1 \in 1..(1 + Len(f)) /\ 1 <= 1
      BY <2>3
    <2>5. QED
      BY <2>1, <2>2, <2>3, <2>4
  <1> DEFINE w == << SessionLine >> \o f
  <1>10. w \in Seq(Lines) /\ Len(w) = Len(f) + 1 /\ w[1] = SessionLine
         /\ (\A k \in 1..Len(f) : w[k + 1] = f[k]) /\ text = w \o << EndLine >>
    BY <1>2, <1>9
  <1> HIDE DEF w
  <1>11. text \in Seq(Lines) /\ Len(text) = Len(f) + 2 /\ text[1] = SessionLine
         /\ text[Len(f) + 2] = EndLine /\ \A k \in 1..Len(f) : text[k + 1] = f[k]
    <2>1. << EndLine >> \in Seq(Lines) /\ Len(<< EndLine >>) = 1 /\ << EndLine >>[1] = EndLine
      BY <1>8
    <2>2. /\ text \in Seq(Lines) /\ Len(text) = Len(w) + 1
          /\ \A k \in 1..(Len(w) + 1) : text[k] =
               IF k <= Len(w) THEN w[k] ELSE << EndLine >>[k - Len(w)]
      <3> DEFINE e == << EndLine >>
      <3>1. w \in Seq(Lines) /\ e \in Seq(Lines) /\ text = w \o e /\ Len(e) = 1
        BY <1>10, <2>1
      <3> HIDE DEF e
      <3>2. /\ w \o e \in Seq(Lines) /\ Len(w \o e) = Len(w) + Len(e)
            /\ \A k \in 1..(Len(w) + Len(e)) : (w \o e)[k] =
                 IF k <= Len(w) THEN w[k] ELSE e[k - Len(w)]
        BY <3>1, ConcatProperties
      <3>3. QED
        BY <3>1, <3>2 DEF e
    <2>3. Len(f) \in Nat /\ Len(w) = Len(f) + 1
          /\ (\A k \in 1..Len(f) : k + 1 \in 1..(Len(w) + 1) /\ k + 1 <= Len(w))
          /\ 1 \in 1..(Len(w) + 1) /\ 1 <= Len(w) /\ Len(w) + 1 = Len(f) + 2
          /\ Len(f) + 2 \in 1..(Len(w) + 1) /\ ~(Len(f) + 2 <= Len(w)) /\ (Len(f) + 2) - Len(w) = 1
      BY <1>1, <1>10
    <2>4. QED
      BY <1>10, <2>1, <2>2, <2>3
  <1>12. Len(f) \in Nat
    BY <1>1
  <1> DEFINE start == [i \in 1..(n + 1) |-> off[i] + 2]
  <1>13. /\ start \in [1..(n + 1) -> Nat] /\ start[1] = 2 /\ start[n + 1] = Len(text)
         /\ \A i \in 1..(n + 1) : start[i] = off[i] + 2 /\ off[i] \in Nat
    <2>1. 1 \in 1..(n + 1) /\ n + 1 \in 1..(n + 1)
      BY <1>0
    <2>2. \A i \in 1..(n + 1) : off[i] \in Nat /\ off[i] + 2 \in Nat
      <3>1. \A i \in 1..(n + 1) : off[i] \in Nat
        BY <1>4
      <3>2. SUFFICES ASSUME NEW i \in 1..(n + 1) PROVE off[i] \in Nat /\ off[i] + 2 \in Nat
        OBVIOUS
      <3>3. off[i] \in Nat
        BY <3>1
      <3>4. QED
        BY <3>3
    <2>3. QED
      BY <2>1, <2>2, <1>4, <1>11
  <1> HIDE DEF start
  <1>14. \A i, j \in 1..(n + 1) : i <= j => start[i] <= start[j]
    BY <1>5, <1>13
  <1>15. \A i \in 1..n : i \in 1..(n + 1) /\ i + 1 \in 1..(n + 1)
    BY <1>0
  <1>16. \A i \in 1..n : start[i + 1] = start[i] + Len(secs[i]) /\ start[i] \in Nat
    <2>1. SUFFICES ASSUME NEW i \in 1..n
                   PROVE  start[i + 1] = start[i] + Len(secs[i]) /\ start[i] \in Nat
      OBVIOUS
    <2>2. PICK p \in Nat, l \in Nat : p = off[i] /\ l = Len(secs[i])
      BY <1>0, <1>13, <1>15
    <2>3. start[i] = p + 2 /\ off[i + 1] = p + l
      BY <2>2, <1>4, <1>13, <1>15
    <2>4. start[i + 1] = (p + l) + 2
      BY <2>3, <1>13, <1>15
    <2>5. (p + l) + 2 = (p + 2) + l /\ p + 2 \in Nat
      OBVIOUS
    <2>6. QED
      BY <2>2, <2>3, <2>4, <2>5
  <1>17. ASSUME NEW m \in 1..n PROVE Part(text, start, m) = secs[m]
    <2> DEFINE a == start[m]
               s == secs[m]
    <2>1. a \in Nat /\ a = off[m] + 2 /\ start[m + 1] = a + Len(s) /\ a + Len(s) <= Len(text)
          /\ s \in Seq(Lines) /\ Len(s) \in Nat /\ Len(s) >= 2 /\ off[m] \in Nat
      <3>1. m + 1 \in 1..(n + 1) /\ n + 1 \in 1..(n + 1) /\ m + 1 <= n + 1
        BY <1>0
      <3>2. start[m + 1] <= start[n + 1]
        BY <3>1, <1>14
      <3>3. QED
        BY <3>2, <1>0, <1>13, <1>15, <1>16
    <2>2. \A k \in 1..Len(s) : f[off[m] + k] = s[k]
      BY <1>6
    <2>c. PICK l \in Nat, p \in Nat, o \in Nat : l = Len(s) /\ p = off[m] /\ o = Len(f)
      BY <2>1, <1>12
    <2>d. a = p + 2 /\ l >= 2 /\ a + l <= o + 2
      BY <2>1, <2>c, <1>11
    <2>s. Part(text, start, m) = SubSeq(text, a, (a + Len(s)) - 1)
      <3>1. start[m + 1] - 1 = (a + Len(s)) - 1
        BY <2>1
      <3>2. QED
        BY <3>1 DEF Part
    <2> HIDE DEF a, s
    <2>3. \A k \in 1..Len(s) : text[a + k - 1] = s[k]
      <3>1. SUFFICES ASSUME NEW k \in 1..Len(s) PROVE text[a + k - 1] = s[k]
        OBVIOUS
      <3>2. off[m] + k \in 1..Len(f) /\ a + k - 1 = (off[m] + k) + 1
        <4>1. k \in 1..l
          BY <2>c
        <4> HIDE DEF a
        <4>2. p + k \in 1..o /\ a + k - 1 = (p + k) + 1
          BY <4>1, <2>d
        <4>3. QED
          BY <4>2, <2>c
      <3>3. QED
        BY <3>2, <2>2, <1>11
    <2> DEFINE b == (a + Len(s)) - 1
               x == SubSeq(text, a, b)
    <2>4. b - a + 1 = Len(s) /\ a <= b /\ a \in Int /\ b \in Int
          /\ \A k \in a..b : text[k] \in Lines
      <3>1. a \in Nat /\ b \in Int /\ a <= b /\ b - a + 1 = Len(s) /\ a >= 1
        <4>1. b = (a + l) - 1
          BY <2>c
        <4> HIDE DEF b, a
        <4>2. a \in Nat /\ b \in Int /\ a <= b /\ b - a + 1 = l /\ a >= 1
          BY <4>1, <2>d
        <4>3. QED
          BY <4>2, <2>c
      <3>2. b <= Len(text) /\ Len(text) \in Nat
        <4>1. b = (a + l) - 1 /\ Len(text) = o + 2
          BY <2>c, <1>11
        <4> HIDE DEF b, a
        <4>2. b <= o + 2 /\ o + 2 \in Nat
          BY <4>1, <2>d
        <4>3. QED
          BY <4>1, <4>2
      <3> HIDE DEF b
      <3>3. \A k \in a..b : k \in 1..Len(text)
        BY <3>1, <3>2
      <3>4. \A k \in 1..Len(text) : text[k] \in Lines
        BY <1>11
      <3>5. QED
        BY <3>1, <3>3, <3>4
    <2> HIDE DEF b
    <2>5. x \in Seq(Lines) /\ Len(x) = Len(s) /\ \A k \in 1..Len(s) : x[k] = text[a + k - 1]
      <3>1. a \in Int /\ b \in Int /\ \A k \in a..b : text[k] \in Lines
        BY <2>4
      <3>2. /\ SubSeq(text, a, b) \in Seq(Lines)
            /\ Len(SubSeq(text, a, b)) = IF a <= b THEN b - a + 1 ELSE 0
            /\ \A k \in 1..(b - a + 1) : SubSeq(text, a, b)[k] = text[a + k - 1]
        BY <3>1, SubSeqProperties
      <3>3. x = SubSeq(text, a, b)
        OBVIOUS
      <3> HIDE DEF x
      <3>4. QED
        BY <3>2, <3>3, <2>4
    <2> HIDE DEF x
    <2>6. \A k \in 1..Len(s) : x[k] = s[k]
      BY <2>3, <2>5
    <2>7. x = s
      BY <2>1, <2>5, <2>6, SeqEqual
    <2>8. QED
      BY <2>7, <2>s DEF b, x, s
  <1>18. \A k \in 2..(Len(text) - 1) : \E m \in 1..n : start[m] <= k /\ k < start[m + 1]
    <2>1. SUFFICES ASSUME NEW k \in 2..(Len(text) - 1)
                   PROVE  \E m \in 1..n : start[m] <= k /\ k < start[m + 1]
      OBVIOUS
    <2>2. k - 1 \in 1..Len(f)
      BY <1>11, <1>12
    <2>3. PICK i \in 1..n : \E l \in 1..Len(secs[i]) : k - 1 = off[i] + l
      BY <2>2, <1>7
    <2>4. PICK l \in 1..Len(secs[i]) : k - 1 = off[i] + l
      BY <2>3
    <2>5. PICK p \in Nat, q \in Nat : p = off[i] /\ q = Len(secs[i])
      BY <1>0, <1>13, <1>15
    <2>6. start[i] = p + 2 /\ start[i + 1] = p + 2 + q /\ k - 1 = p + l /\ l \in 1..q
      BY <2>4, <2>5, <1>13, <1>15, <1>16
    <2>7. k = p + l + 1 /\ l >= 1 /\ l <= q
      BY <2>6, <1>11, <1>12
    <2>8. p + 2 <= k /\ k < p + 2 + q
      <3>1. p \in Nat /\ q \in Nat /\ l \in Nat
        BY <2>5, <2>6
      <3>2. QED
        BY <3>1, <2>7
    <2>9. QED
      BY <2>6, <2>8
  <1>19. Cuts(text, n, start)
    BY <1>11, <1>13, <1>14, <1>17, <1>18, <1>n DEF Cuts
  <1>20. QED
    BY <1>17, <1>19 DEF n, text

-----------------------------------------------------------------------------
(* Whole sections                                                          *)

\* The payloads of a type by their places, and a line that speaks of one.
Rows(type) == 1..Len(Media[type])
Speaks(l, c) == l = Rtpmap(c) \/ l = Feedback(c) \/ (c.fmtp /\ \E rate \in Nat : l = Fmtp(c, rate))
Kept(type, pts) == {i \in Rows(type) : Media[type][i].pt \in ToSet(pts)}

\* A section that lists pts and is whole.
Whole(s, type, m, pts) ==
  /\ s \in Seq(Lines) /\ Len(s) >= 2 /\ pts \in Seq(Nat)
  /\ s[1] = MLine(type, pts) /\ s[2] = MidLine(m)
  /\ \A k \in 3..Len(s) : \E i \in Kept(type, pts) : Speaks(s[k], Media[type][i])
  /\ \A i \in Kept(type, pts) :
       /\ \E k \in 3..Len(s) : s[k] = Rtpmap(Media[type][i])
       /\ Media[type][i].fmtp =>
            \E k \in 3..Len(s) : \E rate \in Nat : s[k] = Fmtp(Media[type][i], rate)
  /\ \A x \in ToSet(pts) : \E i \in Rows(type) : Media[type][i].pt = x
  /\ \A j, k \in 3..Len(s) : \A p, q \in Rows(type) :
       j < k /\ s[j] = Rtpmap(Media[type][p]) /\ s[k] = Rtpmap(Media[type][q]) => p < q
  /\ \A j, k \in 3..Len(s) :
       s[j].key = "fmtp" /\ s[k].key = "fmtp" /\ s[j].pt = s[k].pt => j = k
  /\ \A i \in Rows(type) : Media[type][i].apt # None =>
       (Media[type][i].pt \in ToSet(pts) <=> Media[type][i].apt \in ToSet(pts))

\* What is in a list.
LEMMA InList ==
  ASSUME NEW S, NEW s \in Seq(S)
  PROVE  \A x : x \in ToSet(s) <=> \E i \in 1..Len(s) : s[i] = x
  BY DEF ToSet

\* What the code looks for in the lines of a payload.
LEMMA LinesOfPayloads ==
  /\ \A c : /\ Rtpmap(c).key = "rtpmap" /\ Rtpmap(c).pt = c.pt /\ Rtpmap(c).codec = c.codec
            /\ Feedback(c).key = "rtcp-fb" /\ Feedback(c).pt = c.pt
  /\ \A c, rate : /\ Fmtp(c, rate).key = "fmtp" /\ Fmtp(c, rate).pt = c.pt
                  /\ Fmtp(c, rate).apt = c.apt /\ Fmtp(c, rate).rate = rate
  BY DEF Rtpmap, Feedback, Fmtp

\* The payloads of a type, as MediaAssumption has them.
LEMMA PayloadsAre ==
  ASSUME NEW type \in Types
  PROVE  /\ Len(Media[type]) \in Nat /\ DOMAIN Media[type] = Rows(type)
         /\ \A i \in Rows(type) :
              /\ Media[type][i] \in Offered
              /\ Media[type][i].pt \in Nat /\ Media[type][i].codec \in STRING
              /\ Media[type][i].fmtp \in BOOLEAN /\ Media[type][i].apt \in Nat \cup {None}
              /\ Media[type][i].codec # "none"
         /\ \A i, j \in Rows(type) : Media[type][i].pt = Media[type][j].pt => i = j
         /\ \A i, j \in Rows(type) :
              Media[type][i].apt = Media[type][j].apt /\ Media[type][i].apt # None => i = j
         /\ \A i \in Rows(type) : Media[type][i].apt # None =>
              /\ Media[type][i].fmtp /\ Media[type][i].codec \notin ToSet(AllowList[type])
              /\ \E j \in Rows(type) :
                   Media[type][j].pt = Media[type][i].apt /\ Media[type][j].apt = None
  <1> DEFINE P == [pt : Nat, codec : STRING, apt : Nat \cup {None}, fmtp : BOOLEAN]
             M == Media[type]
  <1>1. M \in Seq(P)
    BY MediaAssumption
  <1>2. Len(M) \in Nat /\ DOMAIN M = 1..Len(M) /\ \A i \in 1..Len(M) : M[i] \in P
    <2> HIDE DEF M, P
    <2>1. QED BY <1>1
  <1>3. \A i \in 1..Len(M) : M[i] \in Offered
    BY <1>2 DEF Offered, ToSet
  <1>4. \A i \in 1..Len(M) : M[i].pt \in Nat /\ M[i].codec \in STRING
           /\ M[i].fmtp \in BOOLEAN /\ M[i].apt \in Nat \cup {None}
    <2> HIDE DEF M
    <2>1. QED BY <1>2
  <1>5. /\ \A i, j \in 1..Len(M) : M[i].pt = M[j].pt => i = j
        /\ \A i, j \in 1..Len(M) : M[i].apt = M[j].apt /\ M[i].apt # None => i = j
    <2>1. \A i, j \in DOMAIN M :
            M[i].pt = M[j].pt \/ (M[i].apt = M[j].apt /\ M[i].apt # None) => i = j
      BY MediaAssumption
    <2> HIDE DEF M
    <2>2. QED
      BY <1>2, <2>1
  <1>6. \A i \in 1..Len(M) : M[i].codec # "none"
    BY <1>2, MediaAssumption
  <1>7. \A i \in 1..Len(M) : M[i].apt # None =>
          /\ M[i].fmtp /\ M[i].codec \notin ToSet(AllowList[type])
          /\ \E j \in 1..Len(M) : M[j].pt = M[i].apt /\ M[j].apt = None
    BY <1>2, MediaAssumption
  <1>8. QED
    <2> HIDE DEF P
    <2>1. QED BY <1>2, <1>3, <1>4, <1>5, <1>6, <1>7 DEF Rows

\* A line that speaks of a payload is an attribute with its number.
LEMMA SpeakingLines ==
  ASSUME NEW l, NEW c, Speaks(l, c)
  PROVE  /\ l.key \in Attributes /\ l.pt = c.pt
         /\ l.key = "rtpmap" => l = Rtpmap(c)
         /\ l.key = "fmtp" => c.fmtp /\ l.apt = c.apt /\ \E rate \in Nat : l = Fmtp(c, rate)
  <1>1. CASE l = Rtpmap(c)
    BY <1>1, LinesOfPayloads DEF Attributes
  <1>2. CASE l = Feedback(c)
    BY <1>2, LinesOfPayloads DEF Attributes
  <1>3. CASE c.fmtp /\ \E rate \in Nat : l = Fmtp(c, rate)
    <2>1. PICK rate \in Nat : l = Fmtp(c, rate)
      BY <1>3
    <2>2. QED
      BY <1>3, <2>1, LinesOfPayloads DEF Attributes
  <1>4. QED
    BY <1>1, <1>2, <1>3 DEF Speaks

\* The lines of a whole section, by what they say.
LEMMA WholeLines ==
  ASSUME NEW type \in Types, NEW m, NEW s, NEW pts, Whole(s, type, m, pts), NEW k \in 1..Len(s)
  PROVE  /\ Len(s) \in Nat /\ s[1].pts = pts
         /\ s[k].key \in Attributes => k \in 3..Len(s)
         /\ IsM(s[k]) => k = 1
         /\ s[k].key = "rtpmap" =>
              \E i \in Kept(type, pts) : s[k] = Rtpmap(Media[type][i])
         /\ s[k].key = "fmtp" =>
              \E i \in Kept(type, pts) : \E rate \in Nat :
                Media[type][i].fmtp /\ s[k] = Fmtp(Media[type][i], rate)
  <1>1. /\ Len(s) \in Nat /\ s[1] = MLine(type, pts) /\ s[2] = MidLine(m)
        /\ \A j \in 3..Len(s) : \E i \in Kept(type, pts) : Speaks(s[j], Media[type][i])
    BY DEF Whole
  <1>2. IsM(s[1]) /\ s[1].pts = pts
    BY <1>1 DEF IsM, MLine
  <1>3. CASE k \in 3..Len(s)
    <2>1. PICK i \in Kept(type, pts) : Speaks(s[k], Media[type][i])
      BY <1>1, <1>3
    <2>2. s[k].key \in Attributes
      BY <2>1, SpeakingLines
    <2>3. ~IsM(s[k])
      BY <2>2, KindsOfLines
    <2>4. s[k].key = "rtpmap" => s[k] = Rtpmap(Media[type][i])
      BY <2>1, SpeakingLines
    <2>5. s[k].key = "fmtp" =>
            Media[type][i].fmtp /\ \E rate \in Nat : s[k] = Fmtp(Media[type][i], rate)
      BY <2>1, SpeakingLines
    <2>6. QED
      BY <1>1, <1>2, <1>3, <2>3, <2>4, <2>5
  <1>4. CASE k = 1
    <2>1. s[k].key \notin Attributes /\ s[k].key # "rtpmap" /\ s[k].key # "fmtp"
      BY <1>2, <1>4 DEF IsM, Attributes
    <2>2. QED
      BY <1>1, <1>2, <1>4, <2>1
  <1>5. CASE k = 2
    <2>1. s[k].key = "mid"
      BY <1>1, <1>5 DEF MidLine
    <2>2. s[k].key \notin Attributes /\ s[k].key # "rtpmap" /\ s[k].key # "fmtp" /\ ~IsM(s[k])
      BY <2>1 DEF Attributes, IsM
    <2>3. QED
      BY <1>1, <1>2, <2>2
  <1>6. QED
    BY <1>1, <1>3, <1>4, <1>5

\* A whole section has the shape of one.
LEMMA WholeShape ==
  ASSUME NEW type \in Types, NEW m, NEW s, NEW pts, Whole(s, type, m, pts)
  PROVE  Shape(s, m)
  <1>1. /\ s \in Seq(Lines) /\ Len(s) >= 2 /\ s[1] = MLine(type, pts) /\ s[2] = MidLine(m)
        /\ \A j \in 3..Len(s) : \E i \in Kept(type, pts) : Speaks(s[j], Media[type][i])
    BY DEF Whole
  <1>2. IsM(s[1])
    BY <1>1 DEF IsM, MLine
  <1>3. \A k \in 3..Len(s) : s[k].key \in Attributes
    BY <1>1, SpeakingLines
  <1>4. QED
    BY <1>1, <1>2, <1>3 DEF Shape

\* What the m-line of an offered section lists.
AllPts(type) == [i \in DOMAIN Media[type] |-> Media[type][i].pt]

\* It lists every payload of the type once.
LEMMA AllPtsAre ==
  ASSUME NEW type \in Types
  PROVE  /\ AllPts(type) \in Seq(Nat) /\ Kept(type, AllPts(type)) = Rows(type)
         /\ \A x : x \in ToSet(AllPts(type)) <=> \E i \in Rows(type) : Media[type][i].pt = x
  <1>1. /\ Len(Media[type]) \in Nat /\ DOMAIN Media[type] = 1..Len(Media[type])
        /\ Rows(type) = 1..Len(Media[type])
        /\ \A i \in Rows(type) : Media[type][i].pt \in Nat
    BY PayloadsAre DEF Rows
  <1>2. AllPts(type) \in Seq(Nat) /\ Len(AllPts(type)) = Len(Media[type])
        /\ \A i \in Rows(type) : AllPts(type)[i] = Media[type][i].pt
    BY <1>1 DEF AllPts
  <1>3. \A x : x \in ToSet(AllPts(type)) <=> \E i \in Rows(type) : Media[type][i].pt = x
    BY <1>1, <1>2, InList
  <1>4. QED
    BY <1>2, <1>3 DEF Kept

\* Where the lines of the payloads are in an offered section.
LinesAt(s, type, off) ==
  /\ off \in [Rows(type) -> Nat]
  /\ \A i \in Rows(type) :
       /\ off[i] + 3 \in 3..Len(s) /\ s[off[i] + 3] = Rtpmap(Media[type][i])
       /\ Media[type][i].fmtp =>
            off[i] + 5 \in 3..Len(s) /\ s[off[i] + 5] = Fmtp(Media[type][i], 0)
  /\ \A i, j \in Rows(type) : i < j => off[i] < off[j]
  /\ \A k \in 3..Len(s) : \E i \in Rows(type) :
       \/ k = off[i] + 3
       \/ k = off[i] + 4 /\ s[k] = Feedback(Media[type][i])
       \/ k = off[i] + 5 /\ Media[type][i].fmtp

\* The lines of an offered section.
LEMMA OfferedLines ==
  ASSUME NEW type \in Types, NEW m \in Nat
  PROVE  /\ SectionLines(type, m) \in Seq(Lines) /\ Len(SectionLines(type, m)) >= 2
         /\ SectionLines(type, m)[1] = MLine(type, AllPts(type))
         /\ SectionLines(type, m)[2] = MidLine(m)
         /\ \E off : LinesAt(SectionLines(type, m), type, off)
  <1> DEFINE M == Media[type]
             n == Len(M)
             blocks == [i \in DOMAIN M |-> PayloadLines(M[i])]
             f == FlattenSeq(blocks)
             h == << MLine(type, AllPts(type)), MidLine(m) >>
             s == SectionLines(type, m)
  <1>1. /\ n \in Nat /\ DOMAIN M = 1..n /\ Rows(type) = 1..n
        /\ \A i \in 1..n : M[i] \in Offered /\ M[i].fmtp \in BOOLEAN
    BY PayloadsAre DEF Rows
  <1>2. s = h \o f
    BY DEF SectionLines, AllPts
  <1> HIDE DEF s, h, f
  <1>3. h \in Seq(Lines) /\ Len(h) = 2 /\ h[1] = MLine(type, AllPts(type)) /\ h[2] = MidLine(m)
    <2>1. AllPts(type) \in Seq(Nat)
      BY AllPtsAre
    <2>2. MLine(type, AllPts(type)) \in Lines /\ MidLine(m) \in Lines
      BY <2>1 DEF Lines
    <2>3. QED
      BY <2>2 DEF h
  <1> HIDE DEF M, n
  <1>4. \A i \in 1..n :
          Rtpmap(M[i]) \in Lines /\ Feedback(M[i]) \in Lines /\ Fmtp(M[i], 0) \in Lines
    <2>1. 0 \in Nat
      OBVIOUS
    <2>2. QED
      BY <1>1, <2>1 DEF Lines
  <1>5. \A i \in 1..n : /\ blocks[i] \in Seq(Lines) /\ blocks[i] = PayloadLines(M[i])
    <2>1. SUFFICES ASSUME NEW i \in 1..n PROVE PayloadLines(M[i]) \in Seq(Lines)
      BY <1>1
    <2>2. Rtpmap(M[i]) \in Lines /\ Feedback(M[i]) \in Lines /\ Fmtp(M[i], 0) \in Lines
      BY <1>4
    <2>3. QED
      BY <2>2 DEF PayloadLines
  <1>6. blocks \in Seq(Seq(Lines)) /\ Len(blocks) = n
    <2>1. blocks \in [1..n -> Seq(Lines)]
      <3>1. DOMAIN blocks = 1..n /\ blocks = [i \in 1..n |-> blocks[i]]
        BY <1>1
      <3> HIDE DEF blocks
      <3>2. QED
        BY <3>1, <1>5
    <2> HIDE DEF blocks
    <2>2. QED
      BY <2>1, <1>1
  <1>7. \A i \in 1..n :
          /\ Len(blocks[i]) >= 2 /\ blocks[i][1] = Rtpmap(M[i]) /\ blocks[i][2] = Feedback(M[i])
          /\ M[i].fmtp => Len(blocks[i]) = 3 /\ blocks[i][3] = Fmtp(M[i], 0)
          /\ ~M[i].fmtp => Len(blocks[i]) = 2
    <2>1. SUFFICES ASSUME NEW i \in 1..n
                   PROVE
          /\ Len(blocks[i]) >= 2 /\ blocks[i][1] = Rtpmap(M[i]) /\ blocks[i][2] = Feedback(M[i])
          /\ M[i].fmtp => Len(blocks[i]) = 3 /\ blocks[i][3] = Fmtp(M[i], 0)
          /\ ~M[i].fmtp => Len(blocks[i]) = 2
      OBVIOUS
    <2> HIDE DEF blocks
    <2>2. CASE M[i].fmtp
      <3>1. blocks[i] = << Rtpmap(M[i]), Feedback(M[i]), Fmtp(M[i], 0) >>
        BY <2>2, <1>5 DEF PayloadLines
      <3>2. QED
        BY <3>1, <2>2
    <2>3. CASE ~M[i].fmtp
      <3>1. blocks[i] = << Rtpmap(M[i]), Feedback(M[i]) >>
        BY <2>3, <1>5 DEF PayloadLines
      <3>2. QED
        BY <3>1, <2>3
    <2>4. QED
      BY <2>2, <2>3
  <1>f. f = FlattenSeq(blocks)
    BY DEF f
  <1> HIDE DEF blocks
  <1>8. f \in Seq(Lines) /\ \E b : Blocks(f, blocks, n, b)
    BY <1>6, <1>f, FlattenIs
  <1>9. PICK b : Blocks(f, blocks, n, b)
    BY <1>8
  <1>10. /\ b \in [1..(n + 1) -> Nat] /\ b[n + 1] = Len(f)
         /\ \A i \in 1..n : b[i + 1] = b[i] + Len(blocks[i])
         /\ \A i, j \in 1..(n + 1) : i <= j => b[i] <= b[j]
    BY <1>9 DEF Blocks
  <1>11. \A i \in 1..n : \A k \in 1..Len(blocks[i]) : f[b[i] + k] = blocks[i][k]
    BY <1>9 DEF Blocks
  <1>12. \A j \in 1..Len(f) : \E i \in 1..n : \E k \in 1..Len(blocks[i]) : j = b[i] + k
    BY <1>9 DEF Blocks
  <1>13. \A i \in 1..n : b[i] \in Nat /\ b[i] + Len(blocks[i]) <= Len(f)
                         /\ \A j \in 1..n : i < j => b[i] < b[j]
    <2>1. SUFFICES ASSUME NEW i \in 1..n
                   PROVE  b[i] \in Nat /\ b[i] + Len(blocks[i]) <= Len(f)
                          /\ \A j \in 1..n : i < j => b[i] < b[j]
      OBVIOUS
    <2>2. i \in 1..(n + 1) /\ i + 1 \in 1..(n + 1) /\ n + 1 \in 1..(n + 1) /\ i + 1 <= n + 1
      BY <1>1
    <2>3. b[i + 1] <= b[n + 1] /\ b[i] \in Nat /\ b[i + 1] = b[i] + Len(blocks[i])
      BY <2>2, <1>10
    <2>4. Len(blocks[i]) \in Nat /\ Len(blocks[i]) >= 2
      BY <1>6, <1>7
    <2>5. ASSUME NEW j \in 1..n, i < j PROVE b[i] < b[j]
      <3>1. j \in 1..(n + 1) /\ i + 1 <= j
        BY <2>5, <1>1
      <3>2. b[i + 1] <= b[j] /\ b[j] \in Nat
        BY <2>2, <3>1, <1>10
      <3>3. QED
        BY <2>3, <2>4, <3>2
    <2>6. QED
      BY <2>3, <2>5, <1>10
  <1>14. s \in Seq(Lines) /\ Len(s) = Len(f) + 2 /\ s[1] = h[1] /\ s[2] = h[2]
         /\ \A k \in 1..Len(f) : s[k + 2] = f[k]
    <2>1. /\ h \o f \in Seq(Lines) /\ Len(h \o f) = Len(h) + Len(f)
          /\ \A k \in 1..(Len(h) + Len(f)) : (h \o f)[k] =
               IF k <= Len(h) THEN h[k] ELSE f[k - Len(h)]
      BY <1>3, <1>8, ConcatProperties
    <2>2. /\ Len(f) \in Nat /\ 1 \in 1..(2 + Len(f)) /\ 2 \in 1..(2 + Len(f))
          /\ \A k \in 1..Len(f) : k + 2 \in 1..(2 + Len(f)) /\ ~(k + 2 <= 2) /\ (k + 2) - 2 = k
      BY <1>8
    <2>3. QED
      BY <1>2, <1>3, <2>1, <2>2
  <1>15. Len(f) \in Nat
    BY <1>8
  <1> DEFINE off == [i \in 1..n |-> b[i]]
  <1>16. off \in [1..n -> Nat] /\ \A i \in 1..n : off[i] = b[i]
    BY <1>13
  <1> HIDE DEF off
  <1>17. ASSUME NEW i \in 1..n
         PROVE  /\ off[i] + 3 \in 3..Len(s) /\ s[off[i] + 3] = Rtpmap(M[i])
                /\ M[i].fmtp => off[i] + 5 \in 3..Len(s) /\ s[off[i] + 5] = Fmtp(M[i], 0)
                /\ s[off[i] + 4] = Feedback(M[i])
    <2>1. PICK p \in Nat : p = b[i] /\ p = off[i]
      BY <1>13, <1>16
    <2>2. PICK l \in Nat, n2 \in Nat : l = Len(blocks[i]) /\ n2 = Len(f)
      BY <1>6, <1>15
    <2>a. p + l <= n2 /\ l >= 2 /\ Len(s) = n2 + 2
      <3>1. p + Len(blocks[i]) <= Len(f)
        BY <2>1, <1>13
      <3>2. Len(blocks[i]) >= 2
        BY <1>7
      <3>3. QED
        BY <3>1, <3>2, <2>2, <1>14
    <2>3. 1 \in 1..l /\ p + 1 \in 1..n2 /\ (p + 1) + 2 = p + 3
          /\ p + 3 \in 3..(n2 + 2)
          /\ 2 \in 1..l /\ p + 2 \in 1..n2 /\ (p + 2) + 2 = p + 4
      BY <2>a
    <2>b. /\ \A k \in 1..l : f[p + k] = blocks[i][k]
          /\ \A k \in 1..n2 : s[k + 2] = f[k]
      BY <2>1, <2>2, <1>11, <1>14
    <2>4. s[p + 3] = Rtpmap(M[i])
      <3>1. f[p + 1] = blocks[i][1] /\ s[(p + 1) + 2] = f[p + 1]
        BY <2>3, <2>b
      <3>2. QED
        BY <3>1, <2>3, <1>7
    <2>5. s[p + 4] = Feedback(M[i])
      <3>1. f[p + 2] = blocks[i][2] /\ s[(p + 2) + 2] = f[p + 2]
        BY <2>3, <2>b
      <3>2. QED
        BY <3>1, <2>3, <1>7
    <2>6. ASSUME M[i].fmtp PROVE p + 5 \in 3..Len(s) /\ s[p + 5] = Fmtp(M[i], 0)
      <3>1. Len(blocks[i]) = 3 /\ blocks[i][3] = Fmtp(M[i], 0)
        BY <2>6, <1>7
      <3>2. 3 \in 1..l /\ p + 3 \in 1..n2 /\ (p + 3) + 2 = p + 5 /\ p + 5 \in 3..(n2 + 2)
        BY <2>2, <2>a, <3>1
      <3>3. f[p + 3] = blocks[i][3] /\ s[(p + 3) + 2] = f[p + 3]
        BY <3>2, <2>b
      <3>4. QED
        BY <3>1, <3>2, <3>3, <2>a
    <2>7. QED
      BY <2>1, <2>3, <2>4, <2>5, <2>6, <2>a
  <1>18. ASSUME NEW k \in 3..Len(s)
         PROVE  \E i \in 1..n : \/ k = off[i] + 3
                                \/ k = off[i] + 4 /\ s[k] = Feedback(M[i])
                                \/ k = off[i] + 5 /\ M[i].fmtp
    <2>1. k - 2 \in 1..Len(f)
      BY <1>14, <1>15
    <2>2. PICK i \in 1..n : \E l \in 1..Len(blocks[i]) : k - 2 = b[i] + l
      BY <2>1, <1>12
    <2>3. PICK l \in 1..Len(blocks[i]) : k - 2 = b[i] + l
      BY <2>2
    <2>4. PICK p \in Nat : p = b[i] /\ p = off[i]
      BY <1>13, <1>16
    <2>5. k = p + l + 2
      BY <2>3, <2>4
    <2>6. l = 1 \/ l = 2 \/ (l = 3 /\ M[i].fmtp)
      <3>1. CASE M[i].fmtp
        <4>1. l \in 1..3
          BY <3>1, <1>7, <2>3
        <4>2. QED
          BY <4>1, <3>1
      <3>2. CASE ~M[i].fmtp
        <4>1. l \in 1..2
          BY <3>2, <1>7, <2>3
        <4>2. QED
          BY <4>1
      <3>3. QED
        BY <3>1, <3>2
    <2>7. CASE l = 1
      <3>1. k = p + 3
        BY <2>5, <2>7
      <3>2. QED
        BY <3>1, <2>4
    <2>8. CASE l = 2
      <3>1. k = p + 4
        BY <2>5, <2>8
      <3>2. QED
        BY <3>1, <2>4, <1>17
    <2>9. CASE l = 3 /\ M[i].fmtp
      <3>1. k = p + 5
        BY <2>5, <2>9
      <3>2. QED
        BY <3>1, <2>4, <2>9
    <2>10. QED
      BY <2>6, <2>7, <2>8, <2>9
  <1>19. \A i, j \in 1..n : i < j => off[i] < off[j]
    BY <1>13, <1>16
  <1>20. Rows(type) = 1..n /\ Len(s) >= 2
    BY <1>1, <1>14, <1>15
  <1>21. LinesAt(s, type, off)
    BY <1>16, <1>17, <1>18, <1>19, <1>20 DEF LinesAt, M
  <1>22. QED
    BY <1>3, <1>14, <1>20, <1>21 DEF s

\* An offered section is whole, lists every payload, and sets no rates.
LEMMA OfferedWhole ==
  ASSUME NEW type \in Types, NEW m \in Nat
  PROVE  /\ Whole(SectionLines(type, m), type, m, AllPts(type))
         /\ \A k \in 3..Len(SectionLines(type, m)) :
              SectionLines(type, m)[k].key = "fmtp" => SectionLines(type, m)[k].rate = 0
  <1> DEFINE s == SectionLines(type, m)
             pts == AllPts(type)
             M == Media[type]
             R == Rows(type)
  <1>1. /\ s \in Seq(Lines) /\ Len(s) >= 2 /\ s[1] = MLine(type, pts) /\ s[2] = MidLine(m)
        /\ \E off : LinesAt(s, type, off)
    BY OfferedLines
  <1>2. /\ pts \in Seq(Nat) /\ Kept(type, pts) = R
        /\ \A x : x \in ToSet(pts) <=> \E i \in R : M[i].pt = x
    BY AllPtsAre
  <1>3. /\ \A i, j \in R : M[i].pt = M[j].pt => i = j
        /\ \A i \in R : M[i].apt # None => \E j \in R : M[j].pt = M[i].apt
        /\ Len(M) \in Nat /\ R = 1..Len(M)
    BY PayloadsAre DEF Rows
  <1>p. PICK off : LinesAt(s, type, off)
    BY <1>1
  <1> HIDE DEF s
  <1>4. /\ off \in [R -> Nat]
        /\ \A i \in R :
             /\ off[i] + 3 \in 3..Len(s) /\ s[off[i] + 3] = Rtpmap(M[i])
             /\ M[i].fmtp => off[i] + 5 \in 3..Len(s) /\ s[off[i] + 5] = Fmtp(M[i], 0)
        /\ \A i, j \in R : i < j => off[i] < off[j]
        /\ \A k \in 3..Len(s) : \E i \in R : \/ k = off[i] + 3
                                             \/ k = off[i] + 4 /\ s[k] = Feedback(M[i])
                                             \/ k = off[i] + 5 /\ M[i].fmtp
    BY <1>p DEF LinesAt
  <1> HIDE DEF pts, M, R
  <1>5. ASSUME NEW k \in 3..Len(s)
        PROVE  \E i \in R : \/ k = off[i] + 3 /\ s[k] = Rtpmap(M[i])
                            \/ s[k] = Feedback(M[i])
                            \/ k = off[i] + 5 /\ M[i].fmtp /\ s[k] = Fmtp(M[i], 0)
    BY <1>4
  <1>6. \A k \in 3..Len(s) : \E i \in R : Speaks(s[k], M[i])
    BY <1>5 DEF Speaks
  <1>7. ASSUME NEW k \in 3..Len(s), s[k].key = "rtpmap"
        PROVE  \E i \in R : k = off[i] + 3 /\ s[k] = Rtpmap(M[i])
    BY <1>5, <1>7, LinesOfPayloads
  <1>8. ASSUME NEW k \in 3..Len(s), s[k].key = "fmtp"
        PROVE  \E i \in R : k = off[i] + 5 /\ s[k] = Fmtp(M[i], 0)
    BY <1>5, <1>8, LinesOfPayloads
  <1>9. ASSUME NEW k \in 3..Len(s), NEW i \in R, s[k] = Rtpmap(M[i])
        PROVE  k = off[i] + 3
    <2>1. s[k].key = "rtpmap"
      BY <1>9, LinesOfPayloads
    <2>2. PICK p \in R : k = off[p] + 3 /\ s[k] = Rtpmap(M[p])
      BY <2>1, <1>7
    <2>3. M[p].pt = M[i].pt
      <3>1. Rtpmap(M[p]).pt = M[p].pt /\ Rtpmap(M[i]).pt = M[i].pt
        BY LinesOfPayloads
      <3>2. Rtpmap(M[p]) = Rtpmap(M[i])
        BY <2>2, <1>9
      <3>3. QED
        BY <3>1, <3>2
    <2>4. QED
      BY <2>2, <2>3, <1>3
  <1>10. ASSUME NEW j \in 3..Len(s), NEW k \in 3..Len(s), NEW p \in R, NEW q \in R,
                j < k, s[j] = Rtpmap(M[p]), s[k] = Rtpmap(M[q])
         PROVE  p < q
    <2>1. j = off[p] + 3 /\ k = off[q] + 3
      BY <1>9, <1>10
    <2>2. off[p] \in Nat /\ off[q] \in Nat
      BY <1>4
    <2>3. off[p] < off[q]
      BY <2>1, <2>2, <1>10
    <2>4. p \in Nat /\ q \in Nat
      BY <1>3
    <2>5. q < p => off[q] < off[p]
      BY <1>4
    <2>7. ~(q < p) /\ p # q
      BY <2>2, <2>3, <2>5
    <2>6. QED
      BY <2>4, <2>7
  <1>11. ASSUME NEW j \in 3..Len(s), NEW k \in 3..Len(s),
                s[j].key = "fmtp", s[k].key = "fmtp", s[j].pt = s[k].pt
         PROVE  j = k
    <2>1. PICK p \in R : j = off[p] + 5 /\ s[j] = Fmtp(M[p], 0)
      BY <1>8, <1>11
    <2>2. PICK q \in R : k = off[q] + 5 /\ s[k] = Fmtp(M[q], 0)
      BY <1>8, <1>11
    <2>3. M[p].pt = M[q].pt
      BY <2>1, <2>2, <1>11, LinesOfPayloads
    <2>4. QED
      BY <2>1, <2>2, <2>3, <1>3
  <1>12. \A k \in 3..Len(s) : s[k].key = "fmtp" => s[k].rate = 0
    BY <1>8, LinesOfPayloads
  <1>13. ASSUME NEW i \in R
         PROVE  /\ \E k \in 3..Len(s) : s[k] = Rtpmap(M[i])
                /\ M[i].fmtp => \E k \in 3..Len(s) : \E rate \in Nat : s[k] = Fmtp(M[i], rate)
    <2>1. 0 \in Nat
      OBVIOUS
    <2>2. QED
      BY <2>1, <1>4
  <1>14. \A i \in R : M[i].apt # None => (M[i].pt \in ToSet(pts) <=> M[i].apt \in ToSet(pts))
    BY <1>2, <1>3
  <1>15. Whole(s, type, m, pts)
    BY <1>1, <1>2, <1>6, <1>10, <1>11, <1>13, <1>14 DEF Whole, M, R
  <1>16. QED
    BY <1>12, <1>15 DEF s, pts

\* List f has the numbers of the kept payloads of a codec in the order of the offer.
RowsOf(f, type, kept, codec, row) ==
  /\ row \in [1..Len(f) -> kept]
  /\ \A j \in 1..Len(f) : f[j] = Media[type][row[j]].pt /\ Media[type][row[j]].codec = codec
  /\ \A j, k \in 1..Len(f) : j < k => row[j] < row[k]
  /\ \A i \in kept : Media[type][i].codec = codec => \E j \in 1..Len(f) : row[j] = i

\* What reorderCodecs and findFmtpLine collect of a codec.
LEMMA PayloadsAreOf ==
  ASSUME NEW type \in Types, NEW m, NEW s, NEW pts, Whole(s, type, m, pts), NEW codec
  PROVE  /\ PayloadsOf(s, codec) \in Seq(Nat)
         /\ \E row : RowsOf(PayloadsOf(s, codec), type, Kept(type, pts), codec, row)
  <1> DEFINE M == Media[type]
             R == Kept(type, pts)
             n == Len(s)
             T == {k \in 1..n : Describes(s[k], codec)}
             e == [k \in T |-> s[k].pt]
             seqs == [k \in 1..n |-> IF k \in T THEN << e[k] >> ELSE << >>]
             f == FlattenSeq(seqs)
  <1>1. n \in Nat /\ DOMAIN s = 1..n
    BY DEF Whole
  <1>2. ASSUME NEW k \in T
        PROVE  \E i \in R : s[k] = Rtpmap(M[i]) /\ M[i].codec = codec /\ s[k].pt = M[i].pt
                            /\ k \in 3..n
    <2>1. k \in 1..n /\ s[k].key = "rtpmap" /\ s[k].codec = codec
      BY DEF Describes
    <2>2. k \in 3..n
      BY <2>1, WholeLines DEF Attributes
    <2>3. PICK i \in R : s[k] = Rtpmap(M[i])
      BY <2>1, WholeLines
    <2>4. s[k].codec = M[i].codec /\ s[k].pt = M[i].pt
      BY <2>3, LinesOfPayloads
    <2>5. QED
      BY <2>1, <2>2, <2>3, <2>4
  <1>3. \A i \in R : i \in Rows(type) /\ M[i].pt \in Nat
    BY PayloadsAre DEF Kept
  <1>4. e \in [T -> Nat] /\ \A k \in T : e[k] = s[k].pt
    BY <1>2, <1>3
  <1>5. PayloadsOf(s, codec) = f
    <2>1. seqs = [k \in DOMAIN s |-> IF Describes(s[k], codec) THEN << s[k].pt >> ELSE << >>]
      BY <1>1
    <2> HIDE DEF seqs
    <2>2. QED
      BY <2>1 DEF PayloadsOf
  <1>6. f \in Seq(Nat) /\ \E pos : Chosen(f, T, e, pos)
    <2>1. T \in SUBSET (1..n) /\ n \in Nat /\ e \in [T -> Nat]
      BY <1>1, <1>4
    <2>2. seqs = [i \in 1..n |-> IF i \in T THEN << e[i] >> ELSE << >>]
      OBVIOUS
    <2> HIDE DEF T, e, seqs, n
    <2>3. QED
      BY <2>1, <2>2, FilterIs
  <1>p. PICK pos : Chosen(f, T, e, pos)
    BY <1>6
  <1>7. /\ pos \in [1..Len(f) -> T]
        /\ \A j \in 1..Len(f) : f[j] = e[pos[j]]
        /\ \A j, k \in 1..Len(f) : j < k => pos[j] < pos[k]
        /\ \A i \in T : \E j \in 1..Len(f) : pos[j] = i
    BY <1>p DEF Chosen
  <1>t. \A k \in 3..n : \A i \in R : s[k] = Rtpmap(M[i]) /\ M[i].codec = codec => k \in T
    <2>1. SUFFICES ASSUME NEW k \in 3..n, NEW i \in R, s[k] = Rtpmap(M[i]), M[i].codec = codec
                   PROVE  k \in T
      OBVIOUS
    <2>2. s[k].key = "rtpmap" /\ s[k].codec = codec
      BY <2>1, LinesOfPayloads
    <2>3. QED
      BY <2>2, <1>1 DEF Describes
  <1> HIDE DEF f, e, seqs, T, R
  <1> DEFINE row == [j \in 1..Len(f) |->
                      CHOOSE i \in R : s[pos[j]] = Rtpmap(M[i]) /\ M[i].codec = codec
                                                    /\ s[pos[j]].pt = M[i].pt]
  <1>8. ASSUME NEW j \in 1..Len(f)
        PROVE  /\ row[j] \in R /\ s[pos[j]] = Rtpmap(M[row[j]]) /\ M[row[j]].codec = codec
               /\ f[j] = M[row[j]].pt /\ pos[j] \in 3..n
    <2>1. pos[j] \in T /\ f[j] = e[pos[j]]
      BY <1>7
    <2>2. \E i \in R : s[pos[j]] = Rtpmap(M[i]) /\ M[i].codec = codec /\ s[pos[j]].pt = M[i].pt
                      /\ pos[j] \in 3..n
      BY <2>1, <1>2
    <2>3. f[j] = s[pos[j]].pt
      BY <2>1, <1>4
    <2>4. QED
      BY <2>2, <2>3
  <1>9. row \in [1..Len(f) -> R]
    BY <1>8
  <1> HIDE DEF row
  <1>10. /\ \A j, k \in 3..n : \A p, q \in Rows(type) :
              j < k /\ s[j] = Rtpmap(M[p]) /\ s[k] = Rtpmap(M[q]) => p < q
         /\ \A i \in R : \E k \in 3..n : s[k] = Rtpmap(M[i])
    BY DEF Whole, R
  <1>11. \A j, k \in 1..Len(f) : j < k => row[j] < row[k]
    <2>1. SUFFICES ASSUME NEW j \in 1..Len(f), NEW k \in 1..Len(f), j < k
                   PROVE  row[j] < row[k]
      OBVIOUS
    <2>2. pos[j] < pos[k]
      BY <2>1, <1>7
    <2>3. row[j] \in Rows(type) /\ row[k] \in Rows(type)
      BY <1>3, <1>8
    <2>4. QED
      BY <2>2, <2>3, <1>8, <1>10
  <1>12. ASSUME NEW i \in R, M[i].codec = codec
         PROVE  \E j \in 1..Len(f) : row[j] = i
    <2>1. PICK k \in 3..n : s[k] = Rtpmap(M[i])
      BY <1>10
    <2>2. k \in T
      BY <2>1, <1>12, <1>t
    <2>3. PICK j \in 1..Len(f) : pos[j] = k
      BY <2>2, <1>7
    <2>4. M[row[j]].pt = M[i].pt /\ row[j] \in R
      BY <2>1, <2>3, <1>8, LinesOfPayloads
    <2>5. row[j] = i
      BY <2>4, <1>3, PayloadsAre
    <2>6. QED
      BY <2>5
  <1>13. QED
    <2>1. RowsOf(f, type, R, codec, row)
      BY <1>8, <1>9, <1>11, <1>12 DEF RowsOf
    <2>2. QED
      BY <1>5, <1>6, <2>1 DEF R

-----------------------------------------------------------------------------
(* reorderCodecs                                                           *)

\* Chosen by its codec.
Asked(type, kept, wanted) == {i \in kept : Media[type][i].codec \in ToSet(wanted)}

\* In list pts the chosen payloads have the order of the codecs in wanted.
InOrder(pts, type, kept, wanted) ==
  \A c, d \in kept : \A i, j \in 1..Len(wanted) :
    i < j /\ wanted[i] = Media[type][c].codec /\ wanted[j] = Media[type][d].codec =>
    \E p, q \in 1..Len(pts) : p < q /\ pts[p] = Media[type][c].pt /\ pts[q] = Media[type][d].pt
Single(pts) == \A p, q \in 1..Len(pts) : pts[p] = pts[q] => p = q

\* List base has the chosen payloads, in the order of wanted.
Collected(base, type, kept, wanted) ==
  /\ \A x : x \in ToSet(base) <=> \E i \in Asked(type, kept, wanted) : Media[type][i].pt = x
  /\ InOrder(base, type, kept, wanted)
  /\ Single(wanted) => Single(base)

\* The loop over the codecs in reorderCodecs.
LEMMA BaseIs ==
  ASSUME NEW type \in Types, NEW m, NEW s, NEW pts, Whole(s, type, m, pts),
         NEW S, NEW wanted \in Seq(S), NEW seqs,
         seqs = [i \in DOMAIN wanted |-> PayloadsOf(s, wanted[i])]
  PROVE  /\ FlattenSeq(seqs) \in Seq(Nat)
         /\ Collected(FlattenSeq(seqs), type, Kept(type, pts), wanted)
  <1> DEFINE M == Media[type]
             K == Kept(type, pts)
             n == Len(wanted)
             base == FlattenSeq(seqs)
  <1>1. n \in Nat /\ DOMAIN wanted = 1..n
    OBVIOUS
  <1>2. \A i \in 1..n : /\ seqs[i] \in Seq(Nat)
                        /\ \E row : RowsOf(seqs[i], type, K, wanted[i], row)
    <2>1. SUFFICES ASSUME NEW i \in 1..n
                   PROVE  seqs[i] \in Seq(Nat) /\ \E row : RowsOf(seqs[i], type, K, wanted[i], row)
      OBVIOUS
    <2>2. PICK codec : codec = wanted[i]
      OBVIOUS
    <2>3. seqs[i] = PayloadsOf(s, codec)
      BY <2>2, <1>1
    <2>4. /\ PayloadsOf(s, codec) \in Seq(Nat)
          /\ \E row : RowsOf(PayloadsOf(s, codec), type, K, codec, row)
      BY PayloadsAreOf
    <2>5. QED
      BY <2>2, <2>3, <2>4
  <1>3. seqs \in Seq(Seq(Nat)) /\ Len(seqs) = n
    <2>1. DOMAIN seqs = 1..n /\ seqs = [i \in 1..n |-> seqs[i]]
      BY <1>1
    <2>2. seqs \in [1..n -> Seq(Nat)]
      BY <2>1, <1>2
    <2>3. QED
      BY <2>2, <1>1
  <1>4. base \in Seq(Nat) /\ \E off : Blocks(base, seqs, Len(seqs), off)
    BY <1>3, FlattenIs
  <1>5. PICK off : Blocks(base, seqs, n, off)
    BY <1>3, <1>4
  <1>6. /\ off \in [1..(n + 1) -> Nat] /\ off[n + 1] = Len(base)
        /\ (\A i \in 1..n : off[i + 1] = off[i] + Len(seqs[i]))
        /\ \A i, j \in 1..(n + 1) : i <= j => off[i] <= off[j]
    BY <1>5 DEF Blocks
  <1>7. /\ \A i \in 1..n : \A k \in 1..Len(seqs[i]) : base[off[i] + k] = seqs[i][k]
        /\ \A j \in 1..Len(base) : \E i \in 1..n : \E k \in 1..Len(seqs[i]) : j = off[i] + k
    BY <1>5 DEF Blocks
  <1> DEFINE row(i) == CHOOSE row : RowsOf(seqs[i], type, K, wanted[i], row)
  <1>8. ASSUME NEW i \in 1..n
        PROVE  /\ Len(seqs[i]) \in Nat /\ row(i) \in [1..Len(seqs[i]) -> K]
               /\ \A j \in 1..Len(seqs[i]) : /\ seqs[i][j] = M[row(i)[j]].pt
                                             /\ M[row(i)[j]].codec = wanted[i]
               /\ \A j, k \in 1..Len(seqs[i]) : j < k => row(i)[j] < row(i)[k]
               /\ \A c \in K : M[c].codec = wanted[i] => \E j \in 1..Len(seqs[i]) : row(i)[j] = c
    <2>1. RowsOf(seqs[i], type, K, wanted[i], row(i))
      BY <1>2
    <2> HIDE DEF row, K
    <2>2. Len(seqs[i]) \in Nat
      BY <1>2
    <2>3. QED
      BY <2>1, <2>2 DEF RowsOf
  <1>b. Len(base) \in Nat
    BY <1>4
  <1>k. \A i \in K : i \in Rows(type) /\ i \in Nat
    BY PayloadsAre DEF Kept, Rows
  <1> HIDE DEF row, base, K, M
  <1>9. ASSUME NEW i \in 1..n, NEW k \in 1..Len(seqs[i])
        PROVE  /\ off[i] \in Nat /\ off[i] + k \in 1..Len(base)
               /\ base[off[i] + k] = M[row(i)[k]].pt
               /\ row(i)[k] \in K /\ off[i] + k <= off[i + 1]
    <2>1. i \in 1..(n + 1) /\ i + 1 \in 1..(n + 1) /\ n + 1 \in 1..(n + 1) /\ i + 1 <= n + 1
      BY <1>1
    <2>2. PICK p \in Nat, q \in Nat, l \in Nat : p = off[i] /\ q = off[i + 1] /\ l = Len(seqs[i])
      BY <2>1, <1>6, <1>8
    <2>3. q = p + l /\ q <= Len(base) /\ k \in 1..l
      BY <2>1, <2>2, <1>6
    <2>4. p + k \in 1..Len(base) /\ p + k <= q
      BY <2>3, <1>b
    <2>5. base[off[i] + k] = M[row(i)[k]].pt /\ row(i)[k] \in K
      <3>1. base[off[i] + k] = seqs[i][k]
        BY <1>7
      <3>2. seqs[i][k] = M[row(i)[k]].pt /\ row(i)[k] \in K
        BY <1>8
      <3>3. QED
        BY <3>1, <3>2
    <2>6. QED
      BY <2>2, <2>4, <2>5
  <1>10. ASSUME NEW x
         PROVE  x \in ToSet(base) <=> \E i \in Asked(type, K, wanted) : M[i].pt = x
    <2>1. ASSUME NEW p \in 1..Len(base), base[p] = x
          PROVE  \E i \in Asked(type, K, wanted) : M[i].pt = x
      <3>1. PICK i \in 1..n : \E k \in 1..Len(seqs[i]) : p = off[i] + k
        BY <1>7
      <3>2. PICK k \in 1..Len(seqs[i]) : p = off[i] + k
        BY <3>1
      <3>3. M[row(i)[k]].pt = x /\ row(i)[k] \in K /\ M[row(i)[k]].codec = wanted[i]
        BY <2>1, <3>2, <1>8, <1>9
      <3>4. wanted[i] \in ToSet(wanted)
        BY InList
      <3>5. QED
        BY <3>3, <3>4 DEF Asked, M
    <2>2. ASSUME NEW c \in Asked(type, K, wanted), M[c].pt = x
          PROVE  x \in ToSet(base)
      <3>1. c \in K /\ M[c].codec \in ToSet(wanted)
        BY DEF Asked, M
      <3>2. PICK i \in 1..n : wanted[i] = M[c].codec
        BY <3>1, InList
      <3>3. PICK k \in 1..Len(seqs[i]) : row(i)[k] = c
        BY <3>1, <3>2, <1>8
      <3>4. off[i] + k \in 1..Len(base) /\ base[off[i] + k] = x
        BY <2>2, <3>3, <1>9
      <3>5. QED
        BY <3>4, <1>4, InList DEF base
    <2>3. x \in ToSet(base) <=> \E p \in 1..Len(base) : base[p] = x
      BY <1>4, InList DEF base
    <2>4. QED
      BY <2>1, <2>2, <2>3
  <1>11. InOrder(base, type, K, wanted)
    <2>1. SUFFICES ASSUME NEW c \in K, NEW d \in K, NEW i \in 1..n, NEW j \in 1..n,
                          i < j, wanted[i] = M[c].codec, wanted[j] = M[d].codec
                   PROVE  \E p, q \in 1..Len(base) : p < q /\ base[p] = M[c].pt /\ base[q] = M[d].pt
      BY DEF InOrder, M
    <2>2. PICK k \in 1..Len(seqs[i]) : row(i)[k] = c
      BY <2>1, <1>8
    <2>3. PICK l \in 1..Len(seqs[j]) : row(j)[l] = d
      BY <2>1, <1>8
    <2>4. /\ off[i] + k \in 1..Len(base) /\ base[off[i] + k] = M[c].pt /\ off[i] + k <= off[i + 1]
          /\ off[j] + l \in 1..Len(base) /\ base[off[j] + l] = M[d].pt /\ off[j] \in Nat
          /\ off[i] \in Nat
      BY <2>2, <2>3, <1>9
    <2>5. off[i + 1] <= off[j] /\ off[i + 1] \in Nat
      <3>1. i + 1 \in 1..(n + 1) /\ j \in 1..(n + 1) /\ i + 1 <= j
        BY <2>1, <1>1
      <3>2. QED
        BY <3>1, <1>6
    <2>6. PICK a \in Nat, b \in Nat, o \in Nat : a = off[i] + k /\ b = off[j] /\ o = off[i + 1]
      BY <2>4, <2>5, SMTT(40)
    <2>7. a <= o /\ o <= b /\ l \in Nat /\ l >= 1
      BY <2>4, <2>5, <2>6, <1>8
    <2>8. a < b + l
      BY <2>7
    <2>9. QED
      BY <2>4, <2>6, <2>8
  <1>12. ASSUME Single(wanted) PROVE Single(base)
    <2>1. SUFFICES ASSUME NEW p \in 1..Len(base), NEW q \in 1..Len(base), base[p] = base[q]
                   PROVE  p = q
      BY DEF Single
    <2>2. PICK i \in 1..n : \E k \in 1..Len(seqs[i]) : p = off[i] + k
      BY <1>7
    <2>3. PICK k \in 1..Len(seqs[i]) : p = off[i] + k
      BY <2>2
    <2>4. PICK j \in 1..n : \E l \in 1..Len(seqs[j]) : q = off[j] + l
      BY <1>7
    <2>5. PICK l \in 1..Len(seqs[j]) : q = off[j] + l
      BY <2>4
    <2>6. row(i)[k] \in K /\ row(j)[l] \in K /\ M[row(i)[k]].pt = M[row(j)[l]].pt
      BY <2>1, <2>3, <2>5, <1>9
    <2>7. row(i)[k] = row(j)[l]
      BY <2>6, <1>k, PayloadsAre DEF M
    <2>8. wanted[i] = wanted[j]
      <3>1. M[row(i)[k]].codec = wanted[i]
        BY <1>8
      <3>2. M[row(j)[l]].codec = wanted[j]
        BY <1>8
      <3>3. QED
        BY <3>1, <3>2, <2>7
    <2>9. i = j
      BY <2>8, <1>12 DEF Single
    <2>10. k = l
      <3>1. k \in 1..Len(seqs[i]) /\ l \in 1..Len(seqs[i]) /\ row(i)[k] = row(i)[l]
            /\ Len(seqs[i]) \in Nat
        BY <2>7, <2>9, <1>8
      <3>2. row(i)[k] \in Nat /\ row(i)[l] \in Nat
        BY <3>1, <2>6, <2>9, <1>k
      <3>a. \A u, v \in 1..Len(seqs[i]) : u < v => row(i)[u] < row(i)[v]
        BY <1>8
      <3>b. (k < l => row(i)[k] < row(i)[l]) /\ (l < k => row(i)[l] < row(i)[k])
        BY <3>1, <3>a
      <3>c. ~(row(i)[k] < row(i)[l]) /\ ~(row(i)[l] < row(i)[k])
        BY <3>1, <3>2
      <3>3. ~(k < l) /\ ~(l < k)
        BY <3>b, <3>c
      <3>4. QED
        BY <3>1, <3>3
    <2>11. QED
      BY <2>3, <2>5, <2>9, <2>10
  <1>13. Collected(base, type, K, wanted)
    BY <1>10, <1>11, <1>12 DEF Collected, M
  <1>14. QED
    BY <1>4, <1>13 DEF base, K

\* List pts has the chosen payloads in the order of wanted, and what repairs them.
Followed(pts, type, kept, wanted) ==
  /\ \A x : x \in ToSet(pts) <=>
       \E i \in kept : /\ Media[type][i].pt = x
                       /\ \/ i \in Asked(type, kept, wanted)
                          \/ \E d \in Asked(type, kept, wanted) :
                               Media[type][i].apt = Media[type][d].pt
  /\ InOrder(pts, type, kept, wanted)
  /\ Single(wanted) => Single(pts)

\* appendRtxPayloads, of one payload.
RepairAt(s, b) == SelectInSubSeq(s, 1, Len(s), LAMBDA l : l.key = "fmtp" /\ l.apt = b)

\* It finds what repairs the payload, if that is in the section.
LEMMA RepairOfOne ==
  ASSUME NEW type \in Types, NEW m, NEW s, NEW pts, Whole(s, type, m, pts), NEW b \in Nat,
         NEW f, f = RepairAt(s, b)
  PROVE  /\ f # 0 => \E r \in Kept(type, pts) :
              Media[type][r].apt = b /\ s[f].pt = Media[type][r].pt
         /\ f = 0 => \A r \in Kept(type, pts) : Media[type][r].apt # b
  <1> DEFINE M == Media[type]
             A == {k \in 1..Len(s) : s[k].key = "fmtp" /\ s[k].apt = b}
  <1>1. f = IF A # {} THEN Min(A) ELSE 0
    BY DEF RepairAt, SelectInSubSeq
  <1>2. A # {} => Min(A) \in A
    <2>1. Len(s) \in Nat
      BY DEF Whole
    <2>2. A \subseteq Nat
      BY <2>1
    <2> HIDE DEF A
    <2>3. QED
      BY <2>2, LeastOf
  <1>3. ASSUME f # 0
        PROVE  \E r \in Kept(type, pts) : M[r].apt = b /\ s[f].pt = M[r].pt
    <2>1. f \in 1..Len(s) /\ s[f].key = "fmtp" /\ s[f].apt = b
      BY <1>1, <1>2, <1>3
    <2>a. \A k \in 1..Len(s) : s[k].key = "fmtp" =>
             \E r \in Kept(type, pts) : \E rate \in Nat : s[k] = Fmtp(M[r], rate)
      BY WholeLines
    <2>2. PICK r \in Kept(type, pts) : \E rate \in Nat : s[f] = Fmtp(M[r], rate)
      BY <2>1, <2>a
    <2>3. s[f].apt = M[r].apt /\ s[f].pt = M[r].pt
      BY <2>2, LinesOfPayloads
    <2>4. QED
      BY <2>1, <2>3
  <1>4. ASSUME NEW r \in Kept(type, pts), M[r].apt = b
        PROVE  f # 0
    <2>1. M[r].apt # None
      BY <1>4 DEF None
    <2>2. M[r].fmtp
      BY <2>1, PayloadsAre DEF Kept
    <2>3. PICK k \in 3..Len(s) : \E rate \in Nat : s[k] = Fmtp(M[r], rate)
      BY <2>2 DEF Whole
    <2>4. s[k].key = "fmtp" /\ s[k].apt = b
      BY <2>3, <1>4, LinesOfPayloads
    <2>5. k \in A /\ Len(s) \in Nat
      BY <2>4 DEF Whole
    <2>6. Min(A) \in 1..Len(s) /\ A # {}
      BY <2>5, <1>2
    <2>7. QED
      BY <2>5, <2>6, <1>1
  <1>5. QED
    BY <1>3, <1>4 DEF M

\* List rtx has what repairs the payloads of base: rtx[j] is the number of payload row[j],
\* which repairs base[from[j]].
Repairs(rtx, base, type, kept, from, row) ==
  /\ from \in [1..Len(rtx) -> 1..Len(base)] /\ row \in [1..Len(rtx) -> kept]
  /\ \A j \in 1..Len(rtx) : /\ rtx[j] = Media[type][row[j]].pt
                            /\ base[from[j]] = Media[type][row[j]].apt
  /\ \A j, k \in 1..Len(rtx) : from[j] = from[k] => j = k
  /\ \A p \in 1..Len(base) : \A r \in kept :
       Media[type][r].apt = base[p] => \E j \in 1..Len(rtx) : from[j] = p

\* appendRtxPayloads, of all that were chosen.
LEMMA RepairsAre ==
  ASSUME NEW type \in Types, NEW m, NEW s, NEW pts, Whole(s, type, m, pts), NEW base \in Seq(Nat)
  PROVE  \E rtx \in Seq(Nat) : /\ AppendRtxPayloads(s, base) = base \o rtx
                               /\ \E from, row :
                                    Repairs(rtx, base, type, Kept(type, pts), from, row)
  <1> DEFINE M == Media[type]
             K == Kept(type, pts)
             n == Len(base)
             at(i) == RepairAt(s, base[i])
             T == {i \in 1..n : at(i) # 0}
             e == [i \in T |-> s[at(i)].pt]
             seqs == [i \in 1..n |-> IF i \in T THEN << e[i] >> ELSE << >>]
             rtx == FlattenSeq(seqs)
  <1>1. n \in Nat /\ DOMAIN base = 1..n /\ \A i \in 1..n : base[i] \in Nat
    OBVIOUS
  <1>2. \A i \in 1..n : /\ at(i) # 0 => \E r \in K : M[r].apt = base[i] /\ s[at(i)].pt = M[r].pt
                        /\ at(i) = 0 => \A r \in K : M[r].apt # base[i]
    <2>1. SUFFICES ASSUME NEW i \in 1..n
                   PROVE  /\ at(i) # 0 => \E r \in K : M[r].apt = base[i] /\ s[at(i)].pt = M[r].pt
                          /\ at(i) = 0 => \A r \in K : M[r].apt # base[i]
      OBVIOUS
    <2>2. PICK b \in Nat : b = base[i]
      BY <1>1
    <2>4. PICK f : f = at(i)
      OBVIOUS
    <2>5. f = RepairAt(s, b)
      BY <2>2, <2>4
    <2> HIDE DEF at
    <2>6. /\ f # 0 => \E r \in K : M[r].apt = b /\ s[f].pt = M[r].pt
          /\ f = 0 => \A r \in K : M[r].apt # b
      BY <2>5, RepairOfOne
    <2>7. QED
      BY <2>2, <2>4, <2>6
  <1>3. AppendRtxPayloads(s, base) = base \o rtx
    <2>1. seqs = [i \in DOMAIN base |-> IF at(i) = 0 THEN << >> ELSE << s[at(i)].pt >>]
      <3> HIDE DEF at
      <3>1. QED
        BY <1>1
    <2>a. seqs = [i \in DOMAIN base |->
                    LET f == SelectInSubSeq(s, 1, Len(s),
                                            LAMBDA l : l.key = "fmtp" /\ l.apt = base[i])
                    IN  IF f = 0 THEN << >> ELSE << s[f].pt >>]
      BY <2>1 DEF RepairAt
    <2> HIDE DEF seqs
    <2>2. QED
      BY <2>a DEF AppendRtxPayloads
  <1> HIDE DEF at
  <1>4. \A r \in K : r \in Rows(type) /\ M[r].pt \in Nat
    BY PayloadsAre DEF Kept
  <1>5. e \in [T -> Nat] /\ \A i \in T : e[i] = s[at(i)].pt
    <2>1. \A i \in T : s[at(i)].pt \in Nat
      BY <1>2, <1>4
    <2>2. QED
      BY <2>1
  <1>6. rtx \in Seq(Nat) /\ \E pos : Chosen(rtx, T, e, pos)
    <2>1. T \in SUBSET (1..n) /\ n \in Nat /\ e \in [T -> Nat]
      BY <1>1, <1>5
    <2>2. seqs = [i \in 1..n |-> IF i \in T THEN << e[i] >> ELSE << >>]
      OBVIOUS
    <2> HIDE DEF T, e, seqs, n
    <2>3. QED
      BY <2>1, <2>2, FilterIs
  <1>7. PICK from : Chosen(rtx, T, e, from)
    BY <1>6
  <1>8. /\ from \in [1..Len(rtx) -> T]
        /\ \A j \in 1..Len(rtx) : rtx[j] = e[from[j]]
        /\ \A j, k \in 1..Len(rtx) : j < k => from[j] < from[k]
        /\ \A i \in T : \E j \in 1..Len(rtx) : from[j] = i
    BY <1>7 DEF Chosen
  <1>9. T \subseteq 1..n
    OBVIOUS
  <1>a. \A i \in T : \E r \in K : M[r].apt = base[i] /\ s[at(i)].pt = M[r].pt
    BY <1>2
  <1>b. \A i \in 1..n : \A r \in K : M[r].apt = base[i] => i \in T
    BY <1>2
  <1> HIDE DEF rtx, e, seqs, T, K
  <1> DEFINE row == [j \in 1..Len(rtx) |->
                       CHOOSE r \in K : M[r].apt = base[from[j]] /\ s[at(from[j])].pt = M[r].pt]
  <1>10. ASSUME NEW j \in 1..Len(rtx)
         PROVE  row[j] \in K /\ rtx[j] = M[row[j]].pt /\ base[from[j]] = M[row[j]].apt
    <2>1. from[j] \in T /\ rtx[j] = e[from[j]]
      BY <1>8
    <2>2. rtx[j] = s[at(from[j])].pt
      BY <2>1, <1>5
    <2>3. \E r \in K : M[r].apt = base[from[j]] /\ s[at(from[j])].pt = M[r].pt
      BY <2>1, <1>a
    <2>4. QED
      BY <2>2, <2>3
  <1>11. row \in [1..Len(rtx) -> K]
    BY <1>10
  <1> HIDE DEF row
  <1>12. from \in [1..Len(rtx) -> 1..n]
    BY <1>8, <1>9
  <1>13. \A j, k \in 1..Len(rtx) : from[j] = from[k] => j = k
    <2>1. SUFFICES ASSUME NEW j \in 1..Len(rtx), NEW k \in 1..Len(rtx), from[j] = from[k]
                   PROVE  j = k
      OBVIOUS
    <2>2. from[j] \in 1..n /\ from[k] \in 1..n
      BY <1>12
    <2>a. Len(rtx) \in Nat /\ j \in Nat /\ k \in Nat
      BY <1>6
    <2>4. (j < k => from[j] < from[k]) /\ (k < j => from[k] < from[j])
      BY <1>8
    <2>3. ~(from[j] < from[k]) /\ ~(from[k] < from[j])
      <3>1. PICK p \in 1..n : p = from[j] /\ p = from[k]
        BY <2>1, <2>2
      <3>2. QED
        BY <3>1, <1>1
    <2>5. QED
      BY <2>a, <2>3, <2>4
  <1>14. \A p \in 1..n : \A r \in K : M[r].apt = base[p] => \E j \in 1..Len(rtx) : from[j] = p
    BY <1>b, <1>8
  <1>15. QED
    <2>1. Repairs(rtx, base, type, K, from, row)
      BY <1>10, <1>11, <1>12, <1>13, <1>14 DEF Repairs
    <2>2. QED
      BY <1>3, <1>6, <2>1 DEF K

\* The list of reorderCodecs: it keeps what it must, and repairs go with what they repair.
LEMMA ListIs ==
  ASSUME NEW type \in Types, NEW m, NEW s, NEW pts, Whole(s, type, m, pts),
         NEW wanted, NEW base \in Seq(Nat),
         Collected(base, type, Kept(type, pts), wanted),
         \A i \in Rows(type) : Media[type][i].apt # None =>
           Media[type][i].codec \notin ToSet(wanted)
  PROVE  /\ AppendRtxPayloads(s, base) \in Seq(Nat)
         /\ Followed(AppendRtxPayloads(s, base), type, Kept(type, pts), wanted)
  <1> DEFINE M == Media[type]
             K == Kept(type, pts)
             W == Asked(type, K, wanted)
             all == AppendRtxPayloads(s, base)
  <1>1. PICK rtx \in Seq(Nat) : /\ all = base \o rtx
                                /\ \E from, row : Repairs(rtx, base, type, K, from, row)
    BY RepairsAre
  <1>a. PICK from, row : Repairs(rtx, base, type, K, from, row)
    BY <1>1
  <1>2. /\ all = base \o rtx
        /\ from \in [1..Len(rtx) -> 1..Len(base)] /\ row \in [1..Len(rtx) -> K]
        /\ \A j \in 1..Len(rtx) : rtx[j] = M[row[j]].pt /\ base[from[j]] = M[row[j]].apt
        /\ \A j, k \in 1..Len(rtx) : from[j] = from[k] => j = k
        /\ \A p \in 1..Len(base) : \A r \in K :
             M[r].apt = base[p] => \E j \in 1..Len(rtx) : from[j] = p
    BY <1>1, <1>a DEF Repairs
  <1>3. /\ \A i \in K : i \in Rows(type) /\ M[i].pt \in Nat
        /\ \A i \in W : i \in K /\ M[i].codec \in ToSet(wanted)
        /\ \A i, j \in K : M[i].pt = M[j].pt => i = j
        /\ \A i, j \in K : M[i].apt = M[j].apt /\ M[i].apt # None => i = j
    BY PayloadsAre DEF Kept, Asked
  <1>4. /\ \A x : x \in ToSet(base) <=> \E i \in W : M[i].pt = x
        /\ InOrder(base, type, K, wanted)
        /\ Single(wanted) => Single(base)
    BY DEF Collected
  <1>5. /\ Len(base) \in Nat /\ Len(rtx) \in Nat /\ \A p \in 1..Len(base) : base[p] \in Nat
    OBVIOUS
  <1>w. \A i \in K : M[i].apt # None => i \notin W
    BY <1>3
  <1> HIDE DEF all, K, W, M
  <1>6. /\ all \in Seq(Nat) /\ Len(all) = Len(base) + Len(rtx)
        /\ \A i \in 1..(Len(base) + Len(rtx)) :
             all[i] = IF i <= Len(base) THEN base[i] ELSE rtx[i - Len(base)]
    BY <1>2, ConcatProperties
  <1>7. /\ \A p \in 1..Len(base) : p \in 1..Len(all) /\ all[p] = base[p]
        /\ \A j \in 1..Len(rtx) : Len(base) + j \in 1..Len(all) /\ all[Len(base) + j] = rtx[j]
        /\ \A i \in 1..Len(all) : \/ i \in 1..Len(base)
                                  \/ \E j \in 1..Len(rtx) : i = Len(base) + j
    <2>1. \A p \in 1..Len(base) : p \in 1..(Len(base) + Len(rtx)) /\ p <= Len(base)
      BY <1>5
    <2>2. \A j \in 1..Len(rtx) : Len(base) + j \in 1..(Len(base) + Len(rtx))
             /\ ~(Len(base) + j <= Len(base)) /\ (Len(base) + j) - Len(base) = j
      BY <1>5
    <2>3. \A i \in 1..(Len(base) + Len(rtx)) : i \in 1..Len(base)
             \/ (i - Len(base) \in 1..Len(rtx) /\ i = Len(base) + (i - Len(base)))
      BY <1>5
    <2>4. QED
      BY <1>6, <2>1, <2>2, <2>3
  <1>8. ASSUME NEW j \in 1..Len(rtx)
        PROVE  /\ row[j] \in K /\ rtx[j] = M[row[j]].pt /\ base[from[j]] = M[row[j]].apt
               /\ from[j] \in 1..Len(base) /\ M[row[j]].apt # None /\ row[j] \notin W
    <2>1. /\ row[j] \in K /\ rtx[j] = M[row[j]].pt /\ base[from[j]] = M[row[j]].apt
          /\ from[j] \in 1..Len(base)
      BY <1>2
    <2>2. M[row[j]].apt # None
      BY <2>1, <1>5 DEF None
    <2>3. QED
      BY <2>1, <2>2, <1>w
  <1>9. ASSUME NEW x
        PROVE  x \in ToSet(all) <=>
                 \E i \in K : M[i].pt = x /\ (i \in W \/ \E d \in W : M[i].apt = M[d].pt)
    <2>1. ASSUME NEW p \in 1..Len(all), all[p] = x
          PROVE  \E i \in K : M[i].pt = x /\ (i \in W \/ \E d \in W : M[i].apt = M[d].pt)
      <3>1. CASE p \in 1..Len(base)
        <4>1. x \in ToSet(base)
          BY <2>1, <3>1, <1>7, InList
        <4>2. QED
          BY <4>1, <1>4, <1>3
      <3>2. CASE \E j \in 1..Len(rtx) : p = Len(base) + j
        <4>1. PICK j \in 1..Len(rtx) : p = Len(base) + j
          BY <3>2
        <4>2. row[j] \in K /\ M[row[j]].pt = x /\ base[from[j]] = M[row[j]].apt
              /\ from[j] \in 1..Len(base)
          BY <4>1, <2>1, <1>7, <1>8
        <4>3. base[from[j]] \in ToSet(base)
          BY <4>2, InList
        <4>4. PICK d \in W : M[d].pt = M[row[j]].apt
          BY <4>2, <4>3, <1>4
        <4>5. QED
          BY <4>2, <4>4
      <3>3. QED
        BY <3>1, <3>2, <1>7
    <2>2. ASSUME NEW i \in K, M[i].pt = x, i \in W
          PROVE  \E p \in 1..Len(all) : all[p] = x
      <3>1. x \in ToSet(base)
        BY <2>2, <1>4
      <3>2. PICK p \in 1..Len(base) : base[p] = x
        BY <3>1, InList
      <3>3. QED
        BY <3>2, <1>7
    <2>3. ASSUME NEW i \in K, M[i].pt = x, NEW d \in W, M[i].apt = M[d].pt
          PROVE  \E p \in 1..Len(all) : all[p] = x
      <3>1. M[d].pt \in ToSet(base)
        BY <1>4
      <3>2. PICK p \in 1..Len(base) : base[p] = M[d].pt
        BY <3>1, InList
      <3>3. PICK j \in 1..Len(rtx) : from[j] = p
        BY <3>2, <2>3, <1>2
      <3>4. M[row[j]].apt = M[i].apt /\ M[row[j]].apt # None /\ row[j] \in K
        BY <2>3, <3>2, <3>3, <1>8
      <3>5. row[j] = i
        BY <3>4, <1>3
      <3>6. all[Len(base) + j] = x /\ Len(base) + j \in 1..Len(all)
        BY <3>5, <2>3, <1>7, <1>8
      <3>7. QED
        BY <3>6
    <2>4. x \in ToSet(all) <=> \E p \in 1..Len(all) : all[p] = x
      BY <1>6, InList
    <2>5. QED
      BY <2>1, <2>2, <2>3, <2>4
  <1>10. InOrder(all, type, K, wanted)
    BY <1>4, <1>7 DEF InOrder
  <1>11. ASSUME Single(wanted) PROVE Single(all)
    <2>1. \A p, q \in 1..Len(base) : base[p] = base[q] => p = q
      BY <1>4, <1>11 DEF Single
    <2>2. ASSUME NEW p \in 1..Len(base), NEW j \in 1..Len(rtx) PROVE base[p] # rtx[j]
      <3>1. base[p] \in ToSet(base)
        BY InList
      <3>2. PICK i \in W : M[i].pt = base[p]
        BY <3>1, <1>4
      <3>3. row[j] \in K /\ row[j] \notin W /\ rtx[j] = M[row[j]].pt
        BY <1>8
      <3>4. M[i].pt # M[row[j]].pt
        BY <3>2, <3>3, <1>3
      <3>5. QED
        BY <3>2, <3>3, <3>4
    <2>3. ASSUME NEW j \in 1..Len(rtx), NEW k \in 1..Len(rtx), rtx[j] = rtx[k] PROVE j = k
      <3>a. /\ row[j] \in K /\ rtx[j] = M[row[j]].pt
            /\ row[k] \in K /\ rtx[k] = M[row[k]].pt
        BY <1>8
      <3>1. row[j] = row[k]
        BY <2>3, <3>a, <1>3
      <3>b. /\ from[j] \in 1..Len(base) /\ base[from[j]] = M[row[j]].apt
            /\ from[k] \in 1..Len(base) /\ base[from[k]] = M[row[k]].apt
        BY <1>8
      <3>2. from[j] = from[k]
        BY <3>1, <3>b, <2>1
      <3>3. QED
        BY <3>2, <1>2
    <2>4. ASSUME NEW p \in 1..Len(all), NEW q \in 1..Len(all), all[p] = all[q] PROVE p = q
      <3>1. CASE p \in 1..Len(base) /\ q \in 1..Len(base)
        BY <3>1, <2>1, <2>4, <1>7
      <3>2. CASE p \in 1..Len(base) /\ \E j \in 1..Len(rtx) : q = Len(base) + j
        BY <3>2, <2>2, <2>4, <1>7
      <3>3. CASE q \in 1..Len(base) /\ \E j \in 1..Len(rtx) : p = Len(base) + j
        BY <3>3, <2>2, <2>4, <1>7
      <3>4. CASE /\ \E j \in 1..Len(rtx) : p = Len(base) + j
                 /\ \E j \in 1..Len(rtx) : q = Len(base) + j
        <4>1. PICK j \in 1..Len(rtx) : p = Len(base) + j
          BY <3>4
        <4>2. PICK k \in 1..Len(rtx) : q = Len(base) + k
          BY <3>4
        <4>3. rtx[j] = rtx[k]
          BY <4>1, <4>2, <2>4, <1>7
        <4>4. j = k
          BY <4>3, <2>3
        <4>5. QED
          BY <4>1, <4>2, <4>4
      <3>5. QED
        BY <3>1, <3>2, <3>3, <3>4, <1>7
    <2>5. QED
      BY <2>4 DEF Single
  <1>12. Followed(all, type, K, wanted)
    BY <1>9, <1>10, <1>11 DEF Followed, M, W
  <1>13. QED
    BY <1>6, <1>12 DEF all, K

\* Whatever is listed then is a payload of the section, and repairs go with what they repair.
LEMMA ListIsClosed ==
  ASSUME NEW type \in Types, NEW m, NEW s, NEW pts, Whole(s, type, m, pts),
         NEW wanted, NEW all \in Seq(Nat), Followed(all, type, Kept(type, pts), wanted),
         \A i \in Rows(type) : Media[type][i].apt # None =>
           Media[type][i].codec \notin ToSet(wanted)
  PROVE  /\ ToSet(all) \subseteq ToSet(pts)
         /\ \A i \in Rows(type) : Media[type][i].apt # None =>
              (Media[type][i].pt \in ToSet(all) <=> Media[type][i].apt \in ToSet(all))
  <1> DEFINE M == Media[type]
             K == Kept(type, pts)
             W == Asked(type, K, wanted)
             R == Rows(type)
  <1>1. \A x : x \in ToSet(all) <=>
          \E i \in K : M[i].pt = x /\ (i \in W \/ \E d \in W : M[i].apt = M[d].pt)
    BY DEF Followed
  <1>2. /\ \A i \in K : i \in R /\ M[i].pt \in ToSet(pts)
        /\ \A i \in R : M[i].pt \in ToSet(pts) => i \in K
        /\ \A i \in W : i \in K /\ M[i].codec \in ToSet(wanted)
    BY DEF Kept, Asked
  <1>3. /\ \A i, j \in R : M[i].pt = M[j].pt => i = j
        /\ \A i \in R : M[i].apt # None => \E j \in R : M[j].pt = M[i].apt /\ M[j].apt = None
        /\ \A i \in R : M[i].pt \in Nat
    BY PayloadsAre
  <1>4. \A i \in R : M[i].apt # None => (M[i].pt \in ToSet(pts) <=> M[i].apt \in ToSet(pts))
    BY DEF Whole
  <1>w. \A i \in R : M[i].apt # None => i \notin W
    BY <1>2
  <1> HIDE DEF K, W, R, M
  <1>5. ToSet(all) \subseteq ToSet(pts)
    BY <1>1, <1>2
  <1>6. ASSUME NEW i \in R, M[i].apt # None, M[i].pt \in ToSet(all)
        PROVE  M[i].apt \in ToSet(all)
    <2>1. PICK j \in K : M[j].pt = M[i].pt /\ (j \in W \/ \E d \in W : M[j].apt = M[d].pt)
      BY <1>1, <1>6
    <2>2. j = i
      BY <2>1, <1>2, <1>3
    <2>3. PICK d \in W : M[i].apt = M[d].pt
      BY <2>1, <2>2, <1>6, <1>w
    <2>4. QED
      BY <2>3, <1>1, <1>2
  <1>7. ASSUME NEW i \in R, M[i].apt # None, M[i].apt \in ToSet(all)
        PROVE  M[i].pt \in ToSet(all)
    <2>1. PICK j \in K : M[j].pt = M[i].apt /\ (j \in W \/ \E d \in W : M[j].apt = M[d].pt)
      BY <1>1, <1>7
    <2>2. PICK k \in R : M[k].pt = M[i].apt /\ M[k].apt = None
      BY <1>3, <1>7
    <2>3. j = k
      BY <2>1, <2>2, <1>2, <1>3
    <2>4. \A d \in W : M[d].pt \in Nat
      BY <1>2, <1>3
    <2>5. j \in W
      BY <2>1, <2>2, <2>3, <2>4 DEF None
    <2>6. i \in K
      BY <2>1, <1>2, <1>4, <1>7
    <2>7. QED
      BY <2>1, <2>5, <2>6, <1>1
  <1>8. QED
    BY <1>5, <1>6, <1>7 DEF R, M

\* A payload is listed if and only if the one it repairs is.
Closed(type, pts) ==
  \A i \in Rows(type) : Media[type][i].apt # None =>
    (Media[type][i].pt \in ToSet(pts) <=> Media[type][i].apt \in ToSet(pts))

\* List t is what of the whole section s speaks of the payloads in new, behind an m-line that
\* lists them: line j of it was line pos[j].
Reduced(t, s, new, pos) ==
  /\ t \in Seq(Lines) /\ Len(t) >= 2
  /\ t[2] = s[2]
  /\ \A j \in 3..Len(t) : pos[j] \in 3..Len(s) /\ t[j] = s[pos[j]] /\ s[pos[j]].pt \in ToSet(new)
  /\ \A j, k \in 3..Len(t) : j < k => pos[j] < pos[k]
  /\ \A k \in 3..Len(s) : s[k].pt \in ToSet(new) => \E j \in 3..Len(t) : pos[j] = k

\* removeCodecFramALine, of all that is no longer listed.
LEMMA RemoveReduces ==
  ASSUME NEW type \in Types, NEW m, NEW s, NEW pts, Whole(s, type, m, pts), NEW new \in Seq(Nat)
  PROVE  LET t == RemoveCodecs([s EXCEPT ![1].pts = new], ToSet(pts) \ ToSet(new))
         IN  t[1] = MLine(type, new) /\ \E pos : Reduced(t, s, new, pos)
  <1> DEFINE n == Len(s)
             out == ToSet(pts) \ ToSet(new)
             u == [s EXCEPT ![1].pts = new]
             t == RemoveCodecs(u, out)
             T == {k \in 1..n : ~(u[k].key \in {"rtpmap", "rtcp-fb", "fmtp"} /\ u[k].pt \in out)}
             e == [k \in T |-> u[k]]
             seqs == [k \in 1..n |-> IF k \in T THEN << e[k] >> ELSE << >>]
  <1>1. /\ n \in Nat /\ n >= 2 /\ DOMAIN s = 1..n /\ s \in Seq(Lines)
        /\ s[1] = MLine(type, pts) /\ s[2] = MidLine(m)
    BY DEF Whole
  <1>2. DOMAIN u = 1..n /\ u[1] = MLine(type, new) /\ \A k \in 2..n : u[k] = s[k]
    <2>1. u[1] = [s[1] EXCEPT !.pts = new]
      BY <1>1
    <2>2. u[1] = MLine(type, new)
      BY <2>1, <1>1 DEF MLine
    <2>3. QED
      BY <1>1, <2>2
  <1> HIDE DEF u
  <1>3. \A k \in 1..n : u[k] \in Lines
    <2>1. MLine(type, new) \in Lines
      BY DEF Lines
    <2>2. \A k \in 1..n : s[k] \in Lines
      BY <1>1
    <2>3. QED
      BY <1>1, <1>2, <2>1, <2>2
  <1>4. ASSUME NEW k \in 3..n
        PROVE  k \in T <=> s[k].pt \in ToSet(new)
    <2>1. PICK i \in Kept(type, pts) : Speaks(s[k], Media[type][i])
      BY DEF Whole
    <2>2. s[k].key \in {"rtpmap", "rtcp-fb", "fmtp"} /\ s[k].pt \in ToSet(pts)
      BY <2>1, SpeakingLines DEF Kept, Attributes
    <2>3. k \in 1..n /\ u[k] = s[k]
      BY <1>1, <1>2
    <2>4. QED
      BY <2>2, <2>3
  <1>5. 1 \in T /\ 2 \in T
    <2>1. u[1].key = "m" /\ u[2].key = "mid"
      BY <1>1, <1>2 DEF MLine, MidLine
    <2>2. QED
      BY <2>1, <1>1
  <1>6. e \in [T -> Lines] /\ \A k \in T : e[k] = u[k]
    BY <1>3
  <1>7. t = FlattenSeq(seqs)
    <2>1. seqs = [k \in DOMAIN u |->
                    IF u[k].key \in {"rtpmap", "rtcp-fb", "fmtp"} /\ u[k].pt \in out
                    THEN << >> ELSE << u[k] >>]
      BY <1>2
    <2> HIDE DEF seqs, out
    <2>2. QED
      BY <2>1 DEF RemoveCodecs
  <1>t. T \in SUBSET (1..n)
    OBVIOUS
  <1>s. seqs = [i \in 1..n |-> IF i \in T THEN << e[i] >> ELSE << >>]
    OBVIOUS
  <1> HIDE DEF t, T, e, seqs, out
  <1>8. t \in Seq(Lines) /\ \E pos : Chosen(t, T, e, pos)
    <2>1. FlattenSeq(seqs) \in Seq(Lines) /\ \E pos : Chosen(FlattenSeq(seqs), T, e, pos)
      <3> HIDE DEF n
      <3>1. QED
        BY <1>1, <1>t, <1>s, <1>6, FilterIs
    <2>2. QED
      BY <2>1, <1>7
  <1>9. PICK pos : Chosen(t, T, e, pos)
    BY <1>8
  <1>10. /\ pos \in [1..Len(t) -> T]
         /\ \A j \in 1..Len(t) : t[j] = e[pos[j]]
         /\ \A j, k \in 1..Len(t) : j < k => pos[j] < pos[k]
         /\ \A i \in T : \E j \in 1..Len(t) : pos[j] = i
    BY <1>9 DEF Chosen
  <1>11. Len(t) \in Nat /\ \A j \in 1..Len(t) : pos[j] \in 1..n /\ pos[j] \in T
    <2>1. Len(t) \in Nat
      BY <1>8
    <2>2. \A j \in 1..Len(t) : pos[j] \in T
      BY <1>10
    <2>3. QED
      BY <2>1, <2>2, <1>t
  <1>12. 1 \in 1..Len(t) /\ pos[1] = 1
    <2>1. PICK j \in 1..Len(t) : pos[j] = 1
      BY <1>5, <1>10
    <2>2. 1 \in 1..Len(t) /\ pos[1] \in 1..n
      BY <1>11
    <2>3. 1 < j => pos[1] < 1
      BY <2>1, <2>2, <1>10
    <2>4. ~(1 < j)
      BY <2>2, <2>3
    <2>5. j = 1
      BY <2>4, <1>11
    <2>6. QED
      BY <2>1, <2>2, <2>5
  <1>13. 2 \in 1..Len(t) /\ pos[2] = 2
    <2>1. PICK j \in 1..Len(t) : pos[j] = 2
      BY <1>5, <1>10
    <2>2. j # 1
      BY <2>1, <1>12
    <2>3. 2 \in 1..Len(t)
      BY <2>2, <1>11
    <2>4. pos[2] \in 1..n /\ pos[1] < pos[2]
      BY <2>3, <1>11, <1>10, <1>12
    <2>5. 2 < j => pos[2] < 2
      BY <2>1, <2>3, <1>10
    <2>6. ~(2 < j)
      BY <2>4, <2>5, <1>12
    <2>7. j = 2
      BY <2>2, <2>6, <1>11
    <2>8. QED
      BY <2>1, <2>3, <2>7
  <1>14. ASSUME NEW j \in 3..Len(t)
         PROVE  pos[j] \in 3..n /\ t[j] = s[pos[j]] /\ s[pos[j]].pt \in ToSet(new)
    <2>1. j \in 1..Len(t) /\ 2 < j
      BY <1>11
    <2>2. pos[2] < pos[j] /\ pos[j] \in 1..n /\ pos[j] \in T /\ t[j] = e[pos[j]]
      BY <2>1, <1>10, <1>11, <1>13
    <2>3. PICK p \in 1..n : p = pos[j]
      BY <2>2
    <2>4. p \in 3..n /\ p \in 2..n
      BY <2>2, <2>3, <1>13, <1>1
    <2>5. t[j] = s[p]
      BY <2>2, <2>3, <2>4, <1>2, <1>6
    <2>6. QED
      BY <2>2, <2>3, <2>4, <2>5, <1>4
  <1>15. ASSUME NEW k \in 3..n, s[k].pt \in ToSet(new)
         PROVE  \E j \in 3..Len(t) : pos[j] = k
    <2>1. PICK j \in 1..Len(t) : pos[j] = k
      BY <1>4, <1>10, <1>15
    <2>2. j # 1 /\ j # 2
      BY <2>1, <1>12, <1>13
    <2>3. j \in 3..Len(t)
      BY <2>2, <1>11
    <2>4. QED
      BY <2>1, <2>3
  <1>16. \A j, k \in 3..Len(t) : j < k => pos[j] < pos[k]
    BY <1>10, <1>11
  <1>17. t[1] = MLine(type, new) /\ t[2] = s[2] /\ Len(t) >= 2
    <2>1. t[1] = e[1] /\ t[2] = e[2]
      BY <1>10, <1>12, <1>13
    <2>2. Len(t) >= 2
      BY <1>13, <1>11
    <2>3. QED
      BY <2>1, <2>2, <1>1, <1>2, <1>5, <1>6
  <1>18. Reduced(t, s, new, pos)
    BY <1>8, <1>14, <1>15, <1>16, <1>17 DEF Reduced
  <1>19. QED
    BY <1>17, <1>18 DEF t, u, out

\* Such a section is whole.
LEMMA ReducedWhole ==
  ASSUME NEW type \in Types, NEW m, NEW s, NEW pts, Whole(s, type, m, pts), NEW new \in Seq(Nat),
         ToSet(new) \subseteq ToSet(pts), Closed(type, new),
         NEW t, NEW pos, t[1] = MLine(type, new), Reduced(t, s, new, pos)
  PROVE  /\ Whole(t, type, m, new)
         /\ \A k \in 3..Len(t) : \E l \in 3..Len(s) : t[k] = s[l]
  <1> DEFINE M == Media[type]
             n == Len(s)
             K == Kept(type, new)
  <1>1. /\ n \in Nat /\ s[2] = MidLine(m)
        /\ \A k \in 3..n : \E i \in Kept(type, pts) : Speaks(s[k], M[i])
        /\ \A i \in Kept(type, pts) :
             /\ \E k \in 3..n : s[k] = Rtpmap(M[i])
             /\ M[i].fmtp => \E k \in 3..n : \E rate \in Nat : s[k] = Fmtp(M[i], rate)
        /\ \A x \in ToSet(pts) : \E i \in Rows(type) : M[i].pt = x
    BY DEF Whole
  <1>2. /\ \A j, k \in 3..n : \A p, q \in Rows(type) :
             j < k /\ s[j] = Rtpmap(M[p]) /\ s[k] = Rtpmap(M[q]) => p < q
        /\ \A j, k \in 3..n :
             s[j].key = "fmtp" /\ s[k].key = "fmtp" /\ s[j].pt = s[k].pt => j = k
    BY DEF Whole
  <1>3. /\ t \in Seq(Lines) /\ Len(t) >= 2 /\ t[2] = s[2]
        /\ \A j \in 3..Len(t) : pos[j] \in 3..n /\ t[j] = s[pos[j]] /\ s[pos[j]].pt \in ToSet(new)
        /\ \A j, k \in 3..Len(t) : j < k => pos[j] < pos[k]
        /\ \A k \in 3..n : s[k].pt \in ToSet(new) => \E j \in 3..Len(t) : pos[j] = k
    BY DEF Reduced
  <1>4. Len(t) \in Nat
    BY <1>3
  <1>5. /\ \A i \in K : i \in Kept(type, pts) /\ M[i].pt \in ToSet(new)
        /\ \A i \in Kept(type, pts) : M[i].pt \in ToSet(new) => i \in K
    BY DEF Kept
  <1> HIDE DEF K, M, n
  <1>6. \A k \in 3..Len(t) : \E i \in K : Speaks(t[k], M[i])
    <2>1. SUFFICES ASSUME NEW k \in 3..Len(t)
                   PROVE  \E i \in K : Speaks(t[k], M[i])
      OBVIOUS
    <2>2. pos[k] \in 3..n /\ t[k] = s[pos[k]] /\ t[k].pt \in ToSet(new)
      BY <1>3
    <2>3. PICK i \in Kept(type, pts) : Speaks(t[k], M[i])
      BY <2>2, <1>1
    <2>4. t[k].pt = M[i].pt
      BY <2>3, SpeakingLines
    <2>5. QED
      BY <2>2, <2>3, <2>4, <1>5
  <1>7. ASSUME NEW i \in K
        PROVE  /\ \E k \in 3..Len(t) : t[k] = Rtpmap(M[i])
               /\ M[i].fmtp => \E k \in 3..Len(t) : \E rate \in Nat : t[k] = Fmtp(M[i], rate)
    <2>1. i \in Kept(type, pts) /\ M[i].pt \in ToSet(new)
      BY <1>5
    <2>2. PICK k \in 3..n : s[k] = Rtpmap(M[i])
      BY <2>1, <1>1
    <2>3. s[k].pt = M[i].pt
      BY <2>2, LinesOfPayloads
    <2>4. PICK j \in 3..Len(t) : pos[j] = k
      BY <2>1, <2>3, <1>3
    <2>5. t[j] = Rtpmap(M[i])
      BY <2>2, <2>4, <1>3
    <2>6. ASSUME M[i].fmtp PROVE \E l \in 3..Len(t) : \E rate \in Nat : t[l] = Fmtp(M[i], rate)
      <3>1. PICK l \in 3..n : \E rate \in Nat : s[l] = Fmtp(M[i], rate)
        BY <2>1, <2>6, <1>1
      <3>2. PICK rate \in Nat : s[l] = Fmtp(M[i], rate)
        BY <3>1
      <3>3. s[l].pt = M[i].pt
        BY <3>2, LinesOfPayloads
      <3>4. PICK h \in 3..Len(t) : pos[h] = l
        BY <2>1, <3>3, <1>3
      <3>5. t[h] = Fmtp(M[i], rate)
        BY <3>2, <3>4, <1>3
      <3>6. QED
        BY <3>5
    <2>7. QED
      BY <2>5, <2>6
  <1>8. \A x \in ToSet(new) : \E i \in Rows(type) : M[i].pt = x
    BY <1>1
  <1>9. \A j, k \in 3..Len(t) : \A p, q \in Rows(type) :
          j < k /\ t[j] = Rtpmap(M[p]) /\ t[k] = Rtpmap(M[q]) => p < q
    <2>1. SUFFICES ASSUME NEW j \in 3..Len(t), NEW k \in 3..Len(t), j < k,
                          NEW p \in Rows(type), NEW q \in Rows(type),
                          t[j] = Rtpmap(M[p]), t[k] = Rtpmap(M[q])
                   PROVE  p < q
      OBVIOUS
    <2>2. /\ pos[j] \in 3..n /\ s[pos[j]] = Rtpmap(M[p])
          /\ pos[k] \in 3..n /\ s[pos[k]] = Rtpmap(M[q]) /\ pos[j] < pos[k]
      BY <2>1, <1>3
    <2>3. QED
      BY <2>2, <1>2
  <1>10. \A j, k \in 3..Len(t) :
           t[j].key = "fmtp" /\ t[k].key = "fmtp" /\ t[j].pt = t[k].pt => j = k
    <2>1. SUFFICES ASSUME NEW j \in 3..Len(t), NEW k \in 3..Len(t),
                          t[j].key = "fmtp", t[k].key = "fmtp", t[j].pt = t[k].pt
                   PROVE  j = k
      OBVIOUS
    <2>2. pos[j] \in 3..n /\ t[j] = s[pos[j]] /\ pos[k] \in 3..n /\ t[k] = s[pos[k]]
      BY <1>3
    <2>3. pos[j] = pos[k]
      BY <2>1, <2>2, <1>2
    <2>4. (j < k => pos[j] < pos[k]) /\ (k < j => pos[k] < pos[j])
      BY <1>3
    <2>5. PICK p \in 3..n : p = pos[j] /\ p = pos[k]
      BY <2>2, <2>3
    <2>6. ~(p < p)
      BY <1>1
    <2>7. QED
      BY <2>4, <2>5, <2>6, <1>4
  <1>11. Whole(t, type, m, new)
    BY <1>1, <1>3, <1>6, <1>7, <1>8, <1>9, <1>10 DEF Whole, Closed, K, M, n
  <1>12. QED
    BY <1>3, <1>11 DEF n

\* Where reorderCodecs looks for the m-line of a type.
MLineAt(s, type) == SelectInSubSeq(s, 1, Len(s), LAMBDA l : IsM(l) /\ l.type = type)

\* The first line of a section is its only m-line.
LEMMA MLineIs ==
  ASSUME NEW type \in Types, NEW m, NEW s, NEW pts, Whole(s, type, m, pts), NEW other
  PROVE  MLineAt(s, other) = IF other = type THEN 1 ELSE 0
  <1> DEFINE A == {k \in 1..Len(s) : IsM(s[k]) /\ s[k].type = other}
  <1>1. MLineAt(s, other) = IF A # {} THEN Min(A) ELSE 0
    BY DEF MLineAt, SelectInSubSeq
  <1>a. Len(s) \in Nat /\ Len(s) >= 2 /\ s[1] = MLine(type, pts)
    BY DEF Whole
  <1>b. \A k \in 1..Len(s) : IsM(s[k]) => k = 1
    BY WholeLines
  <1>2. /\ Len(s) \in Nat /\ Len(s) >= 2 /\ s[1] = MLine(type, pts)
        /\ \A k \in 1..Len(s) : IsM(s[k]) => k = 1
    BY <1>a, <1>b
  <1>3. IsM(s[1]) /\ s[1].type = type
    BY <1>2 DEF IsM, MLine
  <1>4. CASE other = type
    <2>1. A = {1}
      BY <1>2, <1>3, <1>4
    <2> HIDE DEF A
    <2>2. Min(A) \in A
      BY <2>1, LeastOf
    <2>3. QED
      BY <1>1, <1>4, <2>1, <2>2
  <1>5. CASE other # type
    <2>1. A = {}
      BY <1>2, <1>3, <1>5
    <2>2. QED
      BY <1>1, <1>5, <2>1
  <1>6. QED
    BY <1>4, <1>5

\* A reorder for another type leaves a section as it is.
LEMMA OtherReorder ==
  ASSUME NEW type \in Types, NEW m, NEW s, NEW pts, Whole(s, type, m, pts),
         NEW other, other # type, NEW codecs
  PROVE  ReorderSection(s, other, codecs) = s
  <1>1. MLineAt(s, other) = 0
    BY MLineIs
  <1>2. ReorderSection(s, other, codecs) =
          LET at == MLineAt(s, other)
              wanted == codecs \o AllowList[other]
              all == AppendRtxPayloads(s,
                       FlattenSeq([i \in DOMAIN wanted |-> PayloadsOf(s, wanted[i])]))
          IN  IF at = 0 THEN s
              ELSE RemoveCodecs([s EXCEPT ![at].pts = all], ToSet(s[at].pts) \ ToSet(all))
    BY DEF ReorderSection, MLineAt
  <1>3. QED
    BY <1>1, <1>2

\* The codecs whose payloads reorderCodecs lists: those of the call, and the allowed ones.
Wanted(codecs, type) == codecs \o AllowList[type]

\* A reorder for the type of a section.
LEMMA ReorderIs ==
  ASSUME NEW type \in Types, NEW m, NEW s, NEW pts, Whole(s, type, m, pts),
         NEW codecs, NEW S, Wanted(codecs, type) \in Seq(S),
         \A i \in Rows(type) : Media[type][i].apt # None =>
           Media[type][i].codec \notin ToSet(Wanted(codecs, type))
  PROVE  LET t == ReorderSection(s, type, codecs)
         IN  \E new : /\ Whole(t, type, m, new)
                      /\ Followed(new, type, Kept(type, pts), Wanted(codecs, type))
                      /\ \A k \in 3..Len(t) : \E l \in 3..Len(s) : t[k] = s[l]
  <1> DEFINE wanted == Wanted(codecs, type)
             seqs == [i \in DOMAIN wanted |-> PayloadsOf(s, wanted[i])]
             base == FlattenSeq(seqs)
             all == AppendRtxPayloads(s, base)
             u == RemoveCodecs([s EXCEPT ![1].pts = all], ToSet(pts) \ ToSet(all))
             K == Kept(type, pts)
  <1>1. ReorderSection(s, type, codecs) = u
    <2>1. MLineAt(s, type) = 1
      BY MLineIs
    <2>2. s[1].pts = pts
      BY DEF Whole, MLine
    <2>3. ReorderSection(s, type, codecs) =
            LET at == MLineAt(s, type)
                new == AppendRtxPayloads(s,
                         FlattenSeq([i \in DOMAIN wanted |-> PayloadsOf(s, wanted[i])]))
            IN  IF at = 0 THEN s
                ELSE RemoveCodecs([s EXCEPT ![at].pts = new], ToSet(s[at].pts) \ ToSet(new))
      BY DEF ReorderSection, MLineAt, Wanted
    <2>4. ReorderSection(s, type, codecs) =
            RemoveCodecs([s EXCEPT ![1].pts = all], ToSet(s[1].pts) \ ToSet(all))
      BY <2>1, <2>3
    <2>5. QED
      BY <2>2, <2>4
  <1>2. seqs = [i \in DOMAIN wanted |-> PayloadsOf(s, wanted[i])]
    OBVIOUS
  <1> HIDE DEF seqs, wanted
  <1>h. wanted \in Seq(S) /\ \A i \in Rows(type) :
          Media[type][i].apt # None => Media[type][i].codec \notin ToSet(wanted)
    BY DEF wanted
  <1>3. base \in Seq(Nat) /\ Collected(base, type, K, wanted)
    BY <1>2, <1>h, BaseIs
  <1> HIDE DEF base
  <1>4. all \in Seq(Nat) /\ Followed(all, type, K, wanted)
    BY <1>3, <1>h, ListIs
  <1> HIDE DEF all
  <1>5. ToSet(all) \subseteq ToSet(pts) /\ Closed(type, all)
    BY <1>4, <1>h, ListIsClosed DEF Closed
  <1>6. u[1] = MLine(type, all) /\ \E pos : Reduced(u, s, all, pos)
    BY <1>4, RemoveReduces
  <1> HIDE DEF u
  <1>7. Whole(u, type, m, all) /\ \A k \in 3..Len(u) : \E l \in 3..Len(s) : u[k] = s[l]
    BY <1>4, <1>5, <1>6, ReducedWhole
  <1>8. QED
    BY <1>1, <1>4, <1>7 DEF wanted

\* Where setCodecParam looks for the parameters of a payload.
FmtpAt(s, p) == SelectInSubSeq(s, 1, Len(s), LAMBDA l : l.key = "fmtp" /\ p # << >> /\ l.pt = p[1])

\* Lists s and t say the same, but for the rates.
Alike(s, t, type, kept) ==
  /\ t \in Seq(Lines) /\ Len(t) = Len(s) /\ t[1] = s[1] /\ t[2] = s[2]
  /\ \A k \in 3..Len(s) :
       \/ t[k] = s[k]
       \/ \E i \in kept : \E old, new \in Nat :
            /\ Media[type][i].fmtp
            /\ s[k] = Fmtp(Media[type][i], old) /\ t[k] = Fmtp(Media[type][i], new)

\* A section that says the same is as whole.
LEMMA AlikeWhole ==
  ASSUME NEW type \in Types, NEW m, NEW s, NEW pts, Whole(s, type, m, pts),
         NEW t, Alike(s, t, type, Kept(type, pts))
  PROVE  Whole(t, type, m, pts)
  <1> DEFINE M == Media[type]
             n == Len(s)
             K == Kept(type, pts)
  <1>1. /\ n \in Nat /\ n >= 2 /\ pts \in Seq(Nat) /\ s[1] = MLine(type, pts) /\ s[2] = MidLine(m)
        /\ \A k \in 3..n : \E i \in K : Speaks(s[k], M[i])
        /\ \A i \in K : /\ \E k \in 3..n : s[k] = Rtpmap(M[i])
                        /\ M[i].fmtp => \E k \in 3..n : \E rate \in Nat : s[k] = Fmtp(M[i], rate)
        /\ \A x \in ToSet(pts) : \E i \in Rows(type) : M[i].pt = x
    BY DEF Whole
  <1>2. /\ \A j, k \in 3..n : \A p, q \in Rows(type) :
             j < k /\ s[j] = Rtpmap(M[p]) /\ s[k] = Rtpmap(M[q]) => p < q
        /\ \A j, k \in 3..n :
             s[j].key = "fmtp" /\ s[k].key = "fmtp" /\ s[j].pt = s[k].pt => j = k
        /\ \A i \in Rows(type) : M[i].apt # None =>
             (M[i].pt \in ToSet(pts) <=> M[i].apt \in ToSet(pts))
    BY DEF Whole
  <1>3. /\ t \in Seq(Lines) /\ Len(t) = n /\ t[1] = s[1] /\ t[2] = s[2]
        /\ \A k \in 3..n : \/ t[k] = s[k]
                           \/ \E i \in K : \E old, new \in Nat :
                                M[i].fmtp /\ s[k] = Fmtp(M[i], old) /\ t[k] = Fmtp(M[i], new)
    BY DEF Alike
  <1>4. \A i, j \in K : M[i].pt = M[j].pt => i = j
    BY PayloadsAre DEF Kept
  <1> HIDE DEF K, M, n
  <1>5. \A k \in 3..n : \E i \in K : Speaks(t[k], M[i])
    <2>1. SUFFICES ASSUME NEW k \in 3..n
                   PROVE  \E i \in K : Speaks(t[k], M[i])
      OBVIOUS
    <2>2. CASE t[k] = s[k]
      BY <2>2, <1>1
    <2>3. CASE \E i \in K : \E old, new \in Nat :
                 M[i].fmtp /\ s[k] = Fmtp(M[i], old) /\ t[k] = Fmtp(M[i], new)
      BY <2>3 DEF Speaks
    <2>4. QED
      BY <2>2, <2>3, <1>3
  <1>6. \A k \in 3..n : t[k].key = s[k].key /\ (s[k].key = "fmtp" => t[k].pt = s[k].pt)
                        /\ (s[k].key # "fmtp" => t[k] = s[k])
    <2>1. SUFFICES ASSUME NEW k \in 3..n
                   PROVE  t[k].key = s[k].key /\ (s[k].key = "fmtp" => t[k].pt = s[k].pt)
                          /\ (s[k].key # "fmtp" => t[k] = s[k])
      OBVIOUS
    <2>2. CASE \E i \in K : \E old, new \in Nat :
                 M[i].fmtp /\ s[k] = Fmtp(M[i], old) /\ t[k] = Fmtp(M[i], new)
      BY <2>2, LinesOfPayloads
    <2>3. QED
      BY <2>2, <1>3
  <1>7. ASSUME NEW i \in K
        PROVE  \E k \in 3..n : t[k] = Rtpmap(M[i])
    <2>1. PICK k \in 3..n : s[k] = Rtpmap(M[i])
      BY <1>1
    <2>2. s[k].key # "fmtp"
      BY <2>1, LinesOfPayloads
    <2>3. QED
      BY <2>1, <2>2, <1>6
  <1>8. ASSUME NEW i \in K, M[i].fmtp
        PROVE  \E k \in 3..n : \E rate \in Nat : t[k] = Fmtp(M[i], rate)
    <2>1. PICK k \in 3..n : \E rate \in Nat : s[k] = Fmtp(M[i], rate)
      BY <1>1, <1>8
    <2>2. PICK rate \in Nat : s[k] = Fmtp(M[i], rate)
      BY <2>1
    <2>3. CASE t[k] = s[k]
      BY <2>2, <2>3
    <2>4. CASE \E p \in K : \E old, new \in Nat :
                 M[p].fmtp /\ s[k] = Fmtp(M[p], old) /\ t[k] = Fmtp(M[p], new)
      <3>1. PICK p \in K : \E old, new \in Nat :
              M[p].fmtp /\ s[k] = Fmtp(M[p], old) /\ t[k] = Fmtp(M[p], new)
        BY <2>4
      <3>2. PICK old \in Nat, new \in Nat : s[k] = Fmtp(M[p], old) /\ t[k] = Fmtp(M[p], new)
        BY <3>1
      <3>a. Fmtp(M[p], old).pt = M[p].pt /\ Fmtp(M[i], rate).pt = M[i].pt
        BY LinesOfPayloads
      <3>3. M[p].pt = s[k].pt /\ M[i].pt = s[k].pt
        BY <2>2, <3>2, <3>a
      <3>4. p = i
        BY <3>3, <1>4
      <3>5. QED
        BY <3>2, <3>4
    <2>5. QED
      BY <2>3, <2>4, <1>3
  <1>9. \A j, k \in 3..n : \A p, q \in Rows(type) :
          j < k /\ t[j] = Rtpmap(M[p]) /\ t[k] = Rtpmap(M[q]) => p < q
    <2>1. \A k \in 3..n : \A p : t[k] = Rtpmap(M[p]) => s[k] = t[k]
      <3>1. \A p : Rtpmap(M[p]).key # "fmtp"
        BY LinesOfPayloads
      <3>2. QED
        BY <3>1, <1>6
    <2>2. QED
      BY <2>1, <1>2
  <1>10. \A j, k \in 3..n :
           t[j].key = "fmtp" /\ t[k].key = "fmtp" /\ t[j].pt = t[k].pt => j = k
    BY <1>2, <1>6
  <1>11. QED
    BY <1>1, <1>2, <1>3, <1>5, <1>7, <1>8, <1>9, <1>10 DEF Whole, K, M, n

\* Payload i is the first one of the codec among those kept.
FirstOf(type, kept, codec, i) ==
  /\ i \in kept /\ Media[type][i].codec = codec
  /\ \A j \in kept : Media[type][j].codec = codec => i <= j

\* setCodecParam changes no line but the parameters of the first payload of the codec that the
\* section describes.
LEMMA SetRateIs ==
  ASSUME NEW type \in Types, NEW m, NEW s, NEW pts, Whole(s, type, m, pts), NEW codec,
         NEW rate \in Nat
  PROVE  LET t == SetRateOfSection(s, codec, rate)
         IN  /\ Whole(t, type, m, pts) /\ Len(t) = Len(s)
             /\ \A k \in 3..Len(s) : \A i \in Kept(type, pts) : \A old \in Nat :
                  s[k] = Fmtp(Media[type][i], old) =>
                  t[k] = Fmtp(Media[type][i],
                              IF FirstOf(type, Kept(type, pts), codec, i) THEN rate ELSE old)
             /\ \A k \in 3..Len(s) : s[k].key # "fmtp" => t[k] = s[k]
  <1> DEFINE M == Media[type]
             n == Len(s)
             K == Kept(type, pts)
             q == PayloadsOf(s, codec)
             A == {k \in 1..n : s[k].key = "fmtp" /\ q # << >> /\ s[k].pt = q[1]}
             f == FmtpAt(s, q)
             t == SetRateOfSection(s, codec, rate)
  <1>1. n \in Nat /\ n >= 2 /\ s \in Seq(Lines) /\ DOMAIN s = 1..n
    BY DEF Whole
  <1>2. q \in Seq(Nat) /\ \E row : RowsOf(q, type, K, codec, row)
    BY PayloadsAreOf
  <1>3. PICK row : RowsOf(q, type, K, codec, row)
    BY <1>2
  <1>4. t = IF f = 0 THEN s ELSE [s EXCEPT ![f].rate = rate]
    BY DEF SetRateOfSection, FmtpAt
  <1> HIDE DEF q
  <1>5. f = IF A # {} THEN Min(A) ELSE 0
    BY DEF FmtpAt, SelectInSubSeq
  <1>6. /\ \A k \in A : k \in 1..n /\ s[k].key = "fmtp" /\ q # << >> /\ s[k].pt = q[1]
        /\ \A k \in 1..n : s[k].key = "fmtp" /\ q # << >> /\ s[k].pt = q[1] => k \in A
    OBVIOUS
  <1> HIDE DEF A, t, f
  <1>7. A # {} => f \in A
    <2>1. A \subseteq Nat
      BY <1>1, <1>6
    <2>2. QED
      BY <2>1, <1>5, LeastOf
  <1>8. /\ f # 0 => f \in 1..n /\ s[f].key = "fmtp" /\ q # << >> /\ s[f].pt = q[1]
        /\ f = 0 => A = {}
    <2>1. A # {} => f \in 1..n
      BY <1>6, <1>7
    <2>2. QED
      BY <2>1, <1>1, <1>5, <1>6, <1>7
  <1>9. /\ \A i \in K : i \in Rows(type) /\ i \in Nat /\ M[i] \in Offered
        /\ \A i, j \in K : M[i].pt = M[j].pt => i = j
    BY PayloadsAre DEF Kept, Rows
  <1>10. /\ row \in [1..Len(q) -> K]
         /\ \A j \in 1..Len(q) : q[j] = M[row[j]].pt /\ M[row[j]].codec = codec
         /\ \A j, k \in 1..Len(q) : j < k => row[j] < row[k]
         /\ \A i \in K : M[i].codec = codec => \E j \in 1..Len(q) : row[j] = i
    BY <1>3 DEF RowsOf
  <1>11. \A i \in K : FirstOf(type, K, codec, i) => q # << >> /\ i = row[1]
    <2>1. SUFFICES ASSUME NEW i \in K, FirstOf(type, K, codec, i)
                   PROVE  q # << >> /\ i = row[1]
      OBVIOUS
    <2>2. PICK j \in 1..Len(q) : row[j] = i
      BY <2>1, <1>10 DEF FirstOf, M
    <2>3. Len(q) \in Nat
      BY <1>2
    <2>4. 1 \in 1..Len(q) /\ q # << >>
      BY <2>2, <2>3
    <2>5. row[1] \in K /\ M[row[1]].codec = codec
      BY <2>4, <1>10
    <2>6. i <= row[1] /\ i \in Nat /\ row[1] \in Nat
      BY <2>1, <2>5, <1>9 DEF FirstOf, M
    <2>7. 1 < j => row[1] < i
      BY <2>2, <2>4, <1>10
    <2>8. ~(1 < j)
      BY <2>6, <2>7
    <2>9. j = 1
      BY <2>3, <2>8
    <2>10. QED
      BY <2>2, <2>4, <2>9
  <1>12. q # << >> => /\ row[1] \in K /\ q[1] = M[row[1]].pt /\ FirstOf(type, K, codec, row[1])
    <2>1. SUFFICES ASSUME q # << >>
                   PROVE  /\ row[1] \in K /\ q[1] = M[row[1]].pt
                          /\ FirstOf(type, K, codec, row[1])
      OBVIOUS
    <2>2. Len(q) \in Nat /\ 1 \in 1..Len(q)
      BY <2>1, <1>2
    <2>3. row[1] \in K /\ q[1] = M[row[1]].pt /\ M[row[1]].codec = codec
      BY <2>2, <1>10
    <2>4. ASSUME NEW j \in K, M[j].codec = codec PROVE row[1] <= j
      <3>1. PICK k \in 1..Len(q) : row[k] = j
        BY <2>4, <1>10
      <3>2. 1 < k => row[1] < row[k]
        BY <2>2, <1>10
      <3>3. k = 1 \/ 1 < k
        BY <2>2
      <3>4. row[1] \in Nat /\ j \in Nat
        BY <2>3, <1>9
      <3>5. QED
        BY <3>1, <3>2, <3>3, <3>4
    <2>5. QED
      BY <2>3, <2>4 DEF FirstOf, M
  <1>k. \A k \in 1..n : s[k].key = "fmtp" =>
          k \in 3..n /\ \E i \in K : \E old \in Nat : M[i].fmtp /\ s[k] = Fmtp(M[i], old)
    BY WholeLines DEF Attributes
  <1> HIDE DEF K, M, n
  <1>13. CASE f = 0
    <2>1. t = s
      BY <1>4, <1>13
    <2>2. ASSUME NEW k \in 3..n, NEW i \in K, NEW old \in Nat, s[k] = Fmtp(M[i], old)
          PROVE  ~FirstOf(type, K, codec, i)
      <3>1. s[k].key = "fmtp" /\ s[k].pt = M[i].pt
        BY <2>2, LinesOfPayloads
      <3>2. FirstOf(type, K, codec, i) => q # << >> /\ s[k].pt = q[1]
        BY <3>1, <1>11, <1>12
      <3>3. k \in 1..n
        BY <1>1
      <3>4. QED
        BY <3>1, <3>2, <3>3, <1>6, <1>8, <1>13
    <2>3. QED
      BY <2>1, <2>2 DEF t, K, M, n
  <1>14. CASE f # 0
    <2>1. f \in 1..n /\ s[f].key = "fmtp" /\ q # << >> /\ s[f].pt = q[1]
      BY <1>8, <1>14
    <2>2. row[1] \in K /\ q[1] = M[row[1]].pt /\ FirstOf(type, K, codec, row[1])
      BY <2>1, <1>12
    <2>3. f \in 3..n
      BY <2>1, <1>k
    <2>4. PICK p \in K : \E old \in Nat : M[p].fmtp /\ s[f] = Fmtp(M[p], old)
      BY <2>1, <1>k
    <2>5. PICK was \in Nat : s[f] = Fmtp(M[p], was)
      BY <2>4
    <2>6. p = row[1]
      BY <2>1, <2>2, <2>5, <1>9, LinesOfPayloads
    <2>7. t = [s EXCEPT ![f].rate = rate]
      BY <1>4, <1>14
    <2>8. DOMAIN t = 1..n /\ t[f] = [s[f] EXCEPT !.rate = rate]
          /\ \A k \in 1..n : k # f => t[k] = s[k]
      BY <2>1, <2>7, <1>1
    <2>9. t[f] = Fmtp(M[p], rate)
      BY <2>5, <2>8 DEF Fmtp
    <2>10. t \in Seq(Lines) /\ Len(t) = n
      <3>1. M[p] \in Offered
        BY <1>9
      <3>2. Fmtp(M[p], rate) \in Lines
        BY <3>1 DEF Lines
      <3>3. \A k \in 1..n : s[k] \in Lines
        BY <1>1
      <3>4. \A k \in 1..n : t[k] \in Lines
        BY <3>2, <3>3, <2>8, <2>9
      <3>5. t = [k \in 1..n |-> t[k]]
        BY <2>7, <2>8
      <3>6. t \in [1..n -> Lines]
        BY <3>4, <3>5
      <3>7. QED
        BY <3>6, <1>1
    <2>11. Alike(s, t, type, K)
      <3>1. t[1] = s[1] /\ t[2] = s[2]
        BY <2>3, <2>8, <1>1
      <3>2. \A k \in 3..n : k \in 1..n
        BY <1>1
      <3>3. \A k \in 3..n : \/ t[k] = s[k]
                            \/ \E i \in K : \E old, new \in Nat :
                                 M[i].fmtp /\ s[k] = Fmtp(M[i], old) /\ t[k] = Fmtp(M[i], new)
        BY <2>4, <2>5, <2>8, <2>9, <3>2
      <3>4. QED
        BY <2>10, <3>1, <3>3 DEF Alike, M, n
    <2>12. Whole(t, type, m, pts)
      BY <2>11, AlikeWhole DEF K
    <2>13. ASSUME NEW k \in 3..n, NEW i \in K, NEW old \in Nat, s[k] = Fmtp(M[i], old)
           PROVE  t[k] = Fmtp(M[i], IF FirstOf(type, K, codec, i) THEN rate ELSE old)
      <3>1. s[k].key = "fmtp" /\ s[k].pt = M[i].pt /\ k \in 1..n
        BY <2>13, <1>1, LinesOfPayloads
      <3>2. CASE k = f
        <4>1. i = p
          BY <3>1, <3>2, <2>1, <2>2, <2>6, <1>9
        <4>2. QED
          BY <4>1, <3>2, <2>2, <2>6, <2>9
      <3>3. CASE k # f
        <4>1. t[k] = s[k]
          BY <3>1, <3>3, <2>8
        <4>2. s[k].pt = s[f].pt => k = f
          BY <3>1, <2>1, <2>3 DEF Whole, n
        <4>3. ~FirstOf(type, K, codec, i)
          BY <4>2, <3>1, <3>3, <2>1, <2>2, <1>11
        <4>4. QED
          BY <4>1, <4>3, <2>13
      <3>4. QED
        BY <3>2, <3>3
    <2>14. \A k \in 3..n : s[k].key # "fmtp" => t[k] = s[k]
      BY <2>1, <2>8, <1>1
    <2>15. QED
      BY <2>10, <2>12, <2>13, <2>14 DEF t, K, M, n
  <1>15. QED
    BY <1>13, <1>14

-----------------------------------------------------------------------------
(* The edits of a call                                                     *)

\* What the caller with options o asks for in a section of a type.
WantedOf(o, type) ==
  IF o.call = "publish" /\ "rtc" \in {o.audio.form, o.video.form}
  THEN IF type = "video" /\ o.video.form = "rtc" THEN o.videoCodecs ELSE << >>
  ELSE Codecs(o[type])

\* The two kinds of edits.
EditsOfKinds == [op : {"reorder"}, type : Types, codecs : Seq(STRING)]
                \cup [op : {"rate"}, codec : STRING, rate : Nat]

\* The names of codecs; the allowed ones are strings too, but the provers do not know it.
CodecNames == STRING \cup {"CN", "telephone-event", "red", "ulpfec", "flexfec"}

\* The options, as WishesAssumption has them.
LEMMA WishIs ==
  ASSUME NEW o \in Wishes
  PROVE  /\ o.call \in {"publish", "subscribe"} /\ o.videoCodecs \in Seq(STRING)
         /\ o.audio = o["audio"] /\ o.video = o["video"]
         /\ \A type \in Types : /\ o[type] \in Medium /\ o[type].form \in {"rtc", "codecs"}
                                /\ o[type].list \in Seq([codec : STRING, rate : Nat])
  <1> DEFINE L == Seq([codec : STRING, rate : Nat])
  <1>1. o \in [call : {"publish", "subscribe"}, videoCodecs : Seq(STRING),
               audio : Medium, video : Medium]
    BY WishesAssumption
  <1>2. o.audio \in Medium /\ o.video \in Medium /\ o.call \in {"publish", "subscribe"}
        /\ o.videoCodecs \in Seq(STRING) /\ o.audio = o["audio"] /\ o.video = o["video"]
    BY <1>1
  <1>3. \A x \in Medium : x.form \in {"rtc", "codecs"} /\ x.list \in L
    <2> HIDE DEF L
    <2>1. Medium = [form : {"rtc", "codecs"}, list : L]
      BY DEF Medium, L
    <2>2. QED
      BY <2>1
  <1>4. \A type \in Types : o[type] \in Medium
    BY <1>2 DEF Types
  <1>5. QED
    BY <1>2, <1>3, <1>4

\* The codecs that are named.
LEMMA CodecsAre ==
  ASSUME NEW medium \in Medium, medium.form \in {"rtc", "codecs"},
         medium.list \in Seq([codec : STRING, rate : Nat])
  PROVE  /\ Codecs(medium) \in Seq(STRING)
         /\ medium.form = "rtc" => Codecs(medium) = << >>
         /\ medium.form = "codecs" =>
              \A x : x \in ToSet(Codecs(medium)) <=>
                       x # "none" /\ \E i \in 1..Len(medium.list) : medium.list[i].codec = x
  <1> DEFINE list == medium.list
             n == Len(list)
             T == {i \in 1..n : list[i].codec # "none"}
             e == [i \in T |-> list[i].codec]
             seqs == [i \in 1..n |-> IF i \in T THEN << e[i] >> ELSE << >>]
             f == FlattenSeq(seqs)
  <1>1. CASE medium.form = "rtc"
    <2>1. Codecs(medium) = << >>
      BY <1>1 DEF Codecs
    <2>2. << >> \in Seq(STRING)
      OBVIOUS
    <2>3. QED
      BY <1>1, <2>1, <2>2
  <1>2. CASE medium.form = "codecs"
    <2>1. n \in Nat /\ DOMAIN list = 1..n /\ \A i \in 1..n : list[i].codec \in STRING
      <3> DEFINE S == [codec : STRING, rate : Nat]
      <3>1. \A x \in S : x.codec \in STRING
        OBVIOUS
      <3>2. list \in Seq(S)
        OBVIOUS
      <3> HIDE DEF S, list
      <3>3. QED
        BY <3>1, <3>2
    <2>2. e \in [T -> STRING] /\ \A i \in T : e[i] = list[i].codec
      BY <2>1
    <2>3. Codecs(medium) = f
      <3>1. seqs = [i \in DOMAIN list |->
                      IF list[i].codec = "none" THEN << >> ELSE << list[i].codec >>]
        BY <2>1
      <3> HIDE DEF seqs
      <3>2. QED
        BY <3>1, <1>2 DEF Codecs
    <2>4. f \in Seq(STRING) /\ \E pos : Chosen(f, T, e, pos)
      <3>1. T \in SUBSET (1..n) /\ n \in Nat /\ e \in [T -> STRING]
        BY <2>1, <2>2
      <3>2. seqs = [i \in 1..n |-> IF i \in T THEN << e[i] >> ELSE << >>]
        OBVIOUS
      <3> HIDE DEF T, e, seqs, n
      <3>3. QED
        BY <3>1, <3>2, FilterIs
    <2>5. PICK pos : Chosen(f, T, e, pos)
      BY <2>4
    <2>6. /\ pos \in [1..Len(f) -> T]
          /\ \A j \in 1..Len(f) : f[j] = e[pos[j]]
          /\ \A i \in T : \E j \in 1..Len(f) : pos[j] = i
      BY <2>5 DEF Chosen
    <2>7. /\ \A i \in T : i \in 1..n /\ list[i].codec # "none"
          /\ \A i \in 1..n : list[i].codec # "none" => i \in T
      OBVIOUS
    <2> HIDE DEF f, e, T, seqs
    <2>8. \A x : x \in ToSet(f) <=> \E j \in 1..Len(f) : f[j] = x
      BY <2>4, InList
    <2>9. ASSUME NEW x, x \in ToSet(f)
          PROVE  x # "none" /\ \E i \in 1..n : list[i].codec = x
      <3>1. PICK j \in 1..Len(f) : f[j] = x
        BY <2>8, <2>9
      <3>2. pos[j] \in T /\ x = list[pos[j]].codec
        BY <3>1, <2>2, <2>6
      <3>3. QED
        BY <3>2, <2>7
    <2>10. ASSUME NEW i \in 1..n, list[i].codec # "none"
           PROVE  list[i].codec \in ToSet(f)
      <3>1. i \in T
        BY <2>10, <2>7
      <3>2. PICK j \in 1..Len(f) : pos[j] = i
        BY <3>1, <2>6
      <3>3. f[j] = list[i].codec
        BY <3>1, <3>2, <2>2, <2>6
      <3>4. QED
        BY <3>3, <2>8
    <2>11. QED
      BY <1>2, <2>3, <2>4, <2>9, <2>10
  <1>3. QED
    BY <1>1, <1>2

\* What is asked for is named, and no repair is.
LEMMA WantedIs ==
  ASSUME NEW o \in Wishes, NEW type \in Types
  PROVE  /\ WantedOf(o, type) \in Seq(STRING)
         /\ Wanted(WantedOf(o, type), type) \in Seq(CodecNames)
         /\ \A x : x \in ToSet(Wanted(WantedOf(o, type), type)) <=>
                     x \in ToSet(WantedOf(o, type)) \/ x \in ToSet(AllowList[type])
         /\ \A i \in Rows(type) : Media[type][i].apt # None =>
              Media[type][i].codec \notin ToSet(Wanted(WantedOf(o, type), type))
  <1> DEFINE w == WantedOf(o, type)
             a == AllowList[type]
  <1>1. /\ o.videoCodecs \in Seq(STRING) /\ o[type] \in Medium
        /\ o[type].form \in {"rtc", "codecs"}
        /\ o[type].list \in Seq([codec : STRING, rate : Nat])
    BY WishIs
  <1>2. /\ Codecs(o[type]) \in Seq(STRING)
        /\ \A x \in ToSet(Codecs(o[type])) : x \in NamedIn(o[type])
    <2>1. /\ Codecs(o[type]) \in Seq(STRING)
          /\ o[type].form = "rtc" => Codecs(o[type]) = << >>
          /\ o[type].form = "codecs" =>
               \A x : x \in ToSet(Codecs(o[type])) <=>
                        x # "none" /\ \E i \in 1..Len(o[type].list) : o[type].list[i].codec = x
      BY <1>1, CodecsAre
    <2>2. ToSet(<< >>) = {}
      BY DEF ToSet
    <2>3. \A i \in 1..Len(o[type].list) : o[type].list[i].codec \in NamedIn(o[type])
      <3>1. \A i \in 1..Len(o[type].list) : o[type].list[i] \in ToSet(o[type].list)
        BY <1>1, InList
      <3>2. QED
        BY <3>1 DEF NamedIn
    <2>4. QED
      BY <1>1, <2>1, <2>2, <2>3, SMTT(40)
  <1>3. << >> \in Seq(STRING) /\ ToSet(<< >>) = {}
    BY DEF ToSet
  <1>4. w \in Seq(STRING) /\ \A x \in ToSet(w) : x \in ToSet(o.videoCodecs) \cup NamedIn(o[type])
    BY <1>1, <1>2, <1>3 DEF WantedOf
  <1>5. a \in Seq(CodecNames)
    <2>1. /\ AllowList["audio"] = << "CN", "telephone-event" >>
          /\ AllowList["video"] = << "red", "ulpfec", "flexfec" >>
      BY DEF AllowList
    <2>2. /\ \A x, y \in CodecNames : << x, y >> \in Seq(CodecNames)
          /\ \A x, y, z \in CodecNames : << x, y, z >> \in Seq(CodecNames)
      <3> HIDE DEF CodecNames
      <3>1. QED OBVIOUS
    <2>3. /\ "CN" \in CodecNames /\ "telephone-event" \in CodecNames
          /\ "red" \in CodecNames /\ "ulpfec" \in CodecNames /\ "flexfec" \in CodecNames
      BY DEF CodecNames
    <2>4. QED
      BY <2>1, <2>2, <2>3 DEF Types
  <1>b. w \in Seq(CodecNames)
    <2>1. STRING \subseteq CodecNames
      BY DEF CodecNames
    <2> HIDE DEF w, a
    <2>2. Len(w) \in Nat /\ w = [i \in 1..Len(w) |-> w[i]] /\ \A i \in 1..Len(w) : w[i] \in STRING
      BY <1>4
    <2>3. w \in [1..Len(w) -> CodecNames]
      BY <2>1, <2>2
    <2>4. QED
      BY <2>2, <2>3
  <1> HIDE DEF w, a
  <1>6. /\ w \o a \in Seq(CodecNames) /\ Len(w \o a) = Len(w) + Len(a)
        /\ \A i \in 1..(Len(w) + Len(a)) : (w \o a)[i] = IF i <= Len(w) THEN w[i] ELSE a[i - Len(w)]
    BY <1>b, <1>5, ConcatProperties
  <1>7. ASSUME NEW x
        PROVE  x \in ToSet(w \o a) <=> x \in ToSet(w) \/ x \in ToSet(a)
    <2>1. Len(w) \in Nat /\ Len(a) \in Nat
      BY <1>4, <1>5
    <2>2. /\ x \in ToSet(w) <=> \E i \in 1..Len(w) : w[i] = x
          /\ x \in ToSet(a) <=> \E i \in 1..Len(a) : a[i] = x
      BY <1>4, <1>5, InList
    <2>3. x \in ToSet(w \o a) <=> \E i \in 1..Len(w \o a) : (w \o a)[i] = x
      BY <1>6, InList
    <2>4. \A i \in 1..Len(w) : i \in 1..(Len(w) + Len(a)) /\ i <= Len(w)
      BY <2>1
    <2>5. \A i \in 1..Len(a) : Len(w) + i \in 1..(Len(w) + Len(a)) /\ ~(Len(w) + i <= Len(w))
                               /\ (Len(w) + i) - Len(w) = i
      BY <2>1
    <2>6. \A i \in 1..(Len(w) + Len(a)) :
            IF i <= Len(w) THEN i \in 1..Len(w) ELSE i - Len(w) \in 1..Len(a)
      BY <2>1
    <2>7. ASSUME x \in ToSet(w \o a) PROVE x \in ToSet(w) \/ x \in ToSet(a)
      BY <2>7, <2>3, <2>2, <2>6, <1>6
    <2>8. ASSUME x \in ToSet(w) PROVE x \in ToSet(w \o a)
      BY <2>8, <2>3, <2>2, <2>4, <1>6
    <2>9. ASSUME x \in ToSet(a) PROVE x \in ToSet(w \o a)
      <3>1. PICK i \in 1..Len(a) : a[i] = x
        BY <2>9, <2>2
      <3>2. (w \o a)[Len(w) + i] = a[i] /\ Len(w) + i \in 1..Len(w \o a)
        BY <2>5, <1>6
      <3>3. QED
        BY <3>1, <3>2, <2>3
    <2>10. QED
      BY <2>7, <2>8, <2>9
  <1>8. ASSUME NEW i \in Rows(type), Media[type][i].apt # None
        PROVE  Media[type][i].codec \notin ToSet(w \o a)
    <2>1. Media[type][i] \in ToSet(Media[type])
      BY PayloadsAre DEF ToSet
    <2>2. Media[type][i].codec \notin ToSet(o.videoCodecs) \cup NamedIn(o[type])
      BY <2>1, <1>8, WishesAssumption
    <2>3. Media[type][i].codec \notin ToSet(a)
      BY <1>8, PayloadsAre DEF a
    <2>4. QED
      BY <2>2, <2>3, <1>4, <1>7
  <1>9. QED
    <2>1. Wanted(w, type) = w \o a
      BY DEF Wanted, a
    <2>2. QED
      BY <1>4, <1>6, <1>7, <1>8, <2>1 DEF w, a

\* _setRtpReceiverOptions: at most one reorder for a type, to what is asked for.
LEMMA ReordersAre ==
  ASSUME NEW o \in Wishes
  PROVE  LET r == Reorders(o)
         IN  /\ r \in Seq(EditsOfKinds)
             /\ \A i \in 1..Len(r) : /\ r[i].op = "reorder" /\ r[i].type \in Types
                                     /\ r[i].codecs = WantedOf(o, r[i].type)
             /\ \A i, j \in 1..Len(r) : r[i].type = r[j].type => i = j
             /\ \A type \in Types : WantedOf(o, type) # << >> =>
                  \E i \in 1..Len(r) : r[i].type = type
  <1> DEFINE r == Reorders(o)
             rtc == o.call = "publish" /\ "rtc" \in {o.audio.form, o.video.form}
  <1>1. /\ o.audio = o["audio"] /\ o.video = o["video"]
        /\ \A type \in Types : WantedOf(o, type) \in Seq(STRING)
    BY WishIs, WantedIs
  <1>2. "audio" \in Types /\ "video" \in Types
        /\ \A type \in Types : type = "audio" \/ type = "video"
    BY DEF Types
  <1>3. \A type \in Types : \A codecs \in Seq(STRING) :
          /\ Reorder(type, codecs) \in EditsOfKinds /\ Reorder(type, codecs).op = "reorder"
          /\ Reorder(type, codecs).type = type /\ Reorder(type, codecs).codecs = codecs
    BY DEF Reorder, EditsOfKinds
  <1>4. CASE rtc /\ o.video.form = "rtc"
    <2>1. /\ r = << Reorder("video", o.videoCodecs) >> /\ WantedOf(o, "video") = o.videoCodecs
          /\ WantedOf(o, "audio") = << >>
      BY <1>4 DEF Reorders, WantedOf
    <2> DEFINE v == Reorder("video", o.videoCodecs)
    <2>2. /\ v \in EditsOfKinds /\ v.op = "reorder" /\ v.type = "video"
          /\ v.codecs = WantedOf(o, "video")
      BY <2>1, <1>1, <1>2, <1>3
    <2> HIDE DEF v, r
    <2>3. r = << v >>
      BY <2>1 DEF v
    <2>4. Len(r) = 1 /\ r[1] = v /\ r \in Seq(EditsOfKinds)
      BY <2>2, <2>3
    <2>5. QED
      BY <2>1, <2>2, <2>4, <1>2 DEF r
  <1>5. CASE rtc /\ o.video.form # "rtc"
    <2>1. r = << >> /\ \A type \in Types : WantedOf(o, type) = << >>
      BY <1>5 DEF Reorders, WantedOf
    <2>2. Len(<< >>) = 0 /\ << >> \in Seq(EditsOfKinds)
      OBVIOUS
    <2>3. QED
      BY <2>1, <2>2
  <1>6. CASE ~rtc
    <2> DEFINE u == Reorder("audio", Codecs(o.audio))
               v == Reorder("video", Codecs(o.video))
    <2>1. /\ r = << u, v >> /\ WantedOf(o, "video") = Codecs(o.video)
          /\ WantedOf(o, "audio") = Codecs(o.audio)
      BY <1>6, <1>1 DEF Reorders, WantedOf
    <2>2. /\ u \in EditsOfKinds /\ u.op = "reorder" /\ u.type = "audio"
          /\ u.codecs = WantedOf(o, "audio")
          /\ v \in EditsOfKinds /\ v.op = "reorder" /\ v.type = "video"
          /\ v.codecs = WantedOf(o, "video")
      BY <2>1, <1>1, <1>2, <1>3
    <2> HIDE DEF u, v, r
    <2>3. Len(r) = 2 /\ r[1] = u /\ r[2] = v /\ r \in Seq(EditsOfKinds)
      BY <2>1, <2>2
    <2>4. \A i \in 1..Len(r) : i = 1 \/ i = 2
      BY <2>3
    <2>5. QED
      BY <2>2, <2>3, <2>4, <1>2 DEF r
  <1>7. QED
    BY <1>4, <1>5, <1>6

\* _setRtpSenderOptions: a rate for every encoding that is named.
LEMMA RatesAre ==
  ASSUME NEW o \in Wishes, NEW type \in Types
  PROVE  LET r == Rates(o, o[type])
             list == o[type].list
         IN  /\ r \in Seq(EditsOfKinds) /\ list \in Seq([codec : STRING, rate : Nat])
             /\ Len(r) = IF o.call = "publish" /\ o[type].form = "codecs" THEN Len(list) ELSE 0
             /\ \A i \in 1..Len(r) : /\ r[i].op = "rate" /\ r[i].codec = list[i].codec
                                     /\ r[i].rate = list[i].rate
  <1> DEFINE r == Rates(o, o[type])
             list == o[type].list
             set == o.call = "publish" /\ o[type].form = "codecs"
             S == [codec : STRING, rate : Nat]
  <1>1. list \in Seq(S)
    BY WishIs
  <1>2. r = IF set THEN [i \in DOMAIN list |-> Rate(list[i])] ELSE << >>
    BY DEF Rates
  <1> HIDE DEF list, r, set, S
  <1>3. Len(list) \in Nat /\ DOMAIN list = 1..Len(list) /\ \A i \in 1..Len(list) : list[i] \in S
    BY <1>1
  <1>4. \A x \in S : /\ Rate(x) \in EditsOfKinds /\ Rate(x).op = "rate" /\ Rate(x).codec = x.codec
                     /\ Rate(x).rate = x.rate
    BY DEF Rate, EditsOfKinds, S
  <1>5. CASE set
    <2>1. r = [i \in 1..Len(list) |-> Rate(list[i])]
      BY <1>2, <1>3, <1>5
    <2>2. r \in [1..Len(list) -> EditsOfKinds]
      BY <2>1, <1>3, <1>4
    <2>3. r \in Seq(EditsOfKinds) /\ Len(r) = Len(list)
      BY <2>2, <1>3
    <2>4. \A i \in 1..Len(list) : r[i] = Rate(list[i])
      BY <2>1
    <2>5. QED
      BY <2>3, <2>4, <1>1, <1>3, <1>4, <1>5 DEF r, list, set, S
  <1>6. CASE ~set
    <2>1. r = << >> /\ Len(<< >>) = 0 /\ << >> \in Seq(EditsOfKinds)
      BY <1>2, <1>6
    <2>2. QED
      BY <2>1, <1>1, <1>6 DEF r, list, set, S
  <1>7. QED
    BY <1>5, <1>6

\* List e has the items of three lists, one behind the other.
Joined(e, r, a, v) ==
  /\ Len(e) \in Nat /\ Len(r) \in Nat /\ Len(a) \in Nat /\ Len(v) \in Nat
  /\ \A i \in 1..Len(r) : i \in 1..Len(e) /\ e[i] = r[i]
  /\ \A i \in 1..Len(a) : Len(r) + i \in 1..Len(e) /\ e[Len(r) + i] = a[i]
  /\ \A i \in 1..Len(v) : Len(r) + Len(a) + i \in 1..Len(e) /\ e[Len(r) + Len(a) + i] = v[i]
  /\ \A j \in 1..Len(e) : \/ j \in 1..Len(r)
                          \/ \E i \in 1..Len(a) : j = Len(r) + i
                          \/ \E i \in 1..Len(v) : j = Len(r) + Len(a) + i

\* Concatenation does that.
LEMMA ThreeLists ==
  ASSUME NEW S, NEW r \in Seq(S), NEW a \in Seq(S), NEW v \in Seq(S)
  PROVE  r \o a \o v \in Seq(S) /\ Joined(r \o a \o v, r, a, v)
  <1> DEFINE h == r \o a
             e == h \o v
  <1>1. PICK lr \in Nat, la \in Nat, lv \in Nat : lr = Len(r) /\ la = Len(a) /\ lv = Len(v)
    OBVIOUS
  <1>2. /\ h \in Seq(S) /\ Len(h) = lr + la
        /\ \A i \in 1..(lr + la) : h[i] = IF i <= lr THEN r[i] ELSE a[i - lr]
    BY <1>1, ConcatProperties
  <1> HIDE DEF h
  <1>3. /\ e \in Seq(S) /\ Len(e) = Len(h) + Len(v)
        /\ \A i \in 1..(Len(h) + Len(v)) : e[i] = IF i <= Len(h) THEN h[i] ELSE v[i - Len(h)]
    BY <1>2, ConcatProperties
  <1> HIDE DEF e
  <1>4. /\ e \in Seq(S) /\ Len(e) = lr + la + lv
        /\ \A i \in 1..(lr + la + lv) : e[i] = IF i <= lr + la THEN h[i] ELSE v[i - (lr + la)]
    BY <1>1, <1>2, <1>3
  <1>5. /\ \A i \in 1..lr : i \in 1..(lr + la + lv) /\ e[i] = r[i]
        /\ \A i \in 1..la : lr + i \in 1..(lr + la + lv) /\ e[lr + i] = a[i]
        /\ \A i \in 1..lv : lr + la + i \in 1..(lr + la + lv) /\ e[lr + la + i] = v[i]
    <2>1. ASSUME NEW i \in 1..lr PROVE i \in 1..(lr + la + lv) /\ e[i] = r[i]
      <3>1. i \in 1..(lr + la + lv) /\ i <= lr + la /\ i \in 1..(lr + la) /\ i <= lr
        BY <1>1
      <3>2. QED
        BY <3>1, <1>2, <1>4
    <2>2. ASSUME NEW i \in 1..la PROVE lr + i \in 1..(lr + la + lv) /\ e[lr + i] = a[i]
      <3>1. PICK k \in Nat : k = lr + i
        BY <1>1
      <3>2. /\ k \in 1..(lr + la + lv) /\ k <= lr + la /\ ~(k <= lr) /\ k \in 1..(lr + la)
            /\ k - lr = i
        BY <1>1, <3>1
      <3>3. e[k] = h[k] /\ h[k] = a[k - lr]
        BY <3>2, <1>2, <1>4
      <3>4. QED
        BY <3>1, <3>2, <3>3
    <2>3. ASSUME NEW i \in 1..lv PROVE lr + la + i \in 1..(lr + la + lv) /\ e[lr + la + i] = v[i]
      <3>1. PICK k \in Nat : k = lr + la + i
        BY <1>1
      <3>2. /\ k \in 1..(lr + la + lv) /\ ~(k <= lr + la) /\ k - (lr + la) = i
        BY <1>1, <3>1
      <3>3. e[k] = v[k - (lr + la)]
        BY <3>2, <1>4
      <3>4. QED
        BY <3>1, <3>2, <3>3
    <2>4. QED
      BY <2>1, <2>2, <2>3
  <1>6. \A j \in 1..(lr + la + lv) : \/ j \in 1..lr
                                     \/ \E i \in 1..la : j = lr + i
                                     \/ \E i \in 1..lv : j = lr + la + i
    <2>1. \A j \in 1..(lr + la + lv) : \/ j \in 1..lr
                                       \/ j - lr \in 1..la /\ j = lr + (j - lr)
                                       \/ j - (lr + la) \in 1..lv /\ j = lr + la + (j - (lr + la))
      BY <1>1
    <2>2. QED
      BY <2>1
  <1>7. lr + la + lv \in Nat
    BY <1>1
  <1>8. Joined(e, r, a, v)
    BY <1>1, <1>4, <1>5, <1>6, <1>7 DEF Joined
  <1>9. QED
    BY <1>4, <1>8 DEF e, h

\* Where the edits of a call are.
LEMMA EditsAt ==
  ASSUME NEW o \in Wishes
  PROVE  /\ Edits(o) \in Seq(EditsOfKinds)
         /\ Joined(Edits(o), Reorders(o), Rates(o, o["audio"]), Rates(o, o["video"]))
  <1>1. Reorders(o) \in Seq(EditsOfKinds)
    BY ReordersAre
  <1>2. Rates(o, o["audio"]) \in Seq(EditsOfKinds) /\ Rates(o, o["video"]) \in Seq(EditsOfKinds)
    BY RatesAre DEF Types
  <1>3. Edits(o) = Reorders(o) \o Rates(o, o["audio"]) \o Rates(o, o["video"])
    BY WishIs DEF Edits
  <1>4. QED
    BY <1>1, <1>2, <1>3, ThreeLists

\* A payload's codec has a place in the list of one type only.
LEMMA NamedOnce ==
  ASSUME NEW o \in Wishes, NEW type \in Types, NEW i \in Rows(type), NEW other \in Types,
         NEW k \in 1..Len(o[other].list), o[other].list[k].codec = Media[type][i].codec
  PROVE  other = type
  <1>1. Media[type][i] \in ToSet(Media[type])
    BY PayloadsAre DEF ToSet
  <1>2. other # type => Media[type][i].codec \notin NamedIn(o[other])
    BY <1>1, WishesAssumption
  <1>3. o[other].list \in Seq([codec : STRING, rate : Nat])
    BY WishIs
  <1>4. o[other].list[k] \in ToSet(o[other].list)
    BY <1>3, InList
  <1>5. o[other].list[k].codec \in NamedIn(o[other])
    BY <1>4 DEF NamedIn
  <1>6. QED
    BY <1>2, <1>5

\* The edits of a call are reorders and rates.
LEMMA EditsAre ==
  ASSUME NEW o \in Wishes
  PROVE  LET e == Edits(o)
         IN  /\ Len(e) \in Nat
             /\ \A j \in 1..Len(e) : \/ e[j].op = "reorder"
                                     \/ e[j].op = "rate" /\ e[j].rate \in Nat
             /\ \A j \in 1..Len(e) : e[j].op = "reorder" =>
                  e[j].type \in Types /\ e[j].codecs = WantedOf(o, e[j].type)
             /\ \A j, k \in 1..Len(e) :
                  e[j].op = "reorder" /\ e[k].op = "reorder" /\ e[j].type = e[k].type => j = k
             /\ \A type \in Types : WantedOf(o, type) # << >> =>
                  \E j \in 1..Len(e) : e[j].op = "reorder" /\ e[j].type = type
  <1>1. PICK r, a, v, e : r = Reorders(o) /\ a = Rates(o, o["audio"]) /\ v = Rates(o, o["video"])
                          /\ e = Edits(o)
    OBVIOUS
  <1>2. /\ \A i \in 1..Len(r) : /\ r[i].op = "reorder" /\ r[i].type \in Types
                                /\ r[i].codecs = WantedOf(o, r[i].type)
        /\ \A i, j \in 1..Len(r) : r[i].type = r[j].type => i = j
        /\ \A type \in Types : WantedOf(o, type) # << >> => \E i \in 1..Len(r) : r[i].type = type
    BY <1>1, ReordersAre
  <1>3. /\ \A i \in 1..Len(a) : a[i].op = "rate"
        /\ \A i \in 1..Len(v) : v[i].op = "rate"
    BY <1>1, RatesAre DEF Types
  <1>4. e \in Seq(EditsOfKinds) /\ Joined(e, r, a, v)
    BY <1>1, EditsAt
  <1>l. Len(e) \in Nat /\ \A i \in 1..Len(r) : i \in 1..Len(e) /\ e[i] = r[i]
    BY <1>4 DEF Joined
  <1>5. \A j \in 1..Len(e) : e[j].op = "rate" => e[j].rate \in Nat
    <2>1. \A x \in EditsOfKinds : x.op = "rate" => x.rate \in Nat
      BY DEF EditsOfKinds
    <2>2. \A j \in 1..Len(e) : e[j] \in EditsOfKinds
      BY <1>4
    <2>3. QED
      BY <2>1, <2>2
  <1>6. \A j \in 1..Len(e) : \/ j \in 1..Len(r) /\ e[j] = r[j] /\ e[j].op = "reorder"
                             \/ e[j].op = "rate"
    <2>1. SUFFICES ASSUME NEW j \in 1..Len(e)
                   PROVE  \/ j \in 1..Len(r) /\ e[j] = r[j] /\ e[j].op = "reorder"
                          \/ e[j].op = "rate"
      OBVIOUS
    <2>2. \/ j \in 1..Len(r) /\ e[j] = r[j]
          \/ \E i \in 1..Len(a) : e[j] = a[i]
          \/ \E i \in 1..Len(v) : e[j] = v[i]
      BY <1>4 DEF Joined
    <2>3. QED
      BY <2>2, <1>2, <1>3
  <1>7. /\ \A j \in 1..Len(e) : e[j].op = "reorder" =>
             e[j].type \in Types /\ e[j].codecs = WantedOf(o, e[j].type)
        /\ \A j, k \in 1..Len(e) :
             e[j].op = "reorder" /\ e[k].op = "reorder" /\ e[j].type = e[k].type => j = k
    BY <1>2, <1>6
  <1>8. \A type \in Types : WantedOf(o, type) # << >> =>
          \E j \in 1..Len(e) : e[j].op = "reorder" /\ e[j].type = type
    BY <1>2, <1>l
  <1>9. QED
    BY <1>1, <1>l, <1>5, <1>6, <1>7, <1>8

\* A rate is set for a codec that is asked for, if anything is.
LEMMA RatedAreWanted ==
  ASSUME NEW o \in Wishes, NEW j \in 1..Len(Edits(o)), Edits(o)[j].op = "rate",
         NEW type \in Types, NEW i \in Rows(type), Edits(o)[j].codec = Media[type][i].codec,
         WantedOf(o, type) # << >>
  PROVE  Media[type][i].codec \in ToSet(WantedOf(o, type))
  <1> DEFINE codec == Media[type][i].codec
  <1>1. ASSUME NEW other \in Types, NEW k \in 1..Len(Rates(o, o[other])),
               Rates(o, o[other])[k].codec = codec
        PROVE  codec \in ToSet(WantedOf(o, type))
    <2>1. /\ Len(Rates(o, o[other])) =
               IF o.call = "publish" /\ o[other].form = "codecs" THEN Len(o[other].list) ELSE 0
          /\ Rates(o, o[other])[k].codec = o[other].list[k].codec
      BY RatesAre
    <2>2. o.call = "publish" /\ o[other].form = "codecs" /\ k \in 1..Len(o[other].list)
      BY <2>1
    <2>3. o[other].list[k].codec = codec
      BY <2>1, <1>1
    <2>4. other = type
      BY <2>2, <2>3, NamedOnce
    <2>5. codec # "none"
      BY PayloadsAre
    <2>6. /\ o[type] \in Medium /\ o[type].form \in {"rtc", "codecs"}
          /\ o[type].list \in Seq([codec : STRING, rate : Nat])
          /\ o.audio = o["audio"] /\ o.video = o["video"]
      BY WishIs
    <2>7. codec \in ToSet(Codecs(o[type]))
      BY <2>2, <2>3, <2>4, <2>5, <2>6, CodecsAre
    <2>8. WantedOf(o, type) = Codecs(o[type])
      <3>1. type = "video" => o.video.form = "codecs"
        BY <2>2, <2>4, <2>6
      <3>2. QED
        BY <3>1 DEF WantedOf
    <2>9. QED
      BY <2>7, <2>8
  <1>2. PICK r, a, v, e : r = Reorders(o) /\ a = Rates(o, o["audio"]) /\ v = Rates(o, o["video"])
                          /\ e = Edits(o)
    OBVIOUS
  <1>3. Joined(e, r, a, v)
    BY <1>2, EditsAt
  <1>4. \A x \in 1..Len(r) : r[x].op = "reorder"
    BY <1>2, ReordersAre
  <1>5. \/ \E x \in 1..Len(a) : a[x].codec = codec
        \/ \E x \in 1..Len(v) : v[x].codec = codec
    <2>1. j \in 1..Len(e) /\ e[j].op = "rate" /\ e[j].codec = codec
      BY <1>2
    <2>2. \/ j \in 1..Len(r) /\ e[j] = r[j]
          \/ \E x \in 1..Len(a) : e[j] = a[x]
          \/ \E x \in 1..Len(v) : e[j] = v[x]
      BY <2>1, <1>3 DEF Joined
    <2>3. QED
      BY <2>1, <2>2, <1>4
  <1>6. QED
    BY <1>1, <1>2, <1>5 DEF Types

\* The edits among the first n that set a rate for the codec, and the last rate they set.
RatesFor(e, n, codec) == {j \in 1..n : e[j].op = "rate" /\ e[j].codec = codec /\ e[j].rate # 0}
LastRate(e, n, codec) ==
  IF RatesFor(e, n, codec) = {} THEN 0 ELSE e[Max(RatesFor(e, n, codec))].rate

\* One more edit.
LEMMA LastRateStep ==
  ASSUME NEW e, NEW n \in Nat, NEW codec
  PROVE  /\ LastRate(e, 0, codec) = 0
         /\ LastRate(e, n + 1, codec) =
              IF e[n + 1].op = "rate" /\ e[n + 1].codec = codec /\ e[n + 1].rate # 0
              THEN e[n + 1].rate ELSE LastRate(e, n, codec)
  <1> DEFINE S == RatesFor(e, n, codec)
             t == RatesFor(e, n + 1, codec)
             new == e[n + 1].op = "rate" /\ e[n + 1].codec = codec /\ e[n + 1].rate # 0
  <1>1. RatesFor(e, 0, codec) = {}
    BY DEF RatesFor
  <1>2. 1..(n + 1) = (1..n) \cup {n + 1}
    OBVIOUS
  <1>3. t = IF new THEN S \cup {n + 1} ELSE S
    BY <1>2 DEF RatesFor
  <1>4. S \subseteq 1..n /\ t \subseteq 0..(n + 1) /\ n + 1 \in Nat
    BY <1>2 DEF RatesFor
  <1> HIDE DEF S, t
  <1>5. CASE new
    <2>1. t # {} /\ n + 1 \in t
      BY <1>3, <1>5
    <2>2. Max(t) \in t /\ \A x \in t : x <= Max(t)
      BY <1>4, <2>1, GreatestOf
    <2>3. PICK x : x = Max(t)
      OBVIOUS
    <2>4. x \in 0..(n + 1) /\ n + 1 <= x
      BY <1>4, <2>1, <2>2, <2>3
    <2>5. x = n + 1
      BY <2>4
    <2>6. QED
      BY <1>1, <1>5, <2>1, <2>3, <2>5 DEF LastRate, t
  <1>6. CASE ~new
    <2>1. t = S
      BY <1>3, <1>6
    <2>2. QED
      BY <1>1, <1>6, <2>1 DEF LastRate, t, S
  <1>7. QED
    BY <1>5, <1>6

\* Where the rates of a type are among the edits.
LEMMA RatesAt ==
  ASSUME NEW o \in Wishes, NEW type \in Types
  PROVE  \E off \in Nat :
           /\ \A k \in 1..Len(Rates(o, o[type])) :
                off + k \in 1..Len(Edits(o)) /\ Edits(o)[off + k] = Rates(o, o[type])[k]
           /\ \A j \in 1..Len(Edits(o)) : \A i \in Rows(type) :
                Edits(o)[j].op = "rate" /\ Edits(o)[j].codec = Media[type][i].codec =>
                \E k \in 1..Len(Rates(o, o[type])) : j = off + k
  <1>1. PICK r, a, v, e : r = Reorders(o) /\ a = Rates(o, o["audio"]) /\ v = Rates(o, o["video"])
                          /\ e = Edits(o)
    OBVIOUS
  <1>2. Joined(e, r, a, v)
    BY <1>1, EditsAt
  <1>3. /\ Len(r) \in Nat /\ Len(a) \in Nat /\ Len(v) \in Nat
        /\ \A i \in 1..Len(r) : e[i] = r[i]
        /\ \A i \in 1..Len(a) : Len(r) + i \in 1..Len(e) /\ e[Len(r) + i] = a[i]
        /\ \A i \in 1..Len(v) : Len(r) + Len(a) + i \in 1..Len(e) /\ e[Len(r) + Len(a) + i] = v[i]
        /\ \A j \in 1..Len(e) : \/ j \in 1..Len(r)
                                \/ \E i \in 1..Len(a) : j = Len(r) + i
                                \/ \E i \in 1..Len(v) : j = Len(r) + Len(a) + i
    BY <1>2 DEF Joined
  <1>4. \A x \in 1..Len(r) : r[x].op = "reorder"
    BY <1>1, ReordersAre
  <1>5. ASSUME NEW other \in Types, NEW i \in Rows(type), NEW k \in 1..Len(Rates(o, o[other])),
               Rates(o, o[other])[k].codec = Media[type][i].codec
        PROVE  other = type
    <2>1. k \in 1..Len(o[other].list) /\ o[other].list[k].codec = Media[type][i].codec
      <3>1. /\ Len(Rates(o, o[other])) =
                 IF o.call = "publish" /\ o[other].form = "codecs" THEN Len(o[other].list) ELSE 0
            /\ Rates(o, o[other])[k].codec = o[other].list[k].codec
        BY RatesAre
      <3>2. QED
        BY <3>1, <1>5
    <2>2. QED
      BY <2>1, NamedOnce
  <1>6. CASE type = "audio"
    <2>1. \A i \in Rows(type) : \A k \in 1..Len(v) : v[k].codec # Media[type][i].codec
      BY <1>1, <1>5, <1>6 DEF Types
    <2>2. \A j \in 1..Len(e) : \A i \in Rows(type) :
            e[j].op = "rate" /\ e[j].codec = Media[type][i].codec =>
            \E k \in 1..Len(a) : j = Len(r) + k
      <3>1. SUFFICES ASSUME NEW j \in 1..Len(e), NEW i \in Rows(type), e[j].op = "rate",
                            e[j].codec = Media[type][i].codec
                     PROVE  \E k \in 1..Len(a) : j = Len(r) + k
        OBVIOUS
      <3>2. ~(j \in 1..Len(r))
        BY <3>1, <1>3, <1>4
      <3>3. ~\E k \in 1..Len(v) : j = Len(r) + Len(a) + k
        <4>1. SUFFICES ASSUME NEW k \in 1..Len(v), j = Len(r) + Len(a) + k PROVE FALSE
          OBVIOUS
        <4>2. e[Len(r) + Len(a) + k] = v[k]
          BY <1>3
        <4>3. e[j] = v[k]
          BY <4>1, <4>2
        <4>4. v[k].codec # Media[type][i].codec
          BY <2>1
        <4>5. QED
          BY <3>1, <4>3, <4>4
      <3>4. QED
        BY <3>2, <3>3, <1>3
    <2>3. a = Rates(o, o[type])
      BY <1>1, <1>6
    <2>4. PICK off \in Nat : off = Len(r)
      BY <1>3
    <2>5. /\ \A k \in 1..Len(a) : off + k \in 1..Len(e) /\ e[off + k] = a[k]
          /\ \A j \in 1..Len(e) : \A i \in Rows(type) :
               e[j].op = "rate" /\ e[j].codec = Media[type][i].codec =>
               \E k \in 1..Len(a) : j = off + k
      BY <1>3, <2>2, <2>4
    <2>6. QED
      BY <1>1, <2>3, <2>5
  <1>7. CASE type = "video"
    <2>1. \A i \in Rows(type) : \A k \in 1..Len(a) : a[k].codec # Media[type][i].codec
      BY <1>1, <1>5, <1>7 DEF Types
    <2>2. \A j \in 1..Len(e) : \A i \in Rows(type) :
            e[j].op = "rate" /\ e[j].codec = Media[type][i].codec =>
            \E k \in 1..Len(v) : j = Len(r) + Len(a) + k
      <3>1. SUFFICES ASSUME NEW j \in 1..Len(e), NEW i \in Rows(type), e[j].op = "rate",
                            e[j].codec = Media[type][i].codec
                     PROVE  \E k \in 1..Len(v) : j = Len(r) + Len(a) + k
        OBVIOUS
      <3>2. ~(j \in 1..Len(r))
        BY <3>1, <1>3, <1>4
      <3>3. ~\E k \in 1..Len(a) : j = Len(r) + k
        <4>1. SUFFICES ASSUME NEW k \in 1..Len(a), j = Len(r) + k PROVE FALSE
          OBVIOUS
        <4>2. e[Len(r) + k] = a[k]
          BY <1>3
        <4>3. e[j] = a[k]
          BY <4>1, <4>2
        <4>4. a[k].codec # Media[type][i].codec
          BY <2>1
        <4>5. QED
          BY <3>1, <4>3, <4>4
      <3>4. QED
        BY <3>2, <3>3, <1>3
    <2>3. v = Rates(o, o[type])
      BY <1>1, <1>7
    <2>4. PICK off \in Nat : off = Len(r) + Len(a)
      BY <1>3
    <2>5. /\ \A k \in 1..Len(v) : off + k \in 1..Len(e) /\ e[off + k] = v[k]
          /\ \A j \in 1..Len(e) : \A i \in Rows(type) :
               e[j].op = "rate" /\ e[j].codec = Media[type][i].codec =>
               \E k \in 1..Len(v) : j = off + k
      BY <1>3, <2>2, <2>4
    <2>6. QED
      BY <1>1, <2>3, <2>5
  <1>8. QED
    BY <1>6, <1>7 DEF Types

\* The rate that all the edits leave for a codec is the one that was named last.
LEMMA LastRateIs ==
  ASSUME NEW o \in Wishes, NEW type \in Types, NEW i \in Rows(type)
  PROVE  LastRate(Edits(o), Len(Edits(o)), Media[type][i].codec) =
           IF o.call = "publish" THEN RateOf(o[type], Media[type][i].codec) ELSE 0
  <1> DEFINE c == Media[type][i].codec
             e == Edits(o)
             r == Rates(o, o[type])
             list == o[type].list
             set == o.call = "publish" /\ o[type].form = "codecs"
             N == {k \in DOMAIN list : list[k].codec = c /\ list[k].rate # 0}
             S == RatesFor(e, Len(e), c)
  <1>1. /\ list \in Seq([codec : STRING, rate : Nat])
        /\ Len(r) = IF set THEN Len(list) ELSE 0
        /\ \A k \in 1..Len(r) : /\ r[k].op = "rate" /\ r[k].codec = list[k].codec
                                /\ r[k].rate = list[k].rate
    BY RatesAre
  <1>2. PICK off \in Nat :
          /\ \A k \in 1..Len(r) : off + k \in 1..Len(e) /\ e[off + k] = r[k]
          /\ \A j \in 1..Len(e) : \A x \in Rows(type) :
               e[j].op = "rate" /\ e[j].codec = Media[type][x].codec =>
               \E k \in 1..Len(r) : j = off + k
    BY RatesAt
  <1>3. Len(e) \in Nat
    BY EditsAre
  <1>4. Len(list) \in Nat /\ DOMAIN list = 1..Len(list)
    BY <1>1
  <1>5. RateOf(o[type], c) = IF o[type].form = "codecs" /\ N # {} THEN list[Max(N)].rate ELSE 0
    BY DEF RateOf
  <1>6. LastRate(e, Len(e), c) = IF S = {} THEN 0 ELSE e[Max(S)].rate
    BY DEF LastRate
  <1>7. /\ \A j \in S : j \in 1..Len(e) /\ e[j].op = "rate" /\ e[j].codec = c /\ e[j].rate # 0
        /\ \A j \in 1..Len(e) : e[j].op = "rate" /\ e[j].codec = c /\ e[j].rate # 0 => j \in S
    BY DEF RatesFor
  <1>8. /\ \A k \in N : k \in 1..Len(list) /\ list[k].codec = c /\ list[k].rate # 0
        /\ \A k \in 1..Len(list) : list[k].codec = c /\ list[k].rate # 0 => k \in N
    BY <1>4
  <1>c. \A j \in 1..Len(e) : e[j].op = "rate" /\ e[j].codec = c => \E k \in 1..Len(r) : j = off + k
    BY <1>2
  <1> HIDE DEF S, N, e, r, list, set, c
  <1>9. \A j \in S : set /\ \E k \in N : j = off + k
    <2>1. SUFFICES ASSUME NEW j \in S
                   PROVE  set /\ \E k \in N : j = off + k
      OBVIOUS
    <2>2. PICK k \in 1..Len(r) : j = off + k
      BY <1>c, <1>7
    <2>3. set /\ k \in 1..Len(list)
      BY <2>2, <1>1
    <2>4. e[j] = r[k] /\ e[j].codec = c /\ e[j].rate # 0
      BY <2>2, <1>2, <1>7
    <2>5. QED
      BY <2>2, <2>3, <2>4, <1>1, <1>8
  <1>10. ASSUME set PROVE \A k \in N : off + k \in S /\ e[off + k].rate = list[k].rate
    <2>1. SUFFICES ASSUME NEW k \in N
                   PROVE  off + k \in S /\ e[off + k].rate = list[k].rate
      OBVIOUS
    <2>2. k \in 1..Len(r)
      BY <1>1, <1>8, <1>10
    <2>3. off + k \in 1..Len(e) /\ e[off + k] = r[k]
      BY <2>2, <1>2
    <2>4. e[off + k].op = "rate" /\ e[off + k].codec = c /\ e[off + k].rate = list[k].rate
          /\ e[off + k].rate # 0
      BY <2>2, <2>3, <1>1, <1>8
    <2>5. QED
      BY <2>3, <2>4, <1>7
  <1>11. CASE set /\ N # {}
    <2>1. N \subseteq 0..Len(list) /\ S \subseteq 0..Len(e) /\ S # {}
      BY <1>3, <1>4, <1>7, <1>8, <1>10, <1>11
    <2>2. Max(N) \in N /\ \A x \in N : x <= Max(N)
      BY <1>4, <1>11, <2>1, GreatestOf
    <2>3. Max(S) \in S /\ \A x \in S : x <= Max(S)
      BY <1>3, <2>1, GreatestOf
    <2>4. PICK k : k = Max(N)
      OBVIOUS
    <2>5. PICK j : j = Max(S)
      OBVIOUS
    <2>6. PICK h \in N : j = off + h
      BY <2>3, <2>5, <1>9
    <2>7. h <= k /\ off + k <= j /\ k \in N
      BY <2>2, <2>3, <2>4, <2>5, <1>10, <1>11
    <2>8. h \in Nat /\ k \in Nat
      BY <2>7, <1>4, <1>8
    <2>9. j = off + k
      BY <2>6, <2>7, <2>8
    <2>10. e[j].rate = list[k].rate
      BY <2>7, <2>9, <1>10, <1>11
    <2>11. QED
      BY <1>5, <1>6, <1>11, <2>1, <2>4, <2>5, <2>10 DEF set, e, c
  <1>12. CASE ~(set /\ N # {})
    <2>1. S = {}
      BY <1>9, <1>12
    <2>2. QED
      BY <1>5, <1>6, <1>12, <2>1 DEF set, e, c
  <1>13. QED
    BY <1>11, <1>12

-----------------------------------------------------------------------------
(* What the edits make of a section                                        *)

\* What an edit makes of a section.
EditedSection(s, edit) ==
  IF edit.op = "reorder"
  THEN IF edit.codecs = << >> THEN s ELSE ReorderSection(s, edit.type, edit.codecs)
  ELSE IF edit.rate = 0 \/ edit.codec = "none" THEN s
       ELSE SetRateOfSection(s, edit.codec, edit.rate)

\* Among the first n edits is one that puts the payloads of the type in order.
Moved(o, type, n) ==
  \E j \in 1..n : /\ Edits(o)[j].op = "reorder" /\ Edits(o)[j].type = type
                  /\ Edits(o)[j].codecs # << >>

\* A payload is the first of its codec in the offer.
Foremost(type, i) == \A j \in Rows(type) : j < i => Media[type][j].codec # Media[type][i].codec

\* The rates in a section after n edits.
RatesMade(s, o, type, pts, n) ==
  \A k \in 3..Len(s) : \A i \in Kept(type, pts) : \A rate \in Nat :
    s[k] = Fmtp(Media[type][i], rate) =>
    rate = IF Foremost(type, i) THEN LastRate(Edits(o), n, Media[type][i].codec) ELSE 0

\* A section after n edits: whole, with all payloads until they were put in order.
Progress(s, o, type, m, n) ==
  \E pts : /\ Whole(s, type, m, pts)
           /\ ~Moved(o, type, n) => Kept(type, pts) = Rows(type)
           /\ Moved(o, type, n) =>
                Followed(pts, type, Rows(type), Wanted(WantedOf(o, type), type))
           /\ RatesMade(s, o, type, pts, n)

\* Before the first edit.
LEMMA ProgressStart ==
  ASSUME NEW type \in Types, NEW m \in Nat, NEW o
  PROVE  Progress(SectionLines(type, m), o, type, m, 0)
  <1> DEFINE s == SectionLines(type, m)
             pts == AllPts(type)
  <1>1. Whole(s, type, m, pts) /\ \A k \in 3..Len(s) : s[k].key = "fmtp" => s[k].rate = 0
    BY OfferedWhole
  <1>2. Kept(type, pts) = Rows(type)
    BY AllPtsAre
  <1>3. ~Moved(o, type, 0)
    BY DEF Moved
  <1>4. \A codec : LastRate(Edits(o), 0, codec) = 0
    BY LastRateStep
  <1>5. RatesMade(s, o, type, pts, 0)
    <2> HIDE DEF s, pts
    <2>1. SUFFICES ASSUME NEW k \in 3..Len(s), NEW i \in Kept(type, pts), NEW rate \in Nat,
                          s[k] = Fmtp(Media[type][i], rate)
                   PROVE  rate = 0
      BY <1>4 DEF RatesMade
    <2>2. s[k].key = "fmtp" /\ s[k].rate = rate
      BY <2>1, LinesOfPayloads
    <2>3. QED
      BY <1>1, <2>2
  <1>6. QED
    BY <1>1, <1>2, <1>3, <1>5 DEF Progress

\* An edit that leaves the section as it is, and its codecs' rates.
LEMMA ProgressKept ==
  ASSUME NEW type \in Types, NEW m, NEW s, NEW o, NEW n \in Nat, Progress(s, o, type, m, n),
         Moved(o, type, n + 1) <=> Moved(o, type, n),
         \A i \in Rows(type) : LastRate(Edits(o), n + 1, Media[type][i].codec) =
                               LastRate(Edits(o), n, Media[type][i].codec)
  PROVE  Progress(s, o, type, m, n + 1)
  <1>1. PICK pts : /\ Whole(s, type, m, pts)
                   /\ ~Moved(o, type, n) => Kept(type, pts) = Rows(type)
                   /\ Moved(o, type, n) =>
                        Followed(pts, type, Rows(type), Wanted(WantedOf(o, type), type))
                   /\ RatesMade(s, o, type, pts, n)
    BY DEF Progress
  <1>2. \A i \in Kept(type, pts) : i \in Rows(type)
    BY DEF Kept
  <1>3. RatesMade(s, o, type, pts, n + 1)
    BY <1>1, <1>2 DEF RatesMade
  <1>4. QED
    BY <1>1, <1>3 DEF Progress

\* An edit more, and whether the payloads are in order then.
LEMMA MovedStep ==
  ASSUME NEW o, NEW type, NEW n \in Nat
  PROVE  Moved(o, type, n + 1) <=>
           \/ Moved(o, type, n)
           \/ /\ Edits(o)[n + 1].op = "reorder" /\ Edits(o)[n + 1].type = type
              /\ Edits(o)[n + 1].codecs # << >>
  <1>1. 1..(n + 1) = (1..n) \cup {n + 1}
    OBVIOUS
  <1>2. QED
    BY <1>1 DEF Moved

\* The edit that puts the payloads in order.
LEMMA ProgressReorder ==
  ASSUME NEW o \in Wishes, NEW type \in Types, NEW m, NEW n \in Nat, n < Len(Edits(o)),
         NEW s, Progress(s, o, type, m, n),
         Edits(o)[n + 1].op = "reorder", Edits(o)[n + 1].type = type,
         Edits(o)[n + 1].codecs # << >>
  PROVE  Progress(ReorderSection(s, type, Edits(o)[n + 1].codecs), o, type, m, n + 1)
  <1> DEFINE codecs == Edits(o)[n + 1].codecs
             wanted == Wanted(codecs, type)
             t == ReorderSection(s, type, codecs)
  <1>1. PICK pts : /\ Whole(s, type, m, pts)
                   /\ ~Moved(o, type, n) => Kept(type, pts) = Rows(type)
                   /\ RatesMade(s, o, type, pts, n)
    BY DEF Progress
  <1>2. /\ Len(Edits(o)) \in Nat
        /\ \A j \in 1..Len(Edits(o)) : Edits(o)[j].op = "reorder" =>
             Edits(o)[j].codecs = WantedOf(o, Edits(o)[j].type)
        /\ \A j, k \in 1..Len(Edits(o)) :
             Edits(o)[j].op = "reorder" /\ Edits(o)[k].op = "reorder"
             /\ Edits(o)[j].type = Edits(o)[k].type => j = k
    BY EditsAre
  <1>3. n + 1 \in 1..Len(Edits(o)) /\ \A j \in 1..n : j \in 1..Len(Edits(o)) /\ j # n + 1
    BY <1>2
  <1>4. codecs = WantedOf(o, type)
    BY <1>2, <1>3
  <1>5. ~Moved(o, type, n)
    BY <1>2, <1>3 DEF Moved
  <1>6. Kept(type, pts) = Rows(type)
    BY <1>1, <1>5
  <1>7. /\ wanted \in Seq(CodecNames)
        /\ \A i \in Rows(type) : Media[type][i].apt # None =>
             Media[type][i].codec \notin ToSet(wanted)
    BY <1>4, WantedIs
  <1>w. wanted = Wanted(codecs, type)
    OBVIOUS
  <1>t. t = ReorderSection(s, type, codecs)
    OBVIOUS
  <1> HIDE DEF codecs, wanted, t
  <1>8. \E new : /\ Whole(t, type, m, new)
                 /\ Followed(new, type, Kept(type, pts), wanted)
                 /\ \A k \in 3..Len(t) : \E l \in 3..Len(s) : t[k] = s[l]
    <2>1. Whole(s, type, m, pts) /\ wanted \in Seq(CodecNames)
      BY <1>1, <1>7
    <2>2. QED
      BY <2>1, <1>7, <1>w, <1>t, ReorderIs
  <1>9. PICK new : /\ Whole(t, type, m, new)
                   /\ Followed(new, type, Kept(type, pts), wanted)
                   /\ \A k \in 3..Len(t) : \E l \in 3..Len(s) : t[k] = s[l]
    BY <1>8
  <1>10. Followed(new, type, Rows(type), Wanted(WantedOf(o, type), type))
    BY <1>4, <1>6, <1>9, <1>w
  <1>11. Moved(o, type, n + 1)
    BY MovedStep
  <1>12. RatesMade(t, o, type, new, n + 1)
    <2>1. SUFFICES ASSUME NEW k \in 3..Len(t), NEW i \in Kept(type, new), NEW rate \in Nat,
                          t[k] = Fmtp(Media[type][i], rate)
                   PROVE  rate = IF Foremost(type, i)
                                 THEN LastRate(Edits(o), n + 1, Media[type][i].codec) ELSE 0
      BY DEF RatesMade
    <2>2. PICK l \in 3..Len(s) : t[k] = s[l]
      BY <1>9
    <2>3. i \in Kept(type, pts)
      BY <1>6 DEF Kept
    <2>4. rate = IF Foremost(type, i) THEN LastRate(Edits(o), n, Media[type][i].codec) ELSE 0
      BY <1>1, <2>1, <2>2, <2>3 DEF RatesMade
    <2>5. LastRate(Edits(o), n + 1, Media[type][i].codec) =
            LastRate(Edits(o), n, Media[type][i].codec)
      BY LastRateStep
    <2>6. QED
      BY <2>4, <2>5
  <1>13. QED
    BY <1>9, <1>10, <1>11, <1>12 DEF Progress, t, codecs

\* An edit that sets a rate.
LEMMA ProgressRate ==
  ASSUME NEW o \in Wishes, NEW type \in Types, NEW m, NEW n \in Nat, n < Len(Edits(o)),
         NEW s, Progress(s, o, type, m, n), Edits(o)[n + 1].op = "rate",
         Edits(o)[n + 1].rate # 0
  PROVE  Progress(SetRateOfSection(s, Edits(o)[n + 1].codec, Edits(o)[n + 1].rate),
                  o, type, m, n + 1)
  <1> DEFINE codec == Edits(o)[n + 1].codec
             new == Edits(o)[n + 1].rate
             t == SetRateOfSection(s, codec, new)
             M == Media[type]
             wanted == Wanted(WantedOf(o, type), type)
  <1>1. PICK pts : /\ Whole(s, type, m, pts)
                   /\ ~Moved(o, type, n) => Kept(type, pts) = Rows(type)
                   /\ Moved(o, type, n) => Followed(pts, type, Rows(type), wanted)
                   /\ RatesMade(s, o, type, pts, n)
    BY DEF Progress
  <1> DEFINE K == Kept(type, pts)
  <1>2. /\ Len(Edits(o)) \in Nat
        /\ \A j \in 1..Len(Edits(o)) : Edits(o)[j].op = "rate" => Edits(o)[j].rate \in Nat
        /\ \A j \in 1..Len(Edits(o)) : Edits(o)[j].op = "reorder" =>
             Edits(o)[j].codecs = WantedOf(o, Edits(o)[j].type)
    <2>1. \A j \in 1..Len(Edits(o)) : \/ Edits(o)[j].op = "reorder"
                                      \/ Edits(o)[j].op = "rate" /\ Edits(o)[j].rate \in Nat
      BY EditsAre
    <2>2. QED
      BY <2>1, EditsAre
  <1>3. n + 1 \in 1..Len(Edits(o)) /\ (\A j \in 1..n : j \in 1..Len(Edits(o))) /\ new \in Nat
    <2>1. n + 1 \in 1..Len(Edits(o)) /\ \A j \in 1..n : j \in 1..Len(Edits(o))
      BY <1>2
    <2>2. QED
      BY <2>1, <1>2
  <1>4. \A j \in Rows(type) : M[j].codec = codec => j \in K
    <2>1. CASE ~Moved(o, type, n)
      BY <1>1, <2>1
    <2>2. CASE Moved(o, type, n)
      <3>1. WantedOf(o, type) # << >>
        BY <2>2, <1>2, <1>3 DEF Moved
      <3>2. SUFFICES ASSUME NEW j \in Rows(type), M[j].codec = codec PROVE j \in K
        OBVIOUS
      <3>3. M[j].codec \in ToSet(WantedOf(o, type))
        BY <3>1, <3>2, <1>3, RatedAreWanted
      <3>4. M[j].codec \in ToSet(wanted)
        BY <3>3, WantedIs
      <3>5. j \in Asked(type, Rows(type), wanted)
        BY <3>4 DEF Asked
      <3>6. M[j].pt \in ToSet(pts)
        BY <3>5, <1>1, <2>2 DEF Followed
      <3>7. QED
        BY <3>6 DEF Kept
    <2>3. QED
      BY <2>1, <2>2
  <1>5. \A i \in K : i \in Rows(type) /\ i \in Nat
    BY PayloadsAre DEF Kept, Rows
  <1>6. \A i \in K : M[i].codec = codec => (FirstOf(type, K, codec, i) <=> Foremost(type, i))
    <2>1. SUFFICES ASSUME NEW i \in K, M[i].codec = codec
                   PROVE  FirstOf(type, K, codec, i) <=> Foremost(type, i)
      OBVIOUS
    <2>2. FirstOf(type, K, codec, i) <=> \A j \in K : M[j].codec = codec => i <= j
      BY <2>1 DEF FirstOf
    <2>3. Foremost(type, i) <=> \A j \in Rows(type) : j < i => M[j].codec # codec
      BY <2>1 DEF Foremost
    <2>4. \A j \in K : M[j].codec = codec => j \in Nat /\ (i <= j <=> ~(j < i))
      BY <2>1, <1>5
    <2> HIDE DEF K, M, codec
    <2>5. ASSUME \A j \in K : M[j].codec = codec => i <= j,
                 NEW j \in Rows(type), j < i, M[j].codec = codec
          PROVE  FALSE
      BY <2>4, <2>5, <1>4
    <2>6. ASSUME \A j \in Rows(type) : j < i => M[j].codec # codec, NEW j \in K, M[j].codec = codec
          PROVE  i <= j
      BY <2>4, <2>6, <1>5
    <2>7. QED
      BY <2>2, <2>3, <2>5, <2>6
  <1>7. /\ Whole(t, type, m, pts) /\ Len(t) = Len(s)
        /\ \A k \in 3..Len(s) : \A i \in K : \A old \in Nat :
             s[k] = Fmtp(M[i], old) =>
             t[k] = Fmtp(M[i], IF FirstOf(type, K, codec, i) THEN new ELSE old)
        /\ \A k \in 3..Len(s) : s[k].key # "fmtp" => t[k] = s[k]
    <2> HIDE DEF codec, new
    <2>1. QED
      BY <1>1, <1>3, SetRateIs
  <1>8. Moved(o, type, n + 1) <=> Moved(o, type, n)
    BY MovedStep
  <1>9. \A c : LastRate(Edits(o), n + 1, c) = IF c = codec THEN new ELSE LastRate(Edits(o), n, c)
    <2>1. \A c : LastRate(Edits(o), n + 1, c) =
            IF Edits(o)[n + 1].op = "rate" /\ Edits(o)[n + 1].codec = c /\ Edits(o)[n + 1].rate # 0
            THEN Edits(o)[n + 1].rate ELSE LastRate(Edits(o), n, c)
      BY LastRateStep
    <2>2. QED
      BY <2>1
  <1>k. \A k \in 3..Len(s) : s[k].key = "fmtp" =>
          \E i \in K : \E old \in Nat : s[k] = Fmtp(M[i], old)
    <2>1. \A k \in 1..Len(s) : s[k].key = "fmtp" =>
            \E i \in K : \E old \in Nat : s[k] = Fmtp(M[i], old)
      BY <1>1, WholeLines
    <2>2. Len(s) \in Nat
      BY <1>1 DEF Whole
    <2>3. QED
      BY <2>1, <2>2
  <1>p. \A i, j \in K : M[i].pt = M[j].pt => i = j
    BY <1>5, PayloadsAre
  <1> HIDE DEF t, codec, new, K, M
  <1>10. RatesMade(t, o, type, pts, n + 1)
    <2>1. SUFFICES ASSUME NEW k \in 3..Len(t), NEW i \in K, NEW rate \in Nat,
                          t[k] = Fmtp(M[i], rate)
                   PROVE  rate = IF Foremost(type, i)
                                 THEN LastRate(Edits(o), n + 1, M[i].codec) ELSE 0
      BY DEF RatesMade, K, M
    <2>2. t[k].key = "fmtp" /\ t[k].rate = rate /\ t[k].pt = M[i].pt
      BY <2>1, LinesOfPayloads
    <2>3. s[k].key = "fmtp" /\ k \in 3..Len(s)
      BY <2>2, <1>7
    <2>4. PICK p \in K : \E old \in Nat : s[k] = Fmtp(M[p], old)
      BY <2>3, <1>k
    <2>5. PICK old \in Nat : s[k] = Fmtp(M[p], old)
      BY <2>4
    <2>6. t[k] = Fmtp(M[p], IF FirstOf(type, K, codec, p) THEN new ELSE old)
      BY <2>3, <2>5, <1>7
    <2>7. /\ t[k].pt = M[p].pt
          /\ t[k].rate = IF FirstOf(type, K, codec, p) THEN new ELSE old
      <3>1. \A c, r : Fmtp(c, r).pt = c.pt /\ Fmtp(c, r).rate = r
        BY LinesOfPayloads
      <3>2. QED
        BY <2>6, <3>1
    <2>8. p = i
      BY <2>2, <2>7, <1>p
    <2>9. rate = IF FirstOf(type, K, codec, i) THEN new ELSE old
      BY <2>2, <2>7, <2>8
    <2>10. old = IF Foremost(type, i) THEN LastRate(Edits(o), n, M[i].codec) ELSE 0
      BY <1>1, <2>3, <2>5, <2>8 DEF RatesMade, K, M
    <2>11. CASE M[i].codec = codec
      BY <2>9, <2>10, <2>11, <1>6, <1>9
    <2>12. CASE M[i].codec # codec
      <3>1. ~FirstOf(type, K, codec, i)
        BY <2>12 DEF FirstOf, M
      <3>2. QED
        BY <3>1, <2>9, <2>10, <2>12, <1>9
    <2>13. QED
      BY <2>11, <2>12
  <1>11. QED
    BY <1>1, <1>7, <1>8, <1>10 DEF Progress, t, codec, new

\* Every edit takes a section one step further.
LEMMA ProgressStep ==
  ASSUME NEW o \in Wishes, NEW type \in Types, NEW m, NEW n \in Nat, n < Len(Edits(o)),
         NEW s, Progress(s, o, type, m, n)
  PROVE  Progress(EditedSection(s, Edits(o)[n + 1]), o, type, m, n + 1)
  <1>1. PICK edit : edit = Edits(o)[n + 1]
    OBVIOUS
  <1>2. Len(Edits(o)) \in Nat /\ n + 1 \in 1..Len(Edits(o))
    <2>1. Len(Edits(o)) \in Nat
      BY EditsAre
    <2>2. QED
      BY <2>1
  <1>3. edit.op = "reorder" \/ (edit.op = "rate" /\ edit.rate \in Nat)
    <2>1. \A j \in 1..Len(Edits(o)) : \/ Edits(o)[j].op = "reorder"
                                      \/ Edits(o)[j].op = "rate" /\ Edits(o)[j].rate \in Nat
      BY EditsAre
    <2>2. \/ Edits(o)[n + 1].op = "reorder"
          \/ Edits(o)[n + 1].op = "rate" /\ Edits(o)[n + 1].rate \in Nat
      BY <2>1, <1>2
    <2>3. QED
      BY <2>2, <1>1
  <1>4. Moved(o, type, n + 1) <=>
          \/ Moved(o, type, n)
          \/ edit.op = "reorder" /\ edit.type = type /\ edit.codecs # << >>
    BY <1>1, MovedStep
  <1>5. \A c : LastRate(Edits(o), n + 1, c) =
          IF edit.op = "rate" /\ edit.codec = c /\ edit.rate # 0
          THEN edit.rate ELSE LastRate(Edits(o), n, c)
    BY <1>1, LastRateStep
  <1>6. CASE edit.op = "reorder"
    <2>1. CASE edit.codecs = << >>
      <3>1. EditedSection(s, edit) = s
        BY <1>6, <2>1 DEF EditedSection
      <3>2. QED
        BY <3>1, <1>1, <1>4, <1>5, <1>6, <2>1, ProgressKept
    <2>2. CASE edit.codecs # << >> /\ edit.type # type
      <3>1. PICK pts : Whole(s, type, m, pts)
        BY DEF Progress
      <3>2. ReorderSection(s, edit.type, edit.codecs) = s
        BY <3>1, <2>2, OtherReorder
      <3>3. EditedSection(s, edit) = s
        BY <1>6, <2>2, <3>2 DEF EditedSection
      <3>4. QED
        BY <3>3, <1>1, <1>4, <1>5, <1>6, <2>2, ProgressKept
    <2>3. CASE edit.codecs # << >> /\ edit.type = type
      <3>1. EditedSection(s, edit) = ReorderSection(s, type, edit.codecs)
        BY <1>6, <2>3 DEF EditedSection
      <3>2. Progress(ReorderSection(s, type, Edits(o)[n + 1].codecs), o, type, m, n + 1)
        BY <1>1, <1>6, <2>3, ProgressReorder
      <3>3. QED
        BY <1>1, <3>1, <3>2
    <2>4. QED
      BY <2>1, <2>2, <2>3
  <1>7. CASE edit.op = "rate"
    <2>1. ~Moved(o, type, n + 1) <=> ~Moved(o, type, n)
      BY <1>4, <1>7
    <2>2. CASE edit.rate = 0 \/ edit.codec = "none"
      <3>1. EditedSection(s, edit) = s
        BY <1>7, <2>2 DEF EditedSection
      <3>2. \A i \in Rows(type) : Media[type][i].codec # "none"
        BY PayloadsAre
      <3>3. \A i \in Rows(type) : LastRate(Edits(o), n + 1, Media[type][i].codec) =
                                  LastRate(Edits(o), n, Media[type][i].codec)
        BY <3>2, <2>2, <1>5
      <3>4. QED
        BY <3>1, <3>3, <1>1, <2>1, ProgressKept
    <2>3. CASE ~(edit.rate = 0 \/ edit.codec = "none")
      <3>1. EditedSection(s, edit) = SetRateOfSection(s, edit.codec, edit.rate)
        BY <1>7, <2>3 DEF EditedSection
      <3>2. Progress(SetRateOfSection(s, Edits(o)[n + 1].codec, Edits(o)[n + 1].rate),
                     o, type, m, n + 1)
        BY <1>1, <1>7, <2>3, ProgressRate
      <3>3. QED
        BY <1>1, <3>1, <3>2
    <2>4. QED
      BY <2>2, <2>3
  <1>8. QED
    BY <1>3, <1>6, <1>7

-----------------------------------------------------------------------------
(* The invariant                                                           *)

\* What the parts of SectionsWhole, PreferenceFollowed and RatesSet say of one section.
SectionIsWhole(lines, type) ==
  /\ lines[1].type = type
  /\ Listed(lines) = Of(lines, {"rtpmap"})
  /\ Of(lines, {"rtcp-fb", "fmtp"}) \subseteq Listed(lines)
  /\ \A c \in ToSet(Media[type]) :
       c.apt # None => (c.pt \in Listed(lines) <=> c.apt \in Listed(lines))

\* A whole section is as SectionsWhole wants it.
LEMMA WholeMeans ==
  ASSUME NEW type \in Types, NEW m, NEW s, NEW pts, Whole(s, type, m, pts)
  PROVE  SectionIsWhole(s, type)
  <1> DEFINE M == Media[type]
             K == Kept(type, pts)
  <1>1. /\ s \in Seq(Lines) /\ Len(s) >= 2 /\ pts \in Seq(Nat) /\ s[1] = MLine(type, pts)
        /\ \A i \in K : \E k \in 3..Len(s) : s[k] = Rtpmap(M[i])
        /\ \A x \in ToSet(pts) : \E i \in Rows(type) : M[i].pt = x
        /\ \A i \in Rows(type) : M[i].apt # None =>
             (M[i].pt \in ToSet(pts) <=> M[i].apt \in ToSet(pts))
        /\ \A k \in 3..Len(s) : \E i \in K : Speaks(s[k], M[i])
    BY DEF Whole
  <1>2. s[1].type = type /\ Listed(s) = ToSet(pts)
    BY <1>1 DEF MLine, Listed
  <1>3. Len(s) \in Nat /\ \A x : x \in ToSet(s) <=> \E k \in 1..Len(s) : s[k] = x
    BY <1>1, InList
  <1>4. \A i \in K : M[i].pt \in ToSet(pts)
    BY DEF Kept
  <1>5. \A i \in Rows(type) : M[i].pt \in ToSet(pts) => i \in K
    BY DEF Kept
  <1>k. \A k \in 1..Len(s) : s[k].key \in {"rtpmap", "rtcp-fb", "fmtp"} => k \in 3..Len(s)
    BY WholeLines DEF Attributes
  <1> HIDE DEF K, M
  <1>6. ASSUME NEW k \in 1..Len(s), s[k].key \in {"rtpmap", "rtcp-fb", "fmtp"}
        PROVE  s[k].pt \in ToSet(pts)
    <2>1. PICK i \in K : Speaks(s[k], M[i])
      BY <1>1, <1>6, <1>k
    <2>2. s[k].pt = M[i].pt
      BY <2>1, SpeakingLines
    <2>3. QED
      BY <2>2, <1>4
  <1>7. ASSUME NEW x \in ToSet(pts)
        PROVE  \E l \in ToSet(s) : l.key = "rtpmap" /\ l.pt = x
    <2>1. PICK i \in Rows(type) : M[i].pt = x
      BY <1>1
    <2>2. PICK k \in 3..Len(s) : s[k] = Rtpmap(M[i])
      BY <2>1, <1>1, <1>5
    <2>3. s[k].key = "rtpmap" /\ s[k].pt = x
      BY <2>1, <2>2, LinesOfPayloads
    <2>4. s[k] \in ToSet(s)
      BY <1>3
    <2>5. QED
      BY <2>3, <2>4
  <1>8. Of(s, {"rtpmap"}) = ToSet(pts)
    BY <1>3, <1>6, <1>7 DEF Of
  <1>9. Of(s, {"rtcp-fb", "fmtp"}) \subseteq ToSet(pts)
    BY <1>3, <1>6 DEF Of
  <1>10. \A c \in ToSet(Media[type]) : c.apt # None =>
           (c.pt \in ToSet(pts) <=> c.apt \in ToSet(pts))
    <2>1. \A c \in ToSet(Media[type]) : \E i \in Rows(type) : c = M[i]
      BY PayloadsAre DEF ToSet, M
    <2>2. QED
      BY <1>1, <2>1
  <1>11. QED
    BY <1>2, <1>8, <1>9, <1>10 DEF SectionIsWhole

\* How many edits a section has seen: those of a subscribe are lost.
Seen(m) ==
  IF options.call # "publish" THEN 0
  ELSE IF m \in Dealt THEN Len(Edits(options)) ELSE IF m = mid THEN made ELSE 0

\* The text is cut into the sections of the layout; each is as far as its edits, and those
\* that no transceiver has reached are the offered ones.
SectionsSeen(text, start) ==
  /\ Cuts(text, Len(layout), start)
  /\ \A m \in 1..Len(layout) :
       /\ Progress(Part(text, start, m), options, layout[m], m, Seen(m))
       /\ m \notin first..mid => Part(text, start, m) = SectionLines(layout[m], m)

\* The types, the text, and both.
TypeInv ==
  /\ layout \in Layouts /\ options \in Wishes
  /\ first \in 1..Len(layout) /\ mid \in first..(Len(layout) + 1)
  /\ made \in 0..Len(Edits(options)) /\ (mid = Len(layout) + 1 => made = 0)
TextInv == \E start : SectionsSeen(sdp, start)
SdpInv == TypeInv /\ TextInv

\* The types of the sections.
LEMMA LayoutIs ==
  ASSUME NEW list \in Layouts
  PROVE  Len(list) \in Nat /\ DOMAIN list = 1..Len(list)
         /\ \A m \in 1..Len(list) : list[m] \in Types
  <1>1. list \in Seq(Types)
    BY LayoutsAssumption
  <1>2. QED
    BY <1>1

\* The offer is cut into the offered sections.
LEMMA OfferIs ==
  ASSUME NEW list \in Layouts
  PROVE  \E start : /\ Cuts(Offer(list), Len(list), start)
                    /\ \A m \in 1..Len(list) :
                         Part(Offer(list), start, m) = SectionLines(list[m], m)
  <1> DEFINE secs == [i \in DOMAIN list |-> SectionLines(list[i], i)]
  <1>1. Len(list) \in Nat /\ DOMAIN list = 1..Len(list) /\ \A m \in 1..Len(list) : list[m] \in Types
    BY LayoutIs
  <1>2. \A m \in 1..Len(list) : /\ Shape(SectionLines(list[m], m), m)
                                /\ SectionLines(list[m], m) \in Seq(Lines)
    <2>1. SUFFICES ASSUME NEW m \in 1..Len(list)
                   PROVE  Shape(SectionLines(list[m], m), m)
      BY DEF Shape
    <2>2. PICK type \in Types : type = list[m]
      BY <1>1
    <2>3. m \in Nat
      BY <1>1
    <2>4. Whole(SectionLines(type, m), type, m, AllPts(type))
      BY <2>3, OfferedWhole
    <2>5. Shape(SectionLines(type, m), m)
      BY <2>4, WholeShape
    <2>6. QED
      BY <2>2, <2>5
  <1>3. /\ secs = [i \in 1..Len(list) |-> secs[i]]
        /\ \A m \in 1..Len(list) : secs[m] = SectionLines(list[m], m)
    BY <1>1
  <1>4. Offer(list) = << SessionLine >> \o FlattenSeq(secs) \o << EndLine >>
    BY DEF Offer
  <1> HIDE DEF secs
  <1>5. secs \in [1..Len(list) -> Seq(Lines)]
    BY <1>2, <1>3
  <1>6. secs \in Seq(Seq(Lines)) /\ Len(secs) = Len(list)
    BY <1>1, <1>5
  <1>7. \A m \in 1..Len(secs) : Shape(secs[m], m)
    BY <1>2, <1>3, <1>6
  <1>8. \E start :
           /\ Cuts(Offer(list), Len(secs), start)
           /\ \A m \in 1..Len(secs) : Part(Offer(list), start, m) = secs[m]
    BY <1>4, <1>6, <1>7, Concatenated
  <1>9. QED
    BY <1>3, <1>6, <1>8

\* The invariant holds of the offer.
LEMMA SdpInitInv == SdpInit => SdpInv
  <1> SUFFICES ASSUME SdpInit PROVE SdpInv
    OBVIOUS
  <1>1. /\ layout \in Layouts /\ options \in Wishes /\ sdp = Offer(layout)
        /\ first \in DOMAIN layout /\ mid = first /\ made = 0
    BY DEF SdpInit
  <1>2. Len(layout) \in Nat /\ DOMAIN layout = 1..Len(layout)
        /\ \A m \in 1..Len(layout) : layout[m] \in Types
    BY <1>1, LayoutIs
  <1>3. Len(Edits(options)) \in Nat
    BY <1>1, EditsAre
  <1>4. TypeInv
    BY <1>1, <1>2, <1>3 DEF TypeInv
  <1>5. PICK start : /\ Cuts(sdp, Len(layout), start)
                     /\ \A m \in 1..Len(layout) : Part(sdp, start, m) = SectionLines(layout[m], m)
    BY <1>1, OfferIs
  <1>6. ASSUME NEW m \in 1..Len(layout)
        PROVE  Progress(Part(sdp, start, m), options, layout[m], m, Seen(m))
    <2>1. m \notin Dealt
      BY <1>1, <1>2 DEF Dealt
    <2>2. Seen(m) = 0
      BY <2>1, <1>1 DEF Seen
    <2>3. m \in Nat /\ layout[m] \in Types
      BY <1>2
    <2>4. Progress(SectionLines(layout[m], m), options, layout[m], m, 0)
      BY <2>3, ProgressStart
    <2>5. QED
      BY <2>2, <2>4, <1>5
  <1>7. SectionsSeen(sdp, start)
    BY <1>5, <1>6 DEF SectionsSeen
  <1>8. QED
    BY <1>4, <1>7 DEF SdpInv, TextInv

\* An edit leaves the text as it is, or puts the edited section in the place of the section.
LEMMA EditedIs ==
  ASSUME NEW text, NEW edit, NEW m, edit.op \in {"reorder", "rate"}
  PROVE  \/ /\ Edited(text, edit, m) = text
            /\ \A s : EditedSection(s, edit) = s
         \/ Edited(text, edit, m) = Replaced(text, m, EditedSection(SectionOf(text, m), edit))
  <1>1. CASE edit.op = "reorder"
    BY <1>1 DEF Edited, EditedSection, ReorderCodecs
  <1>2. CASE edit.op = "rate"
    BY <1>2 DEF Edited, EditedSection, SetMaxBitrate
  <1>3. QED
    BY <1>1, <1>2

\* What an edit makes of the text.
LEMMA EditIs ==
  ASSUME NEW text, NEW start, NEW list \in Layouts, NEW o \in Wishes, NEW m \in 1..Len(list),
         NEW n \in Nat, n < Len(Edits(o)), Cuts(text, Len(list), start),
         Progress(Part(text, start, m), o, list[m], m, n)
  PROVE  LET new == Edited(text, Edits(o)[n + 1], m)
         IN  \E cuts : /\ Cuts(new, Len(list), cuts)
                       /\ Progress(Part(new, cuts, m), o, list[m], m, n + 1)
                       /\ \A i \in 1..Len(list) : i # m => Part(new, cuts, i) = Part(text, start, i)
  <1> DEFINE edit == Edits(o)[n + 1]
             s == Part(text, start, m)
             u == EditedSection(s, edit)
             new == Edited(text, edit, m)
  <1>1. Len(list) \in Nat /\ list[m] \in Types
    BY LayoutIs
  <1>2. Progress(u, o, list[m], m, n + 1)
    BY <1>1, ProgressStep
  <1>3. edit.op \in {"reorder", "rate"}
    <2>1. Len(Edits(o)) \in Nat
      BY EditsAre
    <2>2. n + 1 \in 1..Len(Edits(o))
      BY <2>1
    <2>3. \A j \in 1..Len(Edits(o)) : \/ Edits(o)[j].op = "reorder"
                                      \/ Edits(o)[j].op = "rate" /\ Edits(o)[j].rate \in Nat
      BY EditsAre
    <2>4. \/ Edits(o)[n + 1].op = "reorder"
          \/ Edits(o)[n + 1].op = "rate"
      BY <2>2, <2>3
    <2>5. QED
      BY <2>4
  <1>4. SectionOf(text, m) = s
    BY <1>1, RangeIs
  <1>5. PICK pts : Whole(u, list[m], m, pts)
    BY <1>2 DEF Progress
  <1>6. Shape(u, m)
    BY <1>1, <1>5, WholeShape
  <1> HIDE DEF edit
  <1>7. \/ new = text /\ u = s
        \/ new = Replaced(text, m, u)
    BY <1>3, <1>4, EditedIs
  <1> HIDE DEF s, u, new
  <1>8. CASE new = text /\ u = s
    BY <1>2, <1>8 DEF s, edit, new
  <1>9. CASE new = Replaced(text, m, u)
    <2>1. PICK cuts : /\ Cuts(new, Len(list), cuts) /\ Part(new, cuts, m) = u
                      /\ \A i \in 1..Len(list) : i # m => Part(new, cuts, i) = Part(text, start, i)
      BY <1>1, <1>6, <1>9, ReplaceIs
    <2>2. QED
      BY <1>2, <2>1 DEF edit, new
  <1>10. QED
    BY <1>7, <1>8, <1>9

\* Every step keeps it.
LEMMA SdpNextInv == SdpInv /\ [SdpNext]_sdpVars => SdpInv'
  <1> SUFFICES ASSUME SdpInv, [SdpNext]_sdpVars PROVE SdpInv'
    OBVIOUS
  <1>1. /\ layout \in Layouts /\ options \in Wishes
        /\ first \in 1..Len(layout) /\ mid \in first..(Len(layout) + 1)
        /\ made \in 0..Len(Edits(options)) /\ (mid = Len(layout) + 1 => made = 0)
    BY DEF SdpInv, TypeInv
  <1>2. Len(layout) \in Nat /\ Len(Edits(options)) \in Nat
    BY <1>1, LayoutIs, EditsAre
  <1>3. PICK start : SectionsSeen(sdp, start)
    BY DEF SdpInv, TextInv
  <1>4. /\ Cuts(sdp, Len(layout), start)
        /\ \A m \in 1..Len(layout) :
             /\ Progress(Part(sdp, start, m), options, layout[m], m, Seen(m))
             /\ m \notin first..mid => Part(sdp, start, m) = SectionLines(layout[m], m)
    BY <1>3 DEF SectionsSeen
  <1>9. CASE Edit /\ options.call # "publish"
    <2>1. /\ mid <= Len(layout) /\ made < Len(Edits(options)) /\ sdp' = sdp /\ made' = made + 1
          /\ layout' = layout /\ options' = options /\ first' = first /\ mid' = mid
      BY <1>9 DEF Edit
    <2>2. \A m : Seen(m)' = Seen(m)
      BY <1>9, <2>1 DEF Seen
    <2>3. SectionsSeen(sdp, start)'
      BY <1>4, <2>1, <2>2 DEF SectionsSeen
    <2>4. TypeInv'
      BY <1>1, <1>2, <2>1 DEF TypeInv
    <2>5. QED
      BY <2>3, <2>4 DEF SdpInv, TextInv
  <1>5. CASE Edit /\ options.call = "publish"
    <2>1. /\ mid <= Len(layout) /\ made < Len(Edits(options))
          /\ sdp' = Edited(sdp, Edits(options)[made + 1], mid) /\ made' = made + 1
          /\ layout' = layout /\ options' = options /\ first' = first /\ mid' = mid
      BY <1>5 DEF Edit
    <2>2. mid \in 1..Len(layout) /\ made \in Nat /\ mid \notin Dealt
      BY <1>1, <1>2, <2>1 DEF Dealt
    <2>3. Seen(mid) = made
      BY <1>5, <2>2 DEF Seen
    <2>4. \E cuts : /\ Cuts(sdp', Len(layout), cuts)
                    /\ Progress(Part(sdp', cuts, mid), options, layout[mid], mid, made + 1)
                    /\ \A i \in 1..Len(layout) : i # mid =>
                         Part(sdp', cuts, i) = Part(sdp, start, i)
      BY <1>1, <1>4, <2>1, <2>2, <2>3, EditIs
    <2>5. PICK cuts : /\ Cuts(sdp', Len(layout), cuts)
                      /\ Progress(Part(sdp', cuts, mid), options, layout[mid], mid, made + 1)
                      /\ \A i \in 1..Len(layout) : i # mid =>
                           Part(sdp', cuts, i) = Part(sdp, start, i)
      BY <2>4
    <2>6. Dealt' = Dealt
      BY <2>1 DEF Dealt
    <2>7. \A m : Seen(m)' = IF m = mid THEN made + 1 ELSE Seen(m)
      BY <1>5, <2>1, <2>2, <2>6 DEF Seen
    <2>8. ASSUME NEW m \in 1..Len(layout)
          PROVE  /\ Progress(Part(sdp', cuts, m), options, layout[m], m, Seen(m)')
                 /\ m \notin first..mid => Part(sdp', cuts, m) = SectionLines(layout[m], m)
      <3>1. CASE m = mid
        <4>1. Seen(m)' = made + 1
          BY <3>1, <2>7
        <4>2. m \in first..mid
          BY <3>1, <1>1
        <4>3. QED
          BY <3>1, <4>1, <4>2, <2>5
      <3>2. CASE m # mid
        <4>1. Seen(m)' = Seen(m) /\ Part(sdp', cuts, m) = Part(sdp, start, m)
          BY <3>2, <2>5, <2>7
        <4>2. QED
          BY <4>1, <1>4
      <3>3. QED
        BY <3>1, <3>2
    <2>9. SectionsSeen(sdp, cuts)'
      BY <2>1, <2>5, <2>8 DEF SectionsSeen
    <2>10. TypeInv'
      BY <1>1, <1>2, <2>1 DEF TypeInv
    <2>11. QED
      BY <2>9, <2>10 DEF SdpInv, TextInv
  <1>6. CASE NextTransceiver
    <2>1. /\ mid <= Len(layout) /\ made = Len(Edits(options)) /\ mid' = mid + 1 /\ made' = 0
          /\ sdp' = sdp /\ layout' = layout /\ options' = options /\ first' = first
      BY <1>6 DEF NextTransceiver
    <2>2. mid \in Nat /\ first \in Nat
      BY <1>1, <1>2
    <2>3. \A m \in 1..Len(layout) : /\ m \in Dealt' <=> m \in Dealt \/ m = mid
                                    /\ m \notin first..mid' => m \notin first..mid
      BY <1>1, <1>2, <2>1, <2>2 DEF Dealt
    <2>4. \A m \in 1..Len(layout) : m = mid + 1 => m \notin Dealt /\ m # mid
      BY <1>1, <1>2, <2>2 DEF Dealt
    <2>5. \A m \in 1..Len(layout) : Seen(m)' = Seen(m)
      BY <2>1, <2>3, <2>4 DEF Seen
    <2>6. SectionsSeen(sdp, start)'
      BY <1>4, <2>1, <2>3, <2>5 DEF SectionsSeen
    <2>7. TypeInv'
      BY <1>1, <1>2, <2>1, <2>2 DEF TypeInv
    <2>8. QED
      BY <2>6, <2>7 DEF SdpInv, TextInv
  <1>7. CASE UNCHANGED sdpVars
    <2>1. /\ sdp' = sdp /\ layout' = layout /\ options' = options /\ first' = first
          /\ mid' = mid /\ made' = made
      BY <1>7 DEF sdpVars
    <2>2. Dealt' = Dealt
      BY <2>1 DEF Dealt
    <2>3. \A m : Seen(m)' = Seen(m)
      BY <2>1, <2>2 DEF Seen
    <2>4. SectionsSeen(sdp, start)'
      BY <1>4, <2>1, <2>3 DEF SectionsSeen
    <2>5. TypeInv'
      BY <1>1, <2>1 DEF TypeInv
    <2>6. QED
      BY <2>4, <2>5 DEF SdpInv, TextInv
  <1>10. QED
    BY <1>5, <1>6, <1>7, <1>9 DEF SdpNext

-----------------------------------------------------------------------------
(* The properties                                                          *)

\* The invariant holds, whatever is offered and asked for.
THEOREM SdpSpecInv == SdpSpec => []SdpInv
  <1>1. QED
    BY SdpInitInv, SdpNextInv, PTL DEF SdpSpec

\* A section by its cuts.
LEMMA SectionBy ==
  ASSUME NEW start, SectionsSeen(sdp, start), TypeInv, NEW m \in 1..Len(layout)
  PROVE  /\ Section(sdp, m) = Part(sdp, start, m) /\ Home(sdp, m) = start[m]
         /\ start[m] \in 1..Len(sdp) /\ layout[m] \in Types
         /\ sdp[start[m]] = Part(sdp, start, m)[1]
         /\ \E pts : /\ Whole(Section(sdp, m), layout[m], m, pts)
                     /\ Moved(options, layout[m], Seen(m)) =>
                          Followed(pts, layout[m], Rows(layout[m]),
                                   Wanted(WantedOf(options, layout[m]), layout[m]))
                     /\ RatesMade(Section(sdp, m), options, layout[m], pts, Seen(m))
  <1>1. /\ Cuts(sdp, Len(layout), start)
        /\ Progress(Part(sdp, start, m), options, layout[m], m, Seen(m))
    BY DEF SectionsSeen
  <1>2. Len(layout) \in Nat /\ layout[m] \in Types
    BY LayoutIs DEF TypeInv
  <1>3. /\ Section(sdp, m) = Part(sdp, start, m) /\ Home(sdp, m) = start[m]
        /\ start[m] \in 1..Len(sdp)
    BY <1>1, <1>2, SectionIs
  <1>4. sdp[start[m]] = Part(sdp, start, m)[1]
    BY <1>1, <1>2, FirstLine
  <1>5. QED
    BY <1>1, <1>2, <1>3, <1>4 DEF Progress

\* Cuts into whole sections are what SectionsWhole asks for.
LEMMA SectionsWholeFollows == SdpInv => SectionsWhole
  <1> SUFFICES ASSUME SdpInv PROVE SectionsWhole
    OBVIOUS
  <1>1. TypeInv
    BY DEF SdpInv
  <1>2. PICK start : SectionsSeen(sdp, start)
    BY DEF SdpInv, TextInv
  <1>3. /\ Cuts(sdp, Len(layout), start)
        /\ \A m \in 1..Len(layout) :
             m \notin first..mid => Part(sdp, start, m) = SectionLines(layout[m], m)
    BY <1>2 DEF SectionsSeen
  <1>4. Len(layout) \in Nat /\ DOMAIN layout = 1..Len(layout)
    BY <1>1, LayoutIs DEF TypeInv
  <1>5. \A m \in 1..Len(layout) :
          /\ Section(sdp, m) = Part(sdp, start, m) /\ Home(sdp, m) = start[m]
          /\ layout[m] \in Types /\ sdp[start[m]] = Part(sdp, start, m)[1]
          /\ \E pts : Whole(Section(sdp, m), layout[m], m, pts)
    BY <1>1, <1>2, SectionBy
  <1>6. \A m \in 1..Len(layout) : SectionIsWhole(Section(sdp, m), layout[m])
    <2>1. SUFFICES ASSUME NEW m \in 1..Len(layout)
                   PROVE  SectionIsWhole(Section(sdp, m), layout[m])
      OBVIOUS
    <2>2. PICK s, type : s = Section(sdp, m) /\ type = layout[m]
      OBVIOUS
    <2>3. PICK pts : Whole(s, type, m, pts)
      BY <1>5, <2>2
    <2>4. SectionIsWhole(s, type)
      BY <1>5, <2>2, <2>3, WholeMeans
    <2>5. QED
      BY <2>2, <2>4
  <1>7. Head(sdp) = SessionLine /\ Last(sdp) = EndLine
    <2>1. sdp \in Seq(Lines) /\ sdp[1] = SessionLine /\ sdp[Len(sdp)] = EndLine
      BY <1>3 DEF Cuts
    <2>2. QED
      BY <2>1 DEF Last
  <1>8. ASSUME NEW k \in DOMAIN sdp, IsM(sdp[k])
        PROVE  \E m \in DOMAIN layout : Home(sdp, m) = k
    <2>1. k \in 1..Len(sdp)
      <3>1. sdp \in Seq(Lines)
        BY <1>3 DEF Cuts
      <3>2. QED
        BY <3>1
    <2>2. PICK m \in 1..Len(layout) : k = start[m]
      BY <1>3, <1>4, <1>8, <2>1, Places
    <2>3. QED
      BY <1>4, <1>5, <2>2
  <1>9. ASSUME NEW m \in DOMAIN layout
        PROVE  /\ sdp[Home(sdp, m)].type = layout[m]
               /\ \A n \in 1..(m - 1) : Home(sdp, n) < Home(sdp, m)
               /\ m \notin first..mid => Section(sdp, m) = SectionLines(layout[m], m)
    <2>1. sdp[Home(sdp, m)].type = layout[m]
      BY <1>4, <1>5, <1>6 DEF SectionIsWhole
    <2>2. ASSUME NEW n \in 1..(m - 1) PROVE Home(sdp, n) < Home(sdp, m)
      <3>1. n \in 1..Len(layout) /\ m \in 1..(Len(layout) + 1) /\ n < m
        BY <1>4
      <3>2. start[n] + 2 <= start[m] /\ start[m] \in Nat
        BY <1>3, <1>4, <3>1, StartsGrow
      <3>3. start[n] \in Nat
        BY <1>3, <1>4, <3>1, CutsLines
      <3>4. QED
        BY <1>4, <1>5, <3>1, <3>2, <3>3
    <2>3. QED
      BY <1>3, <1>4, <1>5, <2>1, <2>2
  <1>10. \A m \in DOMAIN layout :
           LET lines == Section(sdp, m)
           IN  /\ Listed(lines) = Of(lines, {"rtpmap"})
               /\ Of(lines, {"rtcp-fb", "fmtp"}) \subseteq Listed(lines)
               /\ \A c \in ToSet(Media[layout[m]]) :
                    c.apt # None => (c.pt \in Listed(lines) <=> c.apt \in Listed(lines))
    BY <1>4, <1>6 DEF SectionIsWhole
  <1>11. QED
    BY <1>7, <1>8, <1>9, <1>10 DEF SectionsWhole

\* The sections that were dealt with have seen all edits, of a publish.
LEMMA DealtIs ==
  ASSUME TypeInv, NEW m \in Dealt
  PROVE  /\ m \in 1..Len(layout) /\ options \in Wishes
         /\ Seen(m) = IF options.call = "publish" THEN Len(Edits(options)) ELSE 0
  <1>1. Len(layout) \in Nat
    BY LayoutIs DEF TypeInv
  <1>2. QED
    BY <1>1 DEF TypeInv, Dealt, Seen

\* What PreferenceFollowed says of the payloads of one m-line.
AllChosen(pts, offered, wanted) ==
  LET chosen == {c \in offered : c.codec \in ToSet(wanted)}
  IN  ToSet(pts) = {c.pt : c \in {c \in offered : \E d \in chosen : d.pt \in {c.pt, c.apt}}}
PutInOrder(pts, offered, wanted) ==
  LET chosen == {c \in offered : c.codec \in ToSet(wanted)}
  IN  \A c, d \in chosen : \A i, j \in DOMAIN wanted :
        i < j /\ wanted[i] = c.codec /\ wanted[j] = d.codec /\ c # d =>
        \E p, q \in DOMAIN pts : p < q /\ pts[p] = c.pt /\ pts[q] = d.pt
NoneTwice(pts, wanted) == IsInjective(wanted) => IsInjective(pts)

\* A section that has seen all edits was put in the order of the preference.
LEMMA PreferenceFollows == SdpInv => PreferenceFollowed
  <1> SUFFICES ASSUME SdpInv PROVE PreferenceFollowed
    OBVIOUS
  <1>1. TypeInv
    BY DEF SdpInv
  <1>2. PICK start : SectionsSeen(sdp, start)
    BY DEF SdpInv, TextInv
  <1>3. SUFFICES ASSUME options.call = "publish", NEW m \in Dealt, Preferred(layout[m]) # << >>
                 PROVE  LET wanted == Preferred(layout[m]) \o AllowList[layout[m]]
                            offered == ToSet(Media[layout[m]])
                            chosen == {c \in offered : c.codec \in ToSet(wanted)}
                            pts == Section(sdp, m)[1].pts
                            Ahead(c, d) == \E i, j \in DOMAIN pts :
                              i < j /\ pts[i] = c.pt /\ pts[j] = d.pt
                        IN  /\ ToSet(pts) =
                                 {c.pt : c \in {c \in offered :
                                                   \E d \in chosen : d.pt \in {c.pt, c.apt}}}
                            /\ \A c, d \in chosen : \A i, j \in DOMAIN wanted :
                                 i < j /\ wanted[i] = c.codec /\ wanted[j] = d.codec /\ c # d =>
                                 Ahead(c, d)
                            /\ IsInjective(wanted) => IsInjective(pts)
    BY DEF PreferenceFollowed
  <1>4. m \in 1..Len(layout) /\ Seen(m) = Len(Edits(options)) /\ options \in Wishes
    BY <1>1, <1>3, DealtIs
  <1> DEFINE type == layout[m]
             wanted == Wanted(WantedOf(options, type), type)
             s == Section(sdp, m)
             M == Media[type]
             R == Rows(type)
  <1>5. Preferred(type) = WantedOf(options, type)
    BY DEF Preferred, WantedOf
  <1>6. type \in Types
    BY <1>1, <1>2, <1>4, SectionBy
  <1>7. Moved(options, type, Seen(m))
    <2>1. PICK j \in 1..Len(Edits(options)) :
            Edits(options)[j].op = "reorder" /\ Edits(options)[j].type = type
      BY <1>3, <1>4, <1>5, <1>6, EditsAre
    <2>2. Edits(options)[j].codecs = WantedOf(options, type)
      BY <2>1, <1>4, EditsAre
    <2>3. QED
      BY <2>1, <2>2, <1>3, <1>4, <1>5 DEF Moved
  <1>8. PICK pts : Whole(s, type, m, pts) /\ Followed(pts, type, R, wanted)
    BY <1>1, <1>2, <1>4, <1>7, SectionBy
  <1>9. s[1].pts = pts /\ pts \in Seq(Nat)
    BY <1>8 DEF Whole, MLine
  <1>10. wanted = Preferred(layout[m]) \o AllowList[layout[m]] /\ wanted \in Seq(CodecNames)
    <2>1. wanted \in Seq(CodecNames)
      BY <1>4, <1>6, WantedIs
    <2>2. QED
      BY <1>5, <2>1 DEF Wanted
  <1>11. /\ \A c \in ToSet(M) : \E i \in R : c = M[i]
         /\ \A i \in R : M[i] \in ToSet(M)
         /\ \A i, j \in R : M[i].pt = M[j].pt => i = j
    <2>1. DOMAIN M = R
      BY <1>6, PayloadsAre
    <2>2. QED
      BY <2>1, <1>6, PayloadsAre DEF ToSet
  <1>12. /\ \A x : x \in ToSet(pts) <=>
              \E i \in R : /\ M[i].pt = x
                           /\ \/ M[i].codec \in ToSet(wanted)
                              \/ \E d \in R : M[d].codec \in ToSet(wanted) /\ M[i].apt = M[d].pt
         /\ \A c, d \in R : \A i, j \in 1..Len(wanted) :
              i < j /\ wanted[i] = M[c].codec /\ wanted[j] = M[d].codec =>
              \E p, q \in 1..Len(pts) : p < q /\ pts[p] = M[c].pt /\ pts[q] = M[d].pt
         /\ Single(wanted) => Single(pts)
    BY <1>8 DEF Followed, InOrder, Asked
  <1>13. DOMAIN pts = 1..Len(pts) /\ DOMAIN wanted = 1..Len(wanted)
    <2> HIDE DEF wanted
    <2>1. QED
      BY <1>9, <1>10
  <1> HIDE DEF wanted, s, M, R, type
  <1> DEFINE chosen == {c \in ToSet(M) : c.codec \in ToSet(wanted)}
             of == {c \in ToSet(M) : \E d \in chosen : d.pt \in {c.pt, c.apt}}
  <1>14. ToSet(pts) = {c.pt : c \in of}
    <2>1. ASSUME NEW x \in ToSet(pts) PROVE \E c \in of : c.pt = x
      <3>1. PICK i \in R : /\ M[i].pt = x
                           /\ \/ M[i].codec \in ToSet(wanted)
                              \/ \E d \in R : M[d].codec \in ToSet(wanted) /\ M[i].apt = M[d].pt
        BY <1>12
      <3>2. M[i] \in of
        BY <3>1, <1>11
      <3>3. QED
        BY <3>1, <3>2
    <2>2. ASSUME NEW c \in of PROVE c.pt \in ToSet(pts)
      <3>1. PICK i \in R : c = M[i]
        BY <1>11
      <3>2. PICK e \in chosen : e.pt \in {c.pt, c.apt}
        OBVIOUS
      <3>3. PICK d \in R : e = M[d]
        BY <1>11
      <3>4. M[d].codec \in ToSet(wanted)
        BY <3>3
      <3>5. CASE e.pt = c.pt
        BY <3>1, <3>3, <3>4, <3>5, <1>11, <1>12
      <3>6. CASE e.pt = c.apt
        <4>1. M[i].apt = M[d].pt
          BY <3>1, <3>3, <3>6
        <4>2. QED
          BY <3>1, <3>4, <4>1, <1>12
      <3>7. QED
        BY <3>2, <3>5, <3>6
    <2>3. QED
      BY <2>1, <2>2
  <1>15. ASSUME NEW c \in chosen, NEW d \in chosen, NEW i \in 1..Len(wanted),
                NEW j \in 1..Len(wanted), i < j, wanted[i] = c.codec, wanted[j] = d.codec
         PROVE  \E p, q \in 1..Len(pts) : p < q /\ pts[p] = c.pt /\ pts[q] = d.pt
    BY <1>15, <1>11, <1>12
  <1>16. IsInjective(wanted) => IsInjective(pts)
    BY <1>12, <1>13 DEF IsInjective, Single
  <1>17. AllChosen(pts, ToSet(M), wanted)
    BY <1>14 DEF AllChosen
  <1>18. PutInOrder(pts, ToSet(M), wanted)
    BY <1>13, <1>15 DEF PutInOrder
  <1>19. NoneTwice(pts, wanted)
    BY <1>16 DEF NoneTwice
  <1> HIDE DEF chosen, of
  <1>20. /\ Section(sdp, m)[1].pts = pts /\ Preferred(layout[m]) \o AllowList[layout[m]] = wanted
         /\ Media[layout[m]] = M
    BY <1>9, <1>10 DEF s, M, type
  <1>21. /\ AllChosen(Section(sdp, m)[1].pts, ToSet(Media[layout[m]]),
                  Preferred(layout[m]) \o AllowList[layout[m]])
         /\ PutInOrder(Section(sdp, m)[1].pts, ToSet(Media[layout[m]]),
                     Preferred(layout[m]) \o AllowList[layout[m]])
         /\ NoneTwice(Section(sdp, m)[1].pts, Preferred(layout[m]) \o AllowList[layout[m]])
    BY <1>17, <1>18, <1>19, <1>20
  <1>22. QED
    BY <1>21, Zenon DEF AllChosen, PutInOrder, NoneTwice

\* A section that has seen all edits has the rates that were named last.
LEMMA RatesFollow == SdpInv => RatesSet
  <1> SUFFICES ASSUME SdpInv PROVE RatesSet
    OBVIOUS
  <1>1. TypeInv
    BY DEF SdpInv
  <1>2. PICK start : SectionsSeen(sdp, start)
    BY DEF SdpInv, TextInv
  <1>3. SUFFICES ASSUME NEW m \in Dealt, NEW l \in ToSet(Section(sdp, m)), l.key = "fmtp"
                 PROVE  LET media == Media[layout[m]]
                            Fore(i) == \A j \in 1..(i - 1) : media[j].codec # media[i].codec
                        IN  \E i \in DOMAIN media :
                              /\ media[i].pt = l.pt
                              /\ l.rate = IF options.call = "publish" /\ Fore(i)
                                          THEN RateOf(options[layout[m]], media[i].codec) ELSE 0
    BY DEF RatesSet
  <1>4. /\ m \in 1..Len(layout) /\ options \in Wishes
        /\ Seen(m) = IF options.call = "publish" THEN Len(Edits(options)) ELSE 0
    BY <1>1, <1>3, DealtIs
  <1> DEFINE type == layout[m]
             s == Section(sdp, m)
             M == Media[type]
  <1>5. type \in Types
    BY <1>1, <1>2, <1>4, SectionBy
  <1>6. PICK pts : Whole(s, type, m, pts) /\ RatesMade(s, options, type, pts, Seen(m))
    BY <1>1, <1>2, <1>4, SectionBy
  <1> HIDE DEF s, type
  <1>7. PICK k \in 1..Len(s) : s[k] = l
    <2>1. s \in Seq(Lines)
      BY <1>6 DEF Whole
    <2>2. QED
      BY <1>3, <2>1, InList DEF s
  <1>8. s[k].key = "fmtp" => \E i \in Kept(type, pts) : \E rate \in Nat :
          M[i].fmtp /\ s[k] = Fmtp(M[i], rate)
    BY <1>5, <1>6, WholeLines
  <1>9. PICK i \in Kept(type, pts) : \E rate \in Nat : s[k] = Fmtp(M[i], rate)
    BY <1>3, <1>7, <1>8
  <1>10. PICK rate \in Nat : s[k] = Fmtp(M[i], rate)
    BY <1>9
  <1>11. k \in 3..Len(s)
    BY <1>3, <1>5, <1>6, <1>7, WholeLines DEF Attributes
  <1>12. rate = IF Foremost(type, i) THEN LastRate(Edits(options), Seen(m), M[i].codec) ELSE 0
    BY <1>4, <1>6, <1>10, <1>11 DEF RatesMade
  <1>13. i \in Rows(type) /\ DOMAIN M = Rows(type) /\ Rows(type) = 1..Len(M) /\ Len(M) \in Nat
    BY <1>5, PayloadsAre DEF Kept, Rows
  <1>14. LastRate(Edits(options), Seen(m), M[i].codec) =
           IF options.call = "publish" THEN RateOf(options[type], M[i].codec) ELSE 0
    <2>1. CASE options.call = "publish"
      BY <1>4, <1>5, <1>13, <2>1, LastRateIs
    <2>2. CASE options.call # "publish"
      <3>1. Seen(m) = 0
        BY <1>4, <2>2
      <3>2. \A codec : LastRate(Edits(options), 0, codec) = 0
        BY LastRateStep
      <3>3. QED
        BY <2>2, <3>1, <3>2
    <2>3. QED
      BY <2>1, <2>2
  <1>15. l.pt = M[i].pt /\ l.rate = rate
    BY <1>7, <1>10, LinesOfPayloads
  <1>16. Foremost(type, i) <=> \A j \in 1..(i - 1) : M[j].codec # M[i].codec
    <2>1. \A j \in 1..Len(M) : j < i <=> j \in 1..(i - 1)
      BY <1>13
    <2>2. \A j \in 1..(i - 1) : j \in 1..Len(M)
      BY <1>13
    <2>3. QED
      BY <2>1, <2>2, <1>13 DEF Foremost
  <1>17. QED
    BY <1>12, <1>13, <1>14, <1>15, <1>16 DEF type

\* findMLineRangeWithMID, reorderCodecs, setCodecParam: after any number of edits, of any
\* sections, the text still has its ends and its m-lines in their order, every section is
\* whole, and those that no transceiver has reached are the offered ones.
THEOREM SectionsWholeInvariant == SdpSpec => []SectionsWhole
  <1>1. QED
    BY SdpSpecInv, SectionsWholeFollows, PTL

\* reorderCodecs: in a section that a publish has dealt with, nothing is left but the payloads of the
\* codecs that were asked for or are allowed, in that order, and what repairs them.
THEOREM PreferenceInvariant == SdpSpec => []PreferenceFollowed
  <1>1. QED
    BY SdpSpecInv, PreferenceFollows, PTL

\* _setMaxBitrate: in a section that was dealt with, the first payload of a codec has the rate
\* that was named last for it, and no other payload has a rate.
THEOREM RatesInvariant == SdpSpec => []RatesSet
  <1>1. QED
    BY SdpSpecInv, RatesFollow, PTL
=============================================================================
