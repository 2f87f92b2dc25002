----------------------------- MODULE DeskProofs -----------------------------
(***************************************************************************)
(* The agent's server, proved of every behaviour of Desk.                  *)
(*                                                                         *)
(* The rate limit. RateHolds is not inductive: it says nothing of a thread *)
(* between its check and its stamp, nor of the stamps that stand for the   *)
(* calls. RateInv adds that a call which was not given up holds the gate   *)
(* while it runs, that each call of the last minute has a stamp of its own,*)
(* and that who has passed the check still has room in every minute it     *)
(* falls in.                                                               *)
(*                                                                         *)
(* The walk. WalkMisses speaks of a walk that has ended. WalkInv says what *)
(* holds on the way: of the rows that were listed throughout, the unseen   *)
(* ones before the cursor are no more than have departed, and the repeats, *)
(* with the seen rows still ahead of it, no more than have arrived; and a  *)
(* page that was read and not yet told will leave it so. Pushed is what    *)
(* makes it inductive: when a listing changes, no more rows cross an offset*)
(* one way than come or go before it.                                      *)
(***************************************************************************)
EXTENDS Desk, FiniteSetTheorems, SequenceTheorems, WellFoundedInduction, TLAPS

-----------------------------------------------------------------------------
(* The rate limit.                                                         *)

\* The shape of a call, and what its phase says of its having been counted.
Consistent(counted, phase, at) ==
  /\ counted = TRUE => phase \notin {"waiting", "entered", "checked"}
  /\ counted = TRUE \/ phase = "checked" => at \in Nat
CallOf(request, phase, at, read, label, page) ==
  [request : request, phase : phase, orphan : BOOLEAN, at : at, counted : BOOLEAN,
   read : read, label : label, page : page]
Shape(c) ==
  /\ c \in CallOf({c.request}, {c.phase}, {c.at}, {c.read}, {c.label}, {c.page})
  /\ Consistent(c.counted, c.phase, c.at)

Counted == {k \in Call : calls[k] # None /\ calls[k].counted = TRUE}
Orphans == {k \in Call : calls[k] # None /\ calls[k].orphan = TRUE}
Checked == {k \in Call \ Orphans : InPhase(k, "checked")}
Busy    == {k \in Call \ Orphans : calls[k] # None /\ calls[k].phase \in Working}

\* The calls in the minute from a moment on that were not given up.
Minute(from) == {k \in Counted \ Orphans : calls[k].at \in from..(from + Window)}

\* The counted calls of the last minute.
Lately == {k \in Counted : calls[k].at >= clock - Window}

ShapesHold == DOMAIN calls = Call /\ \A k \in Call : calls[k] # None => Shape(calls[k])
\* Who runs and was not given up holds the gate.
GateHeld == Busy \subseteq {gate}
ClockSound == clock \in Nat /\ stamps \in Seq(Nat)
\* Each counted call of the last minute has its own stamp.
Stamped ==
  \E f \in Injection(Lately, DOMAIN stamps) : \A k \in Lately : stamps[f[k]] = calls[k].at
\* Who has passed the check may still be counted.
RoomLeft ==
  \A k \in Checked : \A from \in Nat :
    calls[k].at \in from..(from + Window) => Cardinality(Minute(from)) < Limit
WithinLimit == \A from \in Nat : Cardinality(Minute(from)) <= Limit

RateInv == ShapesHold /\ GateHeld /\ ClockSound /\ Stamped /\ RoomLeft /\ WithinLimit

LEMMA Parameters ==
  IsFiniteSet(Call) /\ None \notin Call /\ Limit \in Nat /\ Limit > 0 /\ Window \in Nat
BY AgentServerAssumption

LEMMA InFinite ==
  ASSUME NEW from
  PROVE  IsFiniteSet(Minute(from)) /\ Cardinality(Minute(from)) \in Nat
<1>1. Minute(from) \in SUBSET Call
  BY DEF Minute, Counted
<1> QED BY <1>1, Parameters, FS_Subset, FS_CardinalityType

\* A part of the calls of a minute is no more than all of them.
LEMMA InShrinks ==
  ASSUME NEW from, Minute(from)' \subseteq Minute(from)
  PROVE  Cardinality(Minute(from)') <= Cardinality(Minute(from)) /\ Cardinality(Minute(from)') \in Nat
<1>1. IsFiniteSet(Minute(from)) /\ Minute(from)' \in SUBSET Minute(from)
  BY InFinite
<1> HIDE DEF Minute
<1> QED BY <1>1, FS_Subset, FS_CardinalityType

LEMMA RateHeld ==
  ASSUME RateInv
  PROVE  RateHolds
<1> SUFFICES ASSUME NEW from \in 0..clock
             PROVE  Cardinality({k \in Call : calls[k] # None /\ calls[k].counted
                                              /\ calls[k].at \in from..(from + Window)})
                      <= Limit + Cardinality({k \in Call : calls[k] # None /\ calls[k].orphan})
  BY DEF RateHolds
<1> DEFINE all == {k \in Call : calls[k] # None /\ calls[k].counted
                                /\ calls[k].at \in from..(from + Window)}
           orphans == {k \in Call : calls[k] # None /\ calls[k].orphan}
<1>1. orphans = Orphans /\ all \subseteq Minute(from) \cup Orphans
  BY DEF RateInv, ShapesHold, Shape, Minute, Counted, Orphans
<1>2. IsFiniteSet(Minute(from)) /\ IsFiniteSet(Orphans) /\ Cardinality(Minute(from)) \in Nat
      /\ Cardinality(Orphans) \in Nat
  <2>1. Orphans \in SUBSET Call
    BY DEF Orphans
  <2> QED BY <2>1, Parameters, InFinite, FS_Subset, FS_CardinalityType
<1>3. /\ IsFiniteSet(Minute(from) \cup Orphans)
      /\ Cardinality(Minute(from) \cup Orphans) <= Cardinality(Minute(from)) + Cardinality(Orphans)
      /\ Cardinality(Minute(from) \cup Orphans) \in Nat
  <2> DEFINE I == Minute(from) \cap Orphans
  <2>1. I \in SUBSET Orphans
    OBVIOUS
  <2>2. Cardinality(I) \in Nat
    BY <1>2, <2>1, FS_Subset, FS_CardinalityType
  <2>3. /\ IsFiniteSet(Minute(from) \cup Orphans)
        /\ Cardinality(Minute(from) \cup Orphans) = Cardinality(Minute(from)) + Cardinality(Orphans) - Cardinality(I)
    BY <1>2, FS_Union
  <2> QED BY <1>2, <2>2, <2>3, FS_CardinalityType
<1>4. Cardinality(all) <= Cardinality(Minute(from) \cup Orphans) /\ Cardinality(all) \in Nat
  <2>1. all \in SUBSET (Minute(from) \cup Orphans)
    BY <1>1
  <2> HIDE DEF all
  <2> QED BY <1>3, <2>1, FS_Subset, FS_CardinalityType
<1>5. Cardinality(Minute(from)) <= Limit
  BY DEF RateInv, WithinLimit, ClockSound
<1> HIDE DEF all, orphans
<1>6. Cardinality(all) <= Limit + Cardinality(orphans)
  BY <1>1, <1>2, <1>3, <1>4, <1>5, Parameters
<1> QED BY <1>6 DEF all, orphans

\* The first of the numbers of a set.
LEMMA LeastIsThere ==
  ASSUME NEW S, S \subseteq Nat, S # {}
  PROVE  Min(S) \in S /\ \A n \in S : Min(S) <= n
<1> DEFINE R == OpToRel(<, Nat)
<1>1. \A x, y \in Nat : y < x => <<y, x>> \in R
  BY DEF OpToRel
<1>2. IsWellFoundedOn(R, Nat)
  BY NatLessThanWellFounded
<1> HIDE DEF R
<1>3. PICK x \in S : \A y \in S : ~(<<y, x>> \in R)
  BY <1>2, WFMin
<1>4. \A y \in S : y \in Nat /\ x \in Nat /\ ~(y < x)
  BY <1>1, <1>3
<1>5. \A y \in S : x <= y
  BY <1>4
<1> QED BY <1>5 DEF Min

\* A step that lets nobody else into a minute leaves every minute within the limit.
LEMMA MinutesShrink ==
  ASSUME RateInv, ShapesHold',
         Counted' \subseteq Counted, Counted' \cap Orphans \subseteq Orphans',
         \A k \in Counted : calls'[k].at = calls[k].at
  PROVE  WithinLimit' /\ \A from \in Nat : Minute(from)' \subseteq Minute(from)
<1>1. \A from \in Nat : Minute(from)' \subseteq Minute(from)
  BY DEF Minute
<1>2. WithinLimit'
  <2> SUFFICES ASSUME NEW from \in Nat
               PROVE  Cardinality(Minute(from)') <= Limit
    BY DEF WithinLimit
  <2>1. Cardinality(Minute(from)) <= Limit
    BY DEF RateInv, WithinLimit
  <2> QED BY <1>1, <2>1, InShrinks, InFinite, Parameters
<1> QED BY <1>1, <1>2

\* A step that counts and checks nothing new.
LEMMA RateFrame ==
  ASSUME RateInv, ShapesHold', GateHeld',
         stamps' = stamps, clock' \in Nat, clock <= clock',
         Counted' \subseteq Counted, Counted' \cap Orphans \subseteq Orphans',
         Checked' \subseteq Checked,
         \A k \in Counted \cup Checked : calls'[k].at = calls[k].at
  PROVE  RateInv'
<1>1. clock \in Nat /\ Window \in Nat
  BY Parameters DEF RateInv, ClockSound
<1>2. \A k \in Counted : calls[k].at \in Nat
  BY DEF RateInv, ShapesHold, Shape, Consistent, Counted
<1>3. ClockSound'
  BY DEF RateInv, ClockSound
<1>4. Stamped'
  <2>1. PICK f \in Injection(Lately, DOMAIN stamps) : \A k \in Lately : stamps[f[k]] = calls[k].at
    BY DEF RateInv, Stamped
  <2>2. Lately' \subseteq Lately
    BY <1>1, <1>2 DEF Lately
  <2> DEFINE g == [k \in Lately' |-> f[k]]
  <2>3. g \in Injection(Lately', DOMAIN stamps')
    BY <2>1, <2>2 DEF Injection, IsInjective
  <2>4. \A k \in Lately' : stamps'[g[k]] = calls'[k].at
    BY <2>1, <2>2 DEF Lately
  <2> QED BY <2>3, <2>4 DEF Stamped
<1>5. WithinLimit' /\ \A from \in Nat : Minute(from)' \subseteq Minute(from)
  BY MinutesShrink
<1>6. RoomLeft'
  <2> SUFFICES ASSUME NEW k \in Checked', NEW from \in Nat, calls'[k].at \in from..(from + Window)
               PROVE  Cardinality(Minute(from)') < Limit
    BY DEF RoomLeft
  <2>1. Cardinality(Minute(from)) < Limit
    BY DEF RateInv, RoomLeft
  <2> QED BY <1>5, <2>1, InShrinks, InFinite, Parameters
<1> QED BY <1>3, <1>4, <1>5, <1>6 DEF RateInv

\* One call moves on, not to be checked or counted.
LEMMA Moves ==
  ASSUME RateInv, NEW k \in Call, NEW c, calls' = [calls EXCEPT ![k] = c], Shape(c),
         stamps' = stamps, clock' = clock,
         c.counted = TRUE => k \in Counted,
         c.phase = "checked" /\ c.orphan # TRUE => k \in Checked,
         k \in Counted \cup Checked => c.at = calls[k].at,
         k \in Orphans => c.orphan = TRUE,
         Busy \ {k} \subseteq {gate'},
         c.phase \in Working /\ c.orphan # TRUE => gate' = k
  PROVE  RateInv'
<1>1. /\ DOMAIN calls' = Call /\ calls'[k] = c
      /\ \A j \in Call : j # k => calls'[j] = calls[j]
  BY DEF RateInv, ShapesHold
<1>2. ShapesHold'
  <2>1. \A j \in Call : Shape(calls[j])' <=> Shape(calls'[j])
    BY DEF Shape
  <2>2. \A j \in Call : calls'[j] # None => Shape(calls'[j])
    BY <1>1 DEF RateInv, ShapesHold
  <2> QED BY <1>1, <2>1, <2>2 DEF ShapesHold
<1>3. GateHeld'
  <2>1. \A j \in Busy' : j # k => j \in Busy
    BY <1>1 DEF Busy, Orphans, Working
  <2>2. k \in Busy' => gate' = k
    BY <1>1 DEF Busy, Orphans, Shape
  <2> QED BY <2>1, <2>2 DEF GateHeld
<1>4. Counted' \subseteq Counted
  BY <1>1 DEF Counted
<1>5. Counted' \cap Orphans \subseteq Orphans'
  BY <1>1 DEF Orphans, Counted
<1>6. Checked' \subseteq Checked
  <2>1. \A j \in Checked' : j # k => j \in Checked
    BY <1>1 DEF Checked, InPhase, Orphans
  <2>2. k \in Checked' => k \in Checked
    BY <1>1 DEF Checked, InPhase, Orphans
  <2> QED BY <2>1, <2>2 DEF Checked
<1>7. \A j \in Counted \cup Checked : calls'[j].at = calls[j].at
  BY <1>1 DEF Counted, Checked
<1>8. clock' \in Nat /\ clock <= clock'
  BY DEF RateInv, ClockSound
<1> QED BY <1>2, <1>3, <1>4, <1>5, <1>6, <1>7, <1>8, RateFrame

\* While a call that was not given up runs, no other does, and the gate is its own.
LEMMA Alone ==
  ASSUME RateInv, NEW k \in Call, k \notin Orphans, calls[k] # None, calls[k].phase \in Working
  PROVE  gate = k /\ Busy = {k} /\ Checked \subseteq {k}
<1>1. k \in Busy
  BY DEF Busy
<1>2. gate = k /\ Busy = {k}
  BY <1>1 DEF RateInv, GateHeld
<1>3. Checked \subseteq Busy
  BY DEF Checked, Busy, InPhase, Working
<1> QED BY <1>2, <1>3

\* What the check drops is older than a minute.
LEMMA RecentKept ==
  ASSUME RateInv
  PROVE  /\ Recent \in Seq(Nat)
         /\ \E g \in Injection(Lately, DOMAIN Recent) : \A k \in Lately : Recent[g[k]] = calls[k].at
<1> DEFINE fresh == {i \in 1..Len(stamps) : stamps[i] >= clock - Window}
<1>1. clock \in Nat /\ Window \in Nat /\ stamps \in Seq(Nat) /\ DOMAIN stamps = 1..Len(stamps)
      /\ Len(stamps) \in Nat
  BY Parameters DEF RateInv, ClockSound
<1>2. Trimmed = IF fresh # {} THEN Min(fresh) ELSE 0
  BY DEF Trimmed, SelectInSeq
<1>3. PICK f \in Injection(Lately, DOMAIN stamps) : \A k \in Lately : stamps[f[k]] = calls[k].at
  BY DEF RateInv, Stamped
<1>4. \A k \in Lately : f[k] \in fresh
  BY <1>1, <1>3 DEF Injection, Lately
<1>5. fresh \subseteq Nat
  BY <1>1
<1> HIDE DEF fresh
<1>6. CASE fresh = {}
  <2>1. Recent = <<>> /\ Lately = {}
    BY <1>2, <1>4, <1>6 DEF Recent
  <2> DEFINE g == [k \in Lately |-> k]
  <2>2. g \in Injection(Lately, DOMAIN Recent)
    BY <2>1 DEF Injection, IsInjective
  <2> QED BY <2>1, <2>2
<1>7. CASE fresh # {}
  <2>1. Trimmed \in fresh /\ \A i \in fresh : Trimmed <= i
    BY <1>2, <1>5, <1>7, LeastIsThere
  <2>2. Trimmed \in 1..Len(stamps)
    BY <2>1 DEF fresh
  <2>3. Recent = SubSeq(stamps, Trimmed, Len(stamps))
    BY <1>1, <2>2 DEF Recent
  <2>4. /\ Recent \in Seq(Nat) /\ Len(Recent) = Len(stamps) - Trimmed + 1
        /\ \A i \in 1..Len(Recent) : Recent[i] = stamps[Trimmed + i - 1]
    BY <1>1, <2>2, <2>3
  <2> DEFINE g == [k \in Lately |-> f[k] - Trimmed + 1]
  <2>5. \A k \in Lately : f[k] \in Trimmed..Len(stamps)
    BY <1>1, <1>4, <2>1 DEF fresh
  <2>6. \A k \in Lately : g[k] \in 1..Len(Recent) /\ Trimmed + g[k] - 1 = f[k]
    <3> SUFFICES ASSUME NEW k \in Lately
                 PROVE  g[k] \in 1..Len(Recent) /\ Trimmed + g[k] - 1 = f[k]
      OBVIOUS
    <3> DEFINE i == f[k]
               n == Len(stamps)
               m == Len(Recent)
    <3>1. g[k] = i - Trimmed + 1 /\ i \in Trimmed..n
      BY <2>5
    <3>2. n \in Nat /\ Trimmed \in 1..n /\ m = n - Trimmed + 1
      BY <1>1, <2>2, <2>4
    <3> HIDE DEF g, i, n, m
    <3>3. g[k] \in 1..m /\ Trimmed + g[k] - 1 = i
      BY <3>1, <3>2
    <3> QED BY <3>3 DEF i, m
  <2>7. g \in Injection(Lately, DOMAIN Recent)
    <3>1. g \in [Lately -> DOMAIN Recent]
      BY <2>4, <2>6
    <3>2. \A j, k \in Lately : g[j] = g[k] => j = k
      BY <1>3, <2>6 DEF Injection, IsInjective
    <3> QED BY <3>1, <3>2 DEF Injection, IsInjective
  <2>8. \A k \in Lately : Recent[g[k]] = calls[k].at
    BY <1>3, <2>4, <2>6
  <2> QED BY <2>4, <2>7, <2>8
<1> QED BY <1>6, <1>7

\* A call as one of the steps leaves it.
LEMMA Reshaped ==
  ASSUME NEW c, NEW request, NEW phase, NEW at, NEW read, NEW label, NEW page,
         c \in CallOf({request}, {phase}, {at}, {read}, {label}, {page}),
         Consistent(c.counted, phase, at)
  PROVE  Shape(c) /\ c.phase = phase /\ c.at = at
<1>1. /\ c.request = request /\ c.phase = phase /\ c.at = at /\ c.read = read
      /\ c.label = label /\ c.page = page
  BY DEF CallOf
<1>2. c \in CallOf({c.request}, {c.phase}, {c.at}, {c.read}, {c.label}, {c.page})
  BY <1>1, Zenon
<1>3. Consistent(c.counted, c.phase, c.at)
  BY <1>1, Zenon
<1> QED BY <1>1, <1>2, <1>3 DEF Shape

LEMMA ShapeOf ==
  ASSUME RateInv, NEW k \in Call, calls[k] # None
  PROVE  Shape(calls[k]) /\ (k \in Orphans <=> calls[k].orphan = TRUE)
                         /\ (k \in Counted <=> calls[k].counted = TRUE)
BY DEF RateInv, ShapesHold, Orphans, Counted

\* A thread that has been counted goes on.
LEMMA Onward ==
  ASSUME RateInv, NEW k \in Call, calls[k] # None, calls[k].phase \in Working,
         NEW c, Shape(c), calls' = [calls EXCEPT ![k] = c],
         c.counted = calls[k].counted, c.orphan = calls[k].orphan, c.at = calls[k].at,
         c.phase # "checked",
         gate' = gate, stamps' = stamps, clock' = clock
  PROVE  RateInv'
<1>1. Busy \ {k} \subseteq {gate'}
  BY DEF RateInv, GateHeld
<1>2. c.orphan # TRUE => gate' = k
  BY ShapeOf, Alone
<1>3. c.counted = TRUE => k \in Counted
  BY ShapeOf
<1>4. k \in Orphans => c.orphan = TRUE
  BY ShapeOf
<1> QED BY <1>1, <1>2, <1>3, <1>4, Moves

LEMMA DoneRate ==
  ASSUME RateInv, NEW k \in Call, calls[k] # None, calls[k].phase \in {"counted", "resolved"},
         NEW page, Done(k, page), gate' = gate, stamps' = stamps, clock' = clock
  PROVE  RateInv'
<1> DEFINE c == [calls[k] EXCEPT !.phase = "done", !.page = page]
<1>1. Shape(calls[k])
  BY ShapeOf
<1>2. /\ c \in CallOf({calls[k].request}, {"done"}, {calls[k].at}, {calls[k].read},
                     {calls[k].label}, {page})
      /\ c.counted = calls[k].counted /\ c.orphan = calls[k].orphan
  BY <1>1 DEF Shape, CallOf
<1>3. calls' = [calls EXCEPT ![k] = c]
  BY DEF Done
<1>4. calls[k].phase \in Working
  BY DEF Working
<1> HIDE DEF c
<1>5. Shape(c) /\ c.phase = "done" /\ c.at = calls[k].at
  <2> DEFINE d == calls[k]
  <2>1. Consistent(c.counted, "done", d.at)
    BY <1>1, <1>2 DEF Shape, Consistent
  <2>2. c \in CallOf({d.request}, {"done"}, {d.at}, {d.read}, {d.label}, {page})
    BY <1>2
  <2>3. Shape(c) /\ c.phase = "done" /\ c.at = d.at
    <3> HIDE DEF d
    <3> QED BY <2>1, <2>2, Reshaped
  <2> QED BY <2>3
<1> QED BY <1>2, <1>3, <1>4, <1>5, Onward

LEMMA SendRate ==
  ASSUME RateInv, NEW k \in Call, NEW request, NEW step, Send(k, request, step)
  PROVE  RateInv'
<1> DEFINE c == Arrived(request)
<1>1. /\ Shape(c) /\ c.counted # TRUE /\ c.phase = "waiting"
  <2>1. c \in CallOf({request}, {"waiting"}, {None}, {None}, {None}, {None}) /\ c.counted = FALSE
    BY DEF Arrived, CallOf
  <2> HIDE DEF c
  <2>2. Consistent(c.counted, "waiting", None)
    BY <2>1 DEF Consistent
  <2>3. Shape(c) /\ c.phase = "waiting"
    BY <2>1, <2>2, Reshaped
  <2> QED BY <2>1, <2>3
<1>2. calls' = [calls EXCEPT ![k] = c] /\ calls[k] = None /\ UNCHANGED <<gate, stamps, clock>>
  BY DEF Send, Unused
<1>3. Busy \subseteq {gate'} /\ k \notin Counted \cup Checked \cup Orphans
  BY <1>2 DEF RateInv, GateHeld, Counted, Checked, Orphans, InPhase
<1>4. c.phase # "checked" /\ c.phase \notin Working
  BY <1>1 DEF Working
<1> HIDE DEF c
<1> QED BY <1>1, <1>2, <1>3, <1>4, Moves

LEMMA EnterRate ==
  ASSUME RateInv, NEW k \in Call, Enter(k)
  PROVE  RateInv'
<1> DEFINE c == [calls[k] EXCEPT !.phase = "entered"]
<1>1. calls[k] # None /\ calls[k].phase = "waiting" /\ gate = None /\ gate' = k
      /\ calls' = [calls EXCEPT ![k] = c] /\ UNCHANGED <<stamps, clock>>
  BY DEF Enter, InPhase
<1>2. Shape(calls[k])
  BY <1>1, ShapeOf
<1>3. /\ c \in CallOf({calls[k].request}, {"entered"}, {calls[k].at}, {calls[k].read},
                     {calls[k].label}, {calls[k].page})
      /\ c.counted = calls[k].counted /\ c.orphan = calls[k].orphan
  BY <1>2 DEF Shape, CallOf
<1>4. Busy = {}
  BY <1>1, Parameters DEF RateInv, GateHeld, Busy
<1>5. c.counted # TRUE
  BY <1>1, <1>2, <1>3 DEF Shape, Consistent
<1> HIDE DEF c
<1>6. Shape(c) /\ c.phase = "entered" /\ c.at = calls[k].at
  <2> DEFINE d == calls[k]
  <2>1. Consistent(c.counted, "entered", d.at)
    BY <1>5 DEF Consistent
  <2>2. c \in CallOf({d.request}, {"entered"}, {d.at}, {d.read}, {d.label}, {d.page})
    BY <1>3
  <2>3. Shape(c) /\ c.phase = "entered" /\ c.at = d.at
    <3> HIDE DEF d
    <3> QED BY <2>1, <2>2, Reshaped
  <2> QED BY <2>3
<1> QED BY <1>6, <1>1, <1>3, <1>4, <1>5, ShapeOf, Moves

LEMMA OverKept ==
  ASSUME NEW d, Shape(d)
  PROVE  LET c == [d EXCEPT !.phase = "over", !.read = None, !.label = None, !.page = None]
         IN  /\ Shape(c) /\ c.counted = d.counted /\ c.orphan = d.orphan
             /\ c.at = d.at /\ c.phase = "over"
<1> DEFINE c == [d EXCEPT !.phase = "over", !.read = None, !.label = None, !.page = None]
<1> SUFFICES Shape(c) /\ c.counted = d.counted /\ c.orphan = d.orphan /\ c.at = d.at /\ c.phase = "over"
  BY Zenon
<1>1. /\ c \in CallOf({d.request}, {"over"}, {d.at}, {None}, {None}, {None})
      /\ c.counted = d.counted /\ c.orphan = d.orphan
  BY DEF Shape, CallOf
<1> HIDE DEF c
<1>2. Consistent(c.counted, "over", d.at)
  BY <1>1 DEF Shape, Consistent
<1>3. Shape(c) /\ c.phase = "over" /\ c.at = d.at
  BY <1>1, <1>2, Reshaped, ZenonT(60)
<1> QED BY <1>1, <1>3

LEMMA ReplyRate ==
  ASSUME RateInv, NEW k \in Call, Reply(k)
  PROVE  RateInv'
<1> DEFINE c == [calls[k] EXCEPT !.phase = "over", !.read = None, !.label = None, !.page = None]
<1>1. calls[k] # None /\ calls[k].phase = "done" /\ gate' = (IF calls[k].orphan THEN gate ELSE None)
      /\ calls' = [calls EXCEPT ![k] = c] /\ UNCHANGED <<stamps, clock>>
  BY DEF Reply, InPhase, Over
<1>2. Shape(calls[k])
  BY <1>1, ShapeOf
<1>3. /\ Shape(c) /\ c.counted = calls[k].counted /\ c.orphan = calls[k].orphan
      /\ c.at = calls[k].at /\ c.phase = "over"
  BY <1>2, OverKept
<1>4. Busy \ {k} \subseteq {gate'}
  <2>1. CASE calls[k].orphan = TRUE
    BY <1>1, <2>1 DEF RateInv, GateHeld
  <2>2. CASE calls[k].orphan # TRUE
    BY <1>1, <2>2, ShapeOf, Alone DEF Working
  <2> QED BY <2>1, <2>2
<1>5. c.phase \notin Working /\ c.phase # "checked"
  BY <1>3 DEF Working
<1> HIDE DEF c
<1> QED BY <1>1, <1>3, <1>4, <1>5, ShapeOf, Moves

LEMMA CancelRate ==
  ASSUME RateInv, NEW k \in Call, Cancel(k)
  PROVE  RateInv'
<1>1. calls[k] # None /\ calls[k].orphan # TRUE /\ UNCHANGED <<stamps, clock>>
  <2>1. calls[k] # None /\ ~calls[k].orphan /\ UNCHANGED <<stamps, clock>>
    BY DEF Cancel
  <2> QED BY <2>1
<1>2. Shape(calls[k])
  BY <1>1, ShapeOf
<1>3. CASE InPhase(k, "waiting") /\ calls' = Over(k) /\ UNCHANGED gate
  <2> DEFINE c == [calls[k] EXCEPT !.phase = "over", !.read = None, !.label = None, !.page = None]
  <2>1. calls' = [calls EXCEPT ![k] = c]
    BY <1>3 DEF Over
  <2>2. /\ Shape(c) /\ c.counted = calls[k].counted /\ c.orphan = calls[k].orphan
        /\ c.at = calls[k].at /\ c.phase = "over"
    BY <1>2, OverKept
  <2>3. c.phase \notin Working /\ c.phase # "checked" /\ Busy \ {k} \subseteq {gate'}
    BY <1>3, <2>2 DEF Working, RateInv, GateHeld
  <2> HIDE DEF c
  <2> QED BY <1>1, <2>1, <2>2, <2>3, ShapeOf, Moves
<1>4. CASE /\ calls[k].phase \in Working
           /\ calls' = [calls EXCEPT ![k].orphan = TRUE] /\ gate' = None
  <2> DEFINE c == [calls[k] EXCEPT !.orphan = TRUE]
  <2>1. calls' = [calls EXCEPT ![k] = c]
    BY <1>4
  <2>2. /\ Shape(c) /\ c.counted = calls[k].counted /\ c.orphan = TRUE
        /\ c.at = calls[k].at /\ c.phase = calls[k].phase
    <3> DEFINE d == calls[k]
    <3>1. /\ c \in CallOf({d.request}, {d.phase}, {d.at}, {d.read}, {d.label}, {d.page})
          /\ c.counted = d.counted /\ c.orphan = TRUE
      BY <1>2 DEF Shape, CallOf
    <3>2. Consistent(c.counted, d.phase, d.at)
      BY <1>2, <3>1 DEF Shape
    <3> HIDE DEF c, d
    <3>3. Shape(c) /\ c.phase = d.phase /\ c.at = d.at
      BY <3>1, <3>2, Reshaped
    <3> QED BY <3>1, <3>3 DEF d
  <2>3. Busy \ {k} \subseteq {gate'}
    BY <1>1, <1>4, ShapeOf, Alone
  <2> HIDE DEF c
  <2> QED BY <1>1, <2>1, <2>2, <2>3, ShapeOf, Moves
<1> QED BY <1>3, <1>4 DEF Cancel

LEMMA ResolveRate ==
  ASSUME RateInv, NEW k \in Call, Resolve(k)
  PROVE  RateInv'
<1> DEFINE found == Hinted(calls[k].request.slug, calls[k].request.sub)
           c == [calls[k] EXCEPT !.phase = "resolved", !.read = tx[calls[k].request.tx],
                                 !.label = Label(found.category, found.subcategory)]
<1>1. calls[k] # None /\ calls[k].phase = "counted" /\ UNCHANGED <<gate, stamps, clock>>
      /\ (calls' = [calls EXCEPT ![k] = c] \/ Done(k, None))
  BY DEF Resolve, InPhase
<1>2. CASE Done(k, None)
  BY <1>1, <1>2, DoneRate
<1>3. CASE calls' = [calls EXCEPT ![k] = c]
  <2>1. Shape(calls[k])
    BY <1>1, ShapeOf
  <2> DEFINE d == calls[k]
             label == Label(found.category, found.subcategory)
             read == tx[d.request.tx]
  <2>2. /\ c \in CallOf({d.request}, {"resolved"}, {d.at}, {read}, {label}, {d.page})
        /\ c.counted = d.counted /\ c.orphan = d.orphan
    <3> HIDE DEF label, read
    <3>1. c = [d EXCEPT !.phase = "resolved", !.read = read, !.label = label]
      BY Zenon DEF label, read
    <3> HIDE DEF c
    <3> QED BY <2>1, <3>1 DEF Shape, CallOf
  <2>3. calls[k].phase \in Working
    BY <1>1 DEF Working
  <2> HIDE DEF c, label, read, d
  <2>4. Shape(c) /\ c.phase = "resolved" /\ c.at = d.at
    <3>1. Consistent(c.counted, "resolved", d.at)
      BY <2>1, <2>2 DEF Shape, Consistent, d
    <3> QED BY <2>2, <3>1, Reshaped
  <2> QED BY <1>1, <1>3, <2>2, <2>3, <2>4, Onward DEF d
<1> QED BY <1>1, <1>2, <1>3

\* The check lets a call on when fewer than the limit were counted in the last minute.
LEMMA CheckRateRate ==
  ASSUME RateInv, NEW k \in Call, CheckRate(k)
  PROVE  RateInv'
<1> DEFINE d == calls[k]
           phase == IF Len(Recent) >= Limit THEN "done" ELSE "checked"
           c == [d EXCEPT !.at = clock, !.phase = phase]
<1>1. /\ d # None /\ d.phase = "entered" /\ stamps' = Recent /\ UNCHANGED <<gate, clock>>
      /\ calls' = [calls EXCEPT ![k] = c]
  BY DEF CheckRate, InPhase
<1>2. Shape(d) /\ d.counted # TRUE
  <2>1. Shape(d)
    BY <1>1, ShapeOf
  <2> QED BY <1>1, <2>1 DEF Shape, Consistent
<1>3. clock \in Nat /\ Window \in Nat /\ Limit \in Nat
  BY Parameters DEF RateInv, ClockSound
<1>4. /\ c \in CallOf({d.request}, {phase}, {clock}, {d.read}, {d.label}, {d.page})
      /\ c.counted = d.counted /\ c.orphan = d.orphan
  <2> HIDE DEF phase
  <2> QED BY <1>2 DEF Shape, CallOf
<1>5. phase = "checked" => Len(Recent) < Limit
  BY <1>3, RecentKept
<1> HIDE DEF c, phase, d
<1>6. Shape(c) /\ c.phase = phase /\ c.at = clock
  <2>1. Consistent(c.counted, phase, clock)
    BY <1>2, <1>3, <1>4 DEF Consistent
  <2> QED BY <1>4, <2>1, Reshaped, ZenonT(60)
<1>7. /\ DOMAIN calls' = Call /\ calls'[k] = c
      /\ \A j \in Call : j # k => calls'[j] = calls[j]
  BY <1>1 DEF RateInv, ShapesHold
<1>8. ShapesHold'
  <2>1. \A j \in Call : Shape(calls[j])' <=> Shape(calls'[j])
    BY DEF Shape
  <2>2. \A j \in Call : calls'[j] # None => Shape(calls'[j])
    BY <1>6, <1>7 DEF RateInv, ShapesHold
  <2> QED BY <1>7, <2>1, <2>2 DEF ShapesHold
<1>9. /\ Counted' \subseteq Counted /\ k \notin Counted'
      /\ Counted' \cap Orphans \subseteq Orphans'
      /\ \A j \in Counted : calls'[j].at = calls[j].at
  <2>1. k \notin Counted /\ k \notin Counted'
    BY <1>2, <1>4, <1>7 DEF Counted, d
  <2>2. \A j \in Counted' : j # k => j \in Counted
    BY <1>7 DEF Counted
  <2>3. \A j \in Orphans : j # k /\ j \in Counted' => j \in Orphans'
    BY <1>7 DEF Orphans, Counted
  <2>4. \A j \in Counted : j # k => calls'[j].at = calls[j].at
    BY <1>7 DEF Counted
  <2> QED BY <2>1, <2>2, <2>3, <2>4
<1>10. GateHeld'
  <2>1. k \in Busy' => k \in Busy
    BY <1>1, <1>4, <1>7 DEF Busy, Orphans, Working, d
  <2>2. \A j \in Busy' : j # k => j \in Busy
    BY <1>7 DEF Busy, Orphans, Working
  <2> QED BY <1>1, <2>1, <2>2 DEF RateInv, GateHeld
<1>11. ClockSound'
  BY <1>1, <1>3, RecentKept DEF ClockSound
<1>12. PICK f \in Injection(Lately, DOMAIN Recent) : \A j \in Lately : Recent[f[j]] = calls[j].at
  BY RecentKept
<1>13. Stamped'
  <2>1. Lately' \subseteq Lately
    BY <1>1, <1>9 DEF Lately
  <2> DEFINE g == [j \in Lately' |-> f[j]]
  <2>2. g \in Injection(Lately', DOMAIN stamps')
    BY <1>1, <1>12, <2>1 DEF Injection, IsInjective
  <2>3. \A j \in Lately' : stamps'[g[j]] = calls'[j].at
    BY <1>1, <1>9, <1>12, <2>1 DEF Lately
  <2> QED BY <2>2, <2>3 DEF Stamped
<1>14. WithinLimit' /\ \A from \in Nat : Minute(from)' \subseteq Minute(from)
  BY <1>8, <1>9, MinutesShrink
<1>15. RoomLeft'
  <2> SUFFICES ASSUME NEW j \in Checked', NEW from \in Nat, calls'[j].at \in from..(from + Window)
               PROVE  Cardinality(Minute(from)') < Limit
    BY DEF RoomLeft
  <2>1. Cardinality(Minute(from)') <= Cardinality(Minute(from)) /\ Cardinality(Minute(from)') \in Nat
        /\ Cardinality(Minute(from)) \in Nat
    BY <1>14, InShrinks, InFinite
  <2>2. CASE j # k
    <3>1. j \in Checked /\ calls[j].at \in from..(from + Window)
      BY <1>7, <2>2 DEF Checked, InPhase, Orphans
    <3>2. Cardinality(Minute(from)) < Limit
      BY <3>1 DEF RateInv, RoomLeft
    <3> QED BY <1>3, <2>1, <3>2
  <2>3. CASE j = k
    <3>1. Len(Recent) < Limit /\ clock \in from..(from + Window)
      BY <1>5, <1>6, <1>7, <2>3 DEF Checked, InPhase
    <3>2. Minute(from) \subseteq Lately
      <4>1. \A i \in Minute(from) : i \in Counted /\ calls[i].at \in Nat /\ calls[i].at >= from
        BY DEF Minute, RateInv, ShapesHold, Shape, Consistent, Counted
      <4> QED BY <1>3, <3>1, <4>1 DEF Lately
    <3>3. Recent \in Seq(Nat) /\ DOMAIN Recent = 1..Len(Recent) /\ Len(Recent) \in Nat
      BY RecentKept
    <3>4. IsFiniteSet(DOMAIN Recent) /\ Cardinality(DOMAIN Recent) = Len(Recent)
      <4> DEFINE n == Len(Recent)
      <4>1. n \in Nat /\ DOMAIN Recent = 1..n
        BY <3>3
      <4> HIDE DEF n
      <4>2. IsFiniteSet(1..n) /\ Cardinality(1..n) = IF 1 > n THEN 0 ELSE n - 1 + 1
        BY <4>1, FS_Interval
      <4>3. IsFiniteSet(1..n) /\ Cardinality(1..n) = n
        BY <4>1, <4>2
      <4> QED BY <4>1, <4>3 DEF n
    <3>5. IsFiniteSet(Lately) /\ Cardinality(Lately) <= Len(Recent)
      BY <1>12, <3>4, FS_Injection
    <3>6. Cardinality(Minute(from)) <= Cardinality(Lately) /\ Cardinality(Lately) \in Nat
      BY <3>2, <3>5, FS_Subset, FS_CardinalityType
    <3> QED BY <1>3, <2>1, <3>1, <3>3, <3>5, <3>6
  <2> QED BY <2>2, <2>3
<1> QED BY <1>8, <1>10, <1>11, <1>13, <1>14, <1>15 DEF RateInv

\* Who passed the check still has room when it is counted, or was given up since.
LEMMA CountCallRate ==
  ASSUME RateInv, NEW k \in Call, CountCall(k)
  PROVE  RateInv'
<1> DEFINE d == calls[k]
           c == [d EXCEPT !.phase = "counted", !.counted = TRUE]
<1>1. /\ d # None /\ d.phase = "checked" /\ stamps' = Append(stamps, d.at)
      /\ UNCHANGED <<gate, clock>> /\ calls' = [calls EXCEPT ![k] = c]
  BY DEF CountCall, InPhase
<1>2. Shape(d) /\ d.counted # TRUE /\ d.at \in Nat
  <2>1. Shape(d)
    BY <1>1, ShapeOf
  <2> QED BY <1>1, <2>1 DEF Shape, Consistent
<1>3. clock \in Nat /\ Window \in Nat /\ Limit \in Nat /\ stamps \in Seq(Nat)
  BY Parameters DEF RateInv, ClockSound
<1>4. /\ c \in CallOf({d.request}, {"counted"}, {d.at}, {d.read}, {d.label}, {d.page})
      /\ c.counted = TRUE /\ c.orphan = d.orphan
  BY <1>2 DEF Shape, CallOf
<1> HIDE DEF c, d
<1>5. Shape(c) /\ c.phase = "counted" /\ c.at = d.at
  <2>1. Consistent(c.counted, "counted", d.at)
    BY <1>2 DEF Consistent
  <2> QED BY <1>4, <2>1, Reshaped
<1>6. /\ DOMAIN calls' = Call /\ calls'[k] = c
      /\ \A j \in Call : j # k => calls'[j] = calls[j]
  BY <1>1 DEF RateInv, ShapesHold
<1>7. ShapesHold'
  <2>1. \A j \in Call : Shape(calls[j])' <=> Shape(calls'[j])
    BY DEF Shape
  <2>2. \A j \in Call : calls'[j] # None => Shape(calls'[j])
    BY <1>5, <1>6 DEF RateInv, ShapesHold
  <2> QED BY <1>6, <2>1, <2>2 DEF ShapesHold
<1>8. /\ Counted' \subseteq Counted \cup {k} /\ k \notin Counted
      /\ \A j \in Counted' : calls'[j].at = calls[j].at
  <2>1. k \notin Counted
    BY <1>2 DEF Counted, d
  <2>2. \A j \in Counted' : j # k => j \in Counted
    BY <1>6 DEF Counted
  <2>3. \A j \in Counted' : calls'[j].at = calls[j].at
    BY <1>5, <1>6 DEF Counted, d
  <2> QED BY <2>1, <2>2, <2>3
<1>9. \A j \in Counted' : j \in Orphans => j \in Orphans'
  <2>1. k \in Orphans /\ k \in Counted' => k \in Orphans'
    BY <1>4, <1>6 DEF Orphans, Counted, d
  <2>2. \A j \in Orphans : j # k /\ j \in Counted' => j \in Orphans'
    BY <1>6 DEF Orphans, Counted
  <2> QED BY <2>1, <2>2
<1>10. GateHeld'
  <2>1. k \in Busy' => k \in Busy
    BY <1>1, <1>4, <1>6 DEF Busy, Orphans, Working, d
  <2>2. \A j \in Busy' : j # k => j \in Busy
    BY <1>6 DEF Busy, Orphans, Working
  <2> QED BY <1>1, <2>1, <2>2 DEF RateInv, GateHeld
<1>11. ClockSound'
  BY <1>1, <1>2, <1>3 DEF ClockSound
<1>12. Stamped'
  <2>1. PICK f \in Injection(Lately, DOMAIN stamps) : \A j \in Lately : stamps[f[j]] = calls[j].at
    BY DEF RateInv, Stamped
  <2>2. Lately' \subseteq Lately \cup {k} /\ k \notin Lately
    BY <1>1, <1>8 DEF Lately
  <2> DEFINE n == Len(stamps) + 1
             g == [j \in Lately' |-> IF j = k THEN n ELSE f[j]]
  <2>3. /\ DOMAIN stamps' = 1..n /\ n \in Nat /\ n \notin DOMAIN stamps /\ n \in 1..n
        /\ DOMAIN stamps \subseteq 1..n /\ stamps'[n] = d.at
        /\ \A i \in DOMAIN stamps : stamps'[i] = stamps[i]
    BY <1>1, <1>2, <1>3
  <2>4. \A j \in Lately : f[j] \in DOMAIN stamps
    BY <2>1 DEF Injection
  <2> HIDE DEF n
  <2>5. g \in Injection(Lately', DOMAIN stamps')
    <3>1. g \in [Lately' -> DOMAIN stamps']
      BY <2>2, <2>3, <2>4
    <3>2. \A i, j \in Lately' : g[i] = g[j] => i = j
      BY <2>1, <2>2, <2>3, <2>4 DEF Injection, IsInjective
    <3> QED BY <3>1, <3>2 DEF Injection, IsInjective
  <2>6. \A j \in Lately' : stamps'[g[j]] = calls'[j].at
    <3> SUFFICES ASSUME NEW j \in Lately'
                 PROVE  stamps'[g[j]] = calls'[j].at
      OBVIOUS
    <3>1. calls'[j].at = calls[j].at
      BY <1>8 DEF Lately
    <3>2. CASE j = k
      BY <2>3, <3>1, <3>2 DEF d
    <3>3. CASE j # k
      BY <2>1, <2>2, <2>3, <2>4, <3>1, <3>3
    <3> QED BY <3>2, <3>3
  <2> QED BY <2>5, <2>6 DEF Stamped
<1>13. CASE k \in Orphans
  <2>1. \A from \in Nat : Minute(from)' \subseteq Minute(from)
    BY <1>8, <1>9, <1>13 DEF Minute
  <2>2. WithinLimit'
    <3> SUFFICES ASSUME NEW from \in Nat
                 PROVE  Cardinality(Minute(from)') <= Limit
      BY DEF WithinLimit
    <3>1. Cardinality(Minute(from)) <= Limit
      BY DEF RateInv, WithinLimit
    <3> QED BY <1>3, <2>1, <3>1, InShrinks, InFinite
  <2>3. RoomLeft'
    <3> SUFFICES ASSUME NEW j \in Checked', NEW from \in Nat, calls'[j].at \in from..(from + Window)
                 PROVE  Cardinality(Minute(from)') < Limit
      BY DEF RoomLeft
    <3>1. j # k
      BY <1>5, <1>6 DEF Checked, InPhase
    <3>2. j \in Checked /\ calls[j].at \in from..(from + Window)
      BY <1>6, <3>1 DEF Checked, InPhase, Orphans
    <3>3. Cardinality(Minute(from)) < Limit
      BY <3>2 DEF RateInv, RoomLeft
    <3> QED BY <1>3, <2>1, <3>3, InShrinks, InFinite
  <2> QED BY <1>7, <1>10, <1>11, <1>12, <2>2, <2>3 DEF RateInv
<1>14. CASE k \notin Orphans
  <2>1. k \in Checked /\ Checked \subseteq {k}
    BY <1>1, <1>14, Alone DEF Checked, InPhase, Working, d
  <2>2. Checked' = {}
    <3>1. k \notin Checked'
      BY <1>5, <1>6 DEF Checked, InPhase
    <3>2. \A j \in Checked' : j # k => j \in Checked
      BY <1>6 DEF Checked, InPhase, Orphans
    <3> QED BY <2>1, <3>1, <3>2
  <2>3. WithinLimit'
    <3> SUFFICES ASSUME NEW from \in Nat
                 PROVE  Cardinality(Minute(from)') <= Limit
      BY DEF WithinLimit
    <3>1. IsFiniteSet(Minute(from)) /\ Cardinality(Minute(from)) \in Nat /\ Cardinality(Minute(from)) <= Limit
      BY InFinite DEF RateInv, WithinLimit
    <3>2. \A j \in Minute(from)' : j \in Minute(from) \/ (j = k /\ d.at \in from..(from + Window))
      BY <1>8, <1>9 DEF Minute, d
    <3>3. CASE d.at \in from..(from + Window)
      <4>1. Cardinality(Minute(from)) < Limit
        BY <2>1, <3>3 DEF RateInv, RoomLeft, d
      <4>2. IsFiniteSet(Minute(from) \cup {k}) /\ Cardinality(Minute(from) \cup {k}) <= Limit
        <5> DEFINE before == Minute(from)
        <5> HIDE DEF before
        <5>1. /\ IsFiniteSet(before \cup {k})
              /\ Cardinality(before \cup {k})
                   = IF k \in before THEN Cardinality(before) ELSE Cardinality(before) + 1
          <6>1. IsFiniteSet(before)
            BY <3>1 DEF before
          <6> QED BY <6>1, FS_AddElement
        <5>2. Cardinality(before) \in Nat /\ Cardinality(before) < Limit
          BY <3>1, <4>1 DEF before
        <5>3. IsFiniteSet(before \cup {k}) /\ Cardinality(before \cup {k}) <= Limit
          BY <1>3, <5>1, <5>2
        <5> QED BY <5>3 DEF before
      <4>3. Minute(from)' \in SUBSET (Minute(from) \cup {k})
        BY <3>2
      <4> HIDE DEF Minute
      <4>4. Cardinality(Minute(from)') <= Cardinality(Minute(from) \cup {k})
            /\ Cardinality(Minute(from)') \in Nat /\ Cardinality(Minute(from) \cup {k}) \in Nat
        BY <4>2, <4>3, FS_Subset, FS_CardinalityType
      <4> QED BY <1>3, <4>2, <4>4
    <3>4. CASE d.at \notin from..(from + Window)
      <4>1. Minute(from)' \subseteq Minute(from)
        BY <3>2, <3>4
      <4> QED BY <1>3, <3>1, <4>1, InShrinks
    <3> QED BY <3>3, <3>4
  <2> QED BY <1>7, <1>10, <1>11, <1>12, <2>2, <2>3 DEF RateInv, RoomLeft
<1> QED BY <1>13, <1>14

\* What happens outside the server.
LEMMA QuietRate ==
  ASSUME RateInv, UNCHANGED <<calls, gate, stamps>>, clock' \in Nat, clock <= clock'
  PROVE  RateInv'
<1>1. Counted' = Counted /\ Orphans' = Orphans /\ Checked' = Checked /\ Busy' = Busy
  BY DEF Counted, Orphans, Checked, InPhase, Busy
<1>2. ShapesHold'
  <2>1. \A j \in Call : Shape(calls[j])' <=> Shape(calls[j])
    BY DEF Shape
  <2> QED BY <2>1 DEF RateInv, ShapesHold
<1>3. GateHeld'
  BY <1>1 DEF RateInv, GateHeld
<1> QED BY <1>1, <1>2, <1>3, RateFrame

LEMMA RateInit ==
  ASSUME Init
  PROVE  RateInv
<1>1. calls = [k \in Call |-> None] /\ stamps = <<>> /\ clock = 0
  BY DEF Init, AgentInit
<1>2. Counted = {} /\ Checked = {} /\ Busy = {}
  BY <1>1 DEF Counted, Checked, Busy, InPhase
<1>3. Lately = {} /\ \A from : Minute(from) = {}
  BY <1>2 DEF Lately, Minute
<1>4. Stamped
  <2> DEFINE g == [k \in Lately |-> k]
  <2>1. g \in Injection(Lately, DOMAIN stamps) /\ \A k \in Lately : stamps[g[k]] = calls[k].at
    BY <1>3 DEF Injection, IsInjective
  <2> QED BY <2>1 DEF Stamped
<1>5. WithinLimit
  BY <1>3, FS_EmptySet, Parameters DEF WithinLimit
<1>6. ShapesHold /\ GateHeld /\ ClockSound /\ RoomLeft
  BY <1>1, <1>2 DEF ShapesHold, GateHeld, ClockSound, RoomLeft
<1> QED BY <1>4, <1>5, <1>6 DEF RateInv

LEMMA RateStep ==
  ASSUME RateInv, [Next]_vars
  PROVE  RateInv'
<1>1. CASE UNCHANGED server
  BY <1>1, QuietRate DEF server, RateInv, ClockSound
<1>2. CASE Tick
  BY <1>2, QuietRate DEF Tick, RateInv, ClockSound
<1>3. ASSUME NEW k \in Call, Request(k) \/ StartWalk(k) \/ NextPage(k)
      PROVE  RateInv'
  BY <1>3, SendRate DEF Request, StartWalk, NextPage
<1>4. ASSUME NEW k \in Call, ReadPage(k) \/ ReadReport(k) \/ Commit(k)
      PROVE  RateInv'
  <2>1. calls[k] # None /\ calls[k].phase \in {"counted", "resolved"}
        /\ UNCHANGED <<gate, stamps, clock>> /\ \E page : Done(k, page)
    BY <1>4 DEF ReadPage, ReadReport, Commit, InPhase
  <2> QED BY <2>1, DoneRate
<1>5. ASSUME NEW k \in Call, Enter(k) \/ CheckRate(k) \/ CountCall(k) \/ Resolve(k) \/ Reply(k) \/ Cancel(k)
      PROVE  RateInv'
  BY <1>5, EnterRate, CheckRateRate, CountCallRate, ResolveRate, ReplyRate, CancelRate
<1>6. CASE Calls
  BY <1>2, <1>3, <1>4, <1>5, <1>6 DEF Calls
<1>7. CASE Next
  BY <1>1, <1>6, <1>7 DEF Next
<1> QED BY <1>1, <1>7 DEF vars, server

\* However calls are cancelled while they run, and whichever thread comes between the
\* check and the count, each minute lets through the limit and what was given up.
THEOREM RateLimitKept == Spec => []RateHolds
<1>1. Init => RateInv
  BY RateInit
<1>2. RateInv /\ [Next]_vars => RateInv'
  BY RateStep
<1>3. RateInv => RateHolds
  BY RateHeld
<1> QED BY <1>1, <1>2, <1>3, PTL DEF Spec

-----------------------------------------------------------------------------
(* Pages.                                                                  *)

\* The first rows of a listing.
First(rows, c) == {t \in rows : Offset(t, rows) < c}

\* The listing is in one order.
LEMMA OneOrder ==
  /\ \A t \in Tx : ~Before(t, t)
  /\ \A t, u, v \in Tx : Before(t, u) /\ Before(u, v) => Before(t, v)
  /\ \A t, u \in Tx : Before(t, u) \/ Before(u, t) \/ t = u
<1>1. \A t \in Tx : t \in Nat /\ Day(t) \in Int
  <2> SUFFICES ASSUME NEW t \in Tx PROVE t \in Nat /\ Day(t) \in Int
    OBVIOUS
  <2>1. t \in Nat /\ Data[t].year \in Nat /\ Data[t].month \in Nat /\ Data[t].day \in Nat
    BY TaxonomyAssumption
  <2>2. Day(t) = (Data[t].year * 12 + (Data[t].month - 1)) * 31 + Data[t].day
    BY DEF Day, Absolute, MonthOf
  <2> QED BY <2>1, <2>2
<1> QED BY <1>1 DEF Before

LEMMA RowsFinite ==
  ASSUME NEW rows \in SUBSET Tx
  PROVE  IsFiniteSet(rows) /\ Cardinality(rows) \in Nat
BY TaxonomyAssumption, FS_Subset, FS_CardinalityType

\* A part is no more than the whole, and two parts that do not meet add up.
LEMMA Parts ==
  ASSUME NEW rows \in SUBSET Tx, NEW part \in SUBSET rows
  PROVE  /\ Cardinality(part) <= Cardinality(rows)
         /\ Cardinality(part) \in Nat /\ Cardinality(rows) \in Nat
BY RowsFinite, FS_Subset

LEMMA Together ==
  ASSUME NEW a \in SUBSET Tx, NEW b \in SUBSET Tx
  PROVE  /\ Cardinality(a \cup b) <= Cardinality(a) + Cardinality(b)
         /\ a \cap b = {} => Cardinality(a \cup b) = Cardinality(a) + Cardinality(b)
         /\ Cardinality(a \cup b) \in Nat /\ Cardinality(a) \in Nat /\ Cardinality(b) \in Nat
<1>1. Cardinality(a \cup b) = Cardinality(a) + Cardinality(b) - Cardinality(a \cap b)
  BY RowsFinite, FS_Union
<1>2. Cardinality({}) = 0
  BY FS_EmptySet
<1>3. Cardinality(a \cap b) \in Nat
  <2>1. a \cap b \in SUBSET Tx
    OBVIOUS
  <2> QED BY <2>1, RowsFinite
<1>4. /\ Cardinality(a \cup b) \in Nat
      /\ Cardinality(a) \in Nat /\ Cardinality(b) \in Nat
  <2>1. a \cup b \in SUBSET Tx
    OBVIOUS
  <2> QED BY <2>1, RowsFinite
<1>5. a \cap b = {} => Cardinality(a \cap b) = 0
  BY <1>2
<1> QED BY <1>1, <1>3, <1>4, <1>5

\* Offsets follow the order, and each is another.
LEMMA OffsetsGrow ==
  ASSUME NEW rows \in SUBSET Tx
  PROVE  /\ \A t \in Tx : Offset(t, rows) \in Nat
         /\ \A t \in rows : Offset(t, rows) < Cardinality(rows)
         /\ \A t, u \in rows : Before(t, u) <=> Offset(t, rows) < Offset(u, rows)
         /\ \A t, u \in rows : Offset(t, rows) = Offset(u, rows) => t = u
<1> DEFINE ahead(t) == {u \in rows : Before(u, t)}
<1>1. \A t : ahead(t) \in SUBSET Tx
  OBVIOUS
<1>2. \A t \in Tx : Offset(t, rows) \in Nat
  BY <1>1, RowsFinite DEF Offset
<1>3. ASSUME NEW t \in rows PROVE Offset(t, rows) < Cardinality(rows)
  <2>1. ahead(t) \in SUBSET rows /\ t \notin ahead(t)
    BY OneOrder
  <2>2. ahead(t) # rows
    BY <2>1
  <2> HIDE DEF ahead
  <2>3. /\ Cardinality(ahead(t)) <= Cardinality(rows)
        /\ Cardinality(ahead(t)) # Cardinality(rows)
        /\ Cardinality(rows) \in Nat /\ Cardinality(ahead(t)) \in Nat
    BY <2>1, <2>2, RowsFinite, FS_Subset, FS_CardinalityType
  <2> QED BY <2>3 DEF Offset, ahead
<1>4. ASSUME NEW t \in rows, NEW u \in rows, Before(t, u)
      PROVE  Offset(t, rows) < Offset(u, rows)
  <2>1. ahead(t) \in SUBSET ahead(u) /\ t \in ahead(u) /\ t \notin ahead(t)
    BY <1>4, OneOrder
  <2>2. ahead(t) # ahead(u) /\ IsFiniteSet(ahead(u))
    BY <1>1, <2>1, RowsFinite
  <2> HIDE DEF ahead
  <2>3. /\ Cardinality(ahead(t)) <= Cardinality(ahead(u))
        /\ Cardinality(ahead(t)) # Cardinality(ahead(u))
        /\ Cardinality(ahead(t)) \in Nat /\ Cardinality(ahead(u)) \in Nat
    BY <2>1, <2>2, FS_Subset, FS_CardinalityType
  <2> QED BY <2>3 DEF Offset, ahead
<1>5. ASSUME NEW t \in rows, NEW u \in rows
      PROVE  /\ Before(t, u) <=> Offset(t, rows) < Offset(u, rows)
             /\ Offset(t, rows) = Offset(u, rows) => t = u
  <2>1. Offset(t, rows) \in Nat /\ Offset(u, rows) \in Nat
    BY <1>2
  <2>2. Before(t, u) \/ Before(u, t) \/ t = u
    BY OneOrder
  <2> QED BY <1>4, <2>1, <2>2, OneOrder
<1> QED BY <1>2, <1>3, <1>5

\* There are as many first rows as asked for, if there are so many.
LEMMA FirstRows ==
  ASSUME NEW rows \in SUBSET Tx, NEW c \in Nat
  PROVE  /\ First(rows, c) \in SUBSET rows
         /\ Cardinality(First(rows, c)) \in Nat /\ Cardinality(First(rows, c)) <= c
         /\ (\E t \in rows : Offset(t, rows) >= c) => Cardinality(First(rows, c)) = c
<1> DEFINE n == Cardinality(rows)
           F == First(rows, c)
           at == [t \in rows |-> Offset(t, rows)]
           from == [t \in F |-> Offset(t, rows)]
<1>1. F \in SUBSET rows /\ F \in SUBSET Tx /\ n \in Nat
  BY RowsFinite DEF First
<1>2. \A m \in Nat : IsFiniteSet(0..(m - 1)) /\ Cardinality(0..(m - 1)) = m
  <2> SUFFICES ASSUME NEW m \in Nat
               PROVE  IsFiniteSet(0..(m - 1)) /\ Cardinality(0..(m - 1)) = m
    OBVIOUS
  <2>1. 0 \in Int /\ m - 1 \in Int
    OBVIOUS
  <2>2. /\ IsFiniteSet(0..(m - 1))
        /\ Cardinality(0..(m - 1)) = IF 0 > m - 1 THEN 0 ELSE (m - 1) - 0 + 1
    BY <2>1, FS_Interval
  <2> QED BY <2>2
<1>3. from \in Injection(F, 0..(c - 1))
  BY <1>1, OffsetsGrow DEF First, Injection, IsInjective
<1>4. Cardinality(F) <= c /\ Cardinality(F) \in Nat
  BY <1>1, <1>2, <1>3, RowsFinite, FS_Injection
<1>5. ASSUME NEW last \in rows, Offset(last, rows) >= c
      PROVE  Cardinality(F) = c
  <2>1. at \in Injection(rows, 0..(n - 1))
    BY <1>1, OffsetsGrow DEF Injection, IsInjective
  <2>2. at \in Surjection(rows, 0..(n - 1))
    <3>1. IsFiniteSet(0..(n - 1)) /\ Cardinality(0..(n - 1)) = Cardinality(rows)
      BY <1>1, <1>2
    <3> QED BY <2>1, <3>1, FS_Injection
  <2>3. c <= n
    BY <1>1, <1>5, OffsetsGrow
  <2>4. ASSUME NEW i \in 0..(c - 1) PROVE \E t \in F : from[t] = i
    <3>1. i \in 0..(n - 1)
      BY <1>1, <2>3
    <3>2. PICK t \in rows : at[t] = i
      BY <2>2, <3>1 DEF Surjection
    <3>3. t \in F
      BY <3>2 DEF First
    <3> QED BY <3>2, <3>3
  <2>5. from \in Surjection(F, 0..(c - 1))
    BY <1>3, <2>4 DEF Surjection, Injection
  <2> HIDE DEF F, from
  <2> QED BY <1>2, <1>3, <2>5, FS_Injection
<1> QED BY <1>1, <1>4, <1>5

\* When a listing changes, no more rows are pushed over an offset than come before it.
LEMMA Pushed ==
  ASSUME NEW old \in SUBSET Tx, NEW new \in SUBSET Tx, NEW c \in Nat
  PROVE  Cardinality({t \in old \cap new : Offset(t, old) < c /\ Offset(t, new) >= c})
           <= Cardinality({t \in new \ old : Offset(t, new) < c})
<1> DEFINE over == {t \in old \cap new : Offset(t, old) < c /\ Offset(t, new) >= c}
           come == {t \in new \ old : Offset(t, new) < c}
           stay == First(new, c) \cap old
<1>1. over \in SUBSET Tx /\ come \in SUBSET Tx /\ stay \in SUBSET Tx
  BY DEF First
<1>2. Cardinality(over) \in Nat /\ Cardinality(come) \in Nat
  BY <1>1, RowsFinite
<1>3. CASE over = {}
  BY <1>2, <1>3, FS_EmptySet
<1>4. CASE over # {}
  <2>1. PICK d \in over : TRUE
    BY <1>4
  <2>2. Cardinality(First(new, c)) = c
    BY <2>1, FirstRows
  <2>3. ASSUME NEW t \in stay PROVE Offset(t, old) < c
    <3>1. t \in old /\ t \in new /\ Offset(t, new) < c /\ d \in old /\ d \in new
          /\ Offset(d, new) >= c /\ Offset(d, old) < c
      BY <2>1, <2>3 DEF First
    <3>2. /\ Offset(t, new) \in Nat /\ Offset(d, new) \in Nat
          /\ Offset(t, old) \in Nat /\ Offset(d, old) \in Nat
      BY <3>1, OffsetsGrow
    <3>3. Before(t, d)
      BY <3>1, <3>2, OffsetsGrow
    <3>4. Offset(t, old) < Offset(d, old)
      BY <3>1, <3>3, OffsetsGrow
    <3> QED BY <3>1, <3>2, <3>4
  <2>4. stay \cup over \in SUBSET First(old, c) /\ First(old, c) \in SUBSET Tx
    BY <2>3 DEF First
  <2>5. stay \cap over = {}
    <3>1. \A t \in stay : t \in Tx /\ Offset(t, new) < c
      BY <1>1 DEF First
    <3>2. \A t \in over : Offset(t, new) \in Nat /\ Offset(t, new) >= c
      BY OffsetsGrow
    <3> QED BY <3>1, <3>2
  <2>6. First(new, c) = stay \cup come /\ stay \cap come = {}
    BY DEF First
  <2> HIDE DEF over, come, stay
  <2>7. Cardinality(stay) + Cardinality(over) <= c
    <3>1. Cardinality(stay \cup over) <= Cardinality(First(old, c))
      BY <2>4, Parts
    <3>2. Cardinality(stay \cup over) = Cardinality(stay) + Cardinality(over)
      BY <1>1, <2>5, Together
    <3>3. Cardinality(First(old, c)) <= c /\ Cardinality(First(old, c)) \in Nat
      BY FirstRows
    <3>4. Cardinality(stay \cup over) \in Nat
      BY <1>1, Together
    <3> QED BY <3>1, <3>2, <3>3, <3>4
  <2>8. Cardinality(stay) + Cardinality(come) = c
    BY <1>1, <2>2, <2>6, Together
  <2>9. Cardinality(stay) \in Nat
    BY <1>1, RowsFinite
  <2> QED BY <1>2, <2>7, <2>8, <2>9 DEF over, come
<1> QED BY <1>3, <1>4

-----------------------------------------------------------------------------
(* A walk.                                                                 *)

Watch == [steady : SUBSET Tx, departed : Nat, arrived : Nat]
PageOf == [items : SUBSET Tx, more : BOOLEAN, next : Nat]

\* Of the rows that were listed throughout, those an offset has gone past unseen are no
\* more than have left the listing; and the rows seen twice, with those that lie ahead to
\* be seen again, are no more than have come to it.
Accounted(seen, repeats, c, rows, w) ==
  /\ Cardinality({t \in w.steady \ seen : Offset(t, rows) < c}) <= w.departed
  /\ repeats + Cardinality({t \in seen \cap rows : Offset(t, rows) >= c}) <= w.arrived

Missed(seen, w) == Cardinality(w.steady \ seen) <= w.departed

\* What holds of the walk, and what will hold of it once it has the page.
WalkFits(s, rows, w) ==
  /\ w.steady \subseteq rows
  /\ s.least = 0 => Accounted(s.seen, s.repeats, s.cursor, rows, w)
PageFits(s, p, rows, w) ==
  /\ p \in PageOf
  /\ s.least = 0 =>
       /\ Accounted(s.seen \cup p.items, s.repeats + Cardinality(p.items \cap s.seen), p.next, rows, w)
       /\ p.more = FALSE => Missed(s.seen \cup p.items, w)

\* The calls for a page that have not been answered.
PageCalls ==
  {k \in Call \ Orphans :
     calls[k] # None /\ calls[k].phase # "over" /\ calls[k].request.tool \in Listings}

\* The agent waits for one page at a time.
OnePage ==
  \A k \in PageCalls :
    /\ walk # None /\ walk.state = "asked" /\ calls[k].request = PageRequest(walk)
    /\ PageCalls = {k}

WalkTypes ==
  /\ walk \in Walk \cup {None} /\ watch \in Watch
  /\ walk = None => watch = [steady |-> {}, departed |-> 0, arrived |-> 0]

Going == walk # None /\ walk.state \in {"asked", "more"}

WalkSound == Going => WalkFits(walk, Listed(walk.tool), watch)
PageSound ==
  \A k \in PageCalls :
    calls[k].page # None => PageFits(walk, calls[k].page, Listed(walk.tool), watch)

WalkInv == WalkTypes /\ OnePage /\ WalkSound /\ PageSound /\ WalkMisses

ListingAfter(w, old, new) ==
  [steady |-> w.steady \cap new, departed |-> w.departed + Cardinality(old \ new),
   arrived |-> w.arrived + Cardinality(new \ old)]

LEMMA AfterWatch ==
  ASSUME NEW old \in SUBSET Tx, NEW new \in SUBSET Tx, NEW w \in Watch
  PROVE  ListingAfter(w, old, new) \in Watch
<1>1. old \ new \in SUBSET Tx /\ new \ old \in SUBSET Tx
  OBVIOUS
<1>2. Cardinality(old \ new) \in Nat /\ Cardinality(new \ old) \in Nat
  BY <1>1, RowsFinite
<1> QED BY <1>2 DEF ListingAfter, Watch

\* What has gone past unseen grows by no more than what departs.
LEMMA UnseenMoves ==
  ASSUME NEW old \in SUBSET Tx, NEW new \in SUBSET Tx, NEW steady \in SUBSET old,
         NEW seen \in SUBSET Tx, NEW c \in Nat
  PROVE  Cardinality({t \in (steady \cap new) \ seen : Offset(t, new) < c})
           <= Cardinality({t \in steady \ seen : Offset(t, old) < c}) + Cardinality(old \ new)
<1> DEFINE after == {t \in (steady \cap new) \ seen : Offset(t, new) < c}
           before == {t \in steady \ seen : Offset(t, old) < c}
           over == {t \in new \cap old : Offset(t, new) < c /\ Offset(t, old) >= c}
           come == {t \in old \ new : Offset(t, old) < c}
<1>1. Cardinality(over) <= Cardinality(come)
  BY Pushed
<1>2. \A t \in Tx : Offset(t, old) \in Nat /\ Offset(t, new) \in Nat
  BY OffsetsGrow
<1>3. after \in SUBSET (before \cup over)
  BY <1>2
<1>4. before \in SUBSET Tx /\ over \in SUBSET Tx /\ come \in SUBSET (old \ new)
      /\ old \ new \in SUBSET Tx /\ before \cup over \in SUBSET Tx
  OBVIOUS
<1> HIDE DEF after, before, over, come
<1>5. Cardinality(after) <= Cardinality(before \cup over) /\ Cardinality(after) \in Nat
  BY <1>3, <1>4, Parts
<1>6. Cardinality(come) <= Cardinality(old \ new)
      /\ Cardinality(come) \in Nat /\ Cardinality(old \ new) \in Nat
  BY <1>4, Parts
<1>7. Cardinality(before \cup over) <= Cardinality(before) + Cardinality(over)
      /\ Cardinality(before \cup over) \in Nat
      /\ Cardinality(before) \in Nat /\ Cardinality(over) \in Nat
  BY <1>4, Together
<1>8. Cardinality(after) <= Cardinality(before) + Cardinality(old \ new)
  BY <1>1, <1>5, <1>6, <1>7
<1> QED BY <1>8 DEF after, before

\* What lies ahead to be seen again grows by no more than what arrives.
LEMMA AheadMoves ==
  ASSUME NEW old \in SUBSET Tx, NEW new \in SUBSET Tx, NEW seen \in SUBSET Tx, NEW c \in Nat
  PROVE  Cardinality({t \in seen \cap new : Offset(t, new) >= c})
           <= Cardinality({t \in seen \cap old : Offset(t, old) >= c}) + Cardinality(new \ old)
<1> DEFINE after == {t \in seen \cap new : Offset(t, new) >= c}
           before == {t \in seen \cap old : Offset(t, old) >= c}
           over == {t \in old \cap new : Offset(t, old) < c /\ Offset(t, new) >= c}
           early == {t \in new \ old : Offset(t, new) < c}
           late == {t \in new \ old : Offset(t, new) >= c}
<1>1. Cardinality(over) <= Cardinality(early)
  BY Pushed
<1>2. \A t \in Tx : Offset(t, old) \in Nat /\ Offset(t, new) \in Nat
  BY OffsetsGrow
<1>3. after \in SUBSET (before \cup (over \cup late))
  BY <1>2
<1>4. early \cap late = {} /\ early \cup late = new \ old
  BY <1>2
<1>5. /\ before \in SUBSET Tx /\ over \in SUBSET Tx /\ early \in SUBSET Tx /\ late \in SUBSET Tx
      /\ over \cup late \in SUBSET Tx /\ before \cup (over \cup late) \in SUBSET Tx
  OBVIOUS
<1> HIDE DEF after, before, over, early, late
<1>6. Cardinality(after) <= Cardinality(before \cup (over \cup late)) /\ Cardinality(after) \in Nat
  BY <1>3, <1>5, Parts
<1>7. /\ Cardinality(before \cup (over \cup late)) <= Cardinality(before) + Cardinality(over \cup late)
      /\ Cardinality(before \cup (over \cup late)) \in Nat /\ Cardinality(before) \in Nat
  BY <1>5, Together
<1>8. Cardinality(over \cup late) <= Cardinality(over) + Cardinality(late)
      /\ Cardinality(over \cup late) \in Nat
      /\ Cardinality(over) \in Nat /\ Cardinality(late) \in Nat
  BY <1>5, Together
<1>9. Cardinality(new \ old) = Cardinality(early) + Cardinality(late)
      /\ Cardinality(early) \in Nat
  BY <1>4, <1>5, Together
<1>10. Cardinality(after) <= Cardinality(before) + Cardinality(new \ old)
  BY <1>1, <1>6, <1>7, <1>8, <1>9
<1> QED BY <1>10 DEF after, before

\* Whatever moves in the listing, what is owed to the walk is accounted for.
LEMMA AccountMoves ==
  ASSUME NEW old \in SUBSET Tx, NEW new \in SUBSET Tx, NEW w \in Watch, w.steady \subseteq old,
         NEW seen \in SUBSET Tx, NEW repeats \in Nat, NEW c \in Nat,
         Accounted(seen, repeats, c, old, w)
  PROVE  Accounted(seen, repeats, c, new, ListingAfter(w, old, new))
<1> DEFINE v == ListingAfter(w, old, new)
<1>1. /\ v.steady = w.steady \cap new /\ v.departed = w.departed + Cardinality(old \ new)
      /\ v.arrived = w.arrived + Cardinality(new \ old)
  BY DEF ListingAfter
<1>2. w.steady \in SUBSET old /\ w.departed \in Nat /\ w.arrived \in Nat
  BY DEF Watch
<1> DEFINE gone(rows, S) == {t \in S \ seen : Offset(t, rows) < c}
           ahead(rows) == {t \in seen \cap rows : Offset(t, rows) >= c}
<1>3. \A rows, S : S \subseteq Tx => Cardinality(gone(rows, S)) \in Nat
  <2> SUFFICES ASSUME NEW rows, NEW S \in SUBSET Tx PROVE Cardinality(gone(rows, S)) \in Nat
    OBVIOUS
  <2>1. gone(rows, S) \in SUBSET Tx
    OBVIOUS
  <2> QED BY <2>1, RowsFinite
<1>4. \A rows : Cardinality(ahead(rows)) \in Nat
  <2> SUFFICES ASSUME NEW rows PROVE Cardinality(ahead(rows)) \in Nat
    OBVIOUS
  <2>1. ahead(rows) \in SUBSET Tx
    OBVIOUS
  <2> QED BY <2>1, RowsFinite
<1>5. Cardinality(old \ new) \in Nat /\ Cardinality(new \ old) \in Nat
  <2>1. old \ new \in SUBSET Tx /\ new \ old \in SUBSET Tx
    OBVIOUS
  <2> QED BY <2>1, RowsFinite
<1>6. Cardinality(gone(new, w.steady \cap new))
        <= Cardinality(gone(old, w.steady)) + Cardinality(old \ new)
  BY <1>2, UnseenMoves
<1>7. Cardinality(ahead(new)) <= Cardinality(ahead(old)) + Cardinality(new \ old)
  BY AheadMoves
<1>8. Cardinality(gone(old, w.steady)) <= w.departed /\ repeats + Cardinality(ahead(old)) <= w.arrived
  BY DEF Accounted
<1>9. w.steady \subseteq Tx /\ w.steady \cap new \subseteq Tx
  BY <1>2
<1>10. /\ Cardinality(gone(new, w.steady \cap new)) \in Nat
       /\ Cardinality(gone(old, w.steady)) \in Nat
       /\ Cardinality(ahead(old)) \in Nat /\ Cardinality(ahead(new)) \in Nat
  BY <1>3, <1>4, <1>9
<1> HIDE DEF gone, ahead
<1>11. /\ Cardinality(gone(new, v.steady)) <= v.departed
       /\ repeats + Cardinality(ahead(new)) <= v.arrived
  BY <1>1, <1>2, <1>5, <1>6, <1>7, <1>8, <1>10
<1> QED BY <1>11 DEF Accounted, gone, ahead

LEMMA MissedMoves ==
  ASSUME NEW old \in SUBSET Tx, NEW new \in SUBSET Tx, NEW w \in Watch,
         NEW seen \in SUBSET Tx, Missed(seen, w)
  PROVE  Missed(seen, ListingAfter(w, old, new))
<1> DEFINE v == ListingAfter(w, old, new)
<1>1. v.steady = w.steady \cap new /\ v.departed = w.departed + Cardinality(old \ new)
  BY DEF ListingAfter
<1>2. old \ new \in SUBSET Tx /\ w.steady \ seen \in SUBSET Tx /\ w.departed \in Nat
  BY DEF Watch
<1>3. Cardinality(old \ new) \in Nat
  BY <1>2, RowsFinite
<1>4. (w.steady \cap new) \ seen \in SUBSET (w.steady \ seen)
  OBVIOUS
<1>5. /\ Cardinality((w.steady \cap new) \ seen) <= Cardinality(w.steady \ seen)
      /\ Cardinality((w.steady \cap new) \ seen) \in Nat /\ Cardinality(w.steady \ seen) \in Nat
  BY <1>2, <1>4, Parts
<1> HIDE DEF v
<1> QED BY <1>1, <1>2, <1>3, <1>5 DEF Missed, v

\* The rows of a page, counted from its first one.
LEMMA PageOffsets ==
  ASSUME NEW rows \in SUBSET Tx, NEW c \in Nat, NEW n \in Nat, NEW t \in Slice(rows, c, n)
  PROVE  Offset(t, Slice(rows, c, n)) = Offset(t, rows) - c
<1> DEFINE page == Slice(rows, c, n)
           ahead == {u \in page : Before(u, t)}
<1>1. page \in SUBSET rows /\ t \in rows /\ Offset(t, rows) >= c /\ Offset(t, rows) < c + n
  BY DEF Slice
<1>2. \A u \in rows : /\ Offset(u, rows) \in Nat
                      /\ Before(u, t) <=> Offset(u, rows) < Offset(t, rows)
  BY <1>1, OffsetsGrow
<1>3. {u \in rows : Before(u, t)} = First(rows, c) \cup ahead
  BY <1>1, <1>2 DEF First, Slice
<1>4. First(rows, c) \cap ahead = {}
  BY <1>2 DEF First, Slice
<1>5. First(rows, c) \in SUBSET Tx /\ ahead \in SUBSET Tx /\ Cardinality(First(rows, c)) = c
  BY <1>1, FirstRows
<1> HIDE DEF ahead
<1>6. /\ Cardinality(First(rows, c) \cup ahead) = c + Cardinality(ahead)
      /\ Cardinality(ahead) \in Nat
  BY <1>4, <1>5, Together
<1>7. Offset(t, rows) = c + Cardinality(ahead)
  BY <1>3, <1>6 DEF Offset
<1>8. Offset(t, page) = Cardinality(ahead)
  BY DEF Offset, ahead
<1> HIDE DEF page
<1>9. Offset(t, page) = Offset(t, rows) - c
  BY <1>6, <1>7, <1>8
<1> QED BY <1>9 DEF page

\* If there is a row after the page, fetching one more finds one.
LEMMA OneMore ==
  ASSUME NEW rows \in SUBSET Tx, NEW c \in Nat, NEW n \in Nat,
         ~(Cardinality(Slice(rows, c, n + 1)) > n)
  PROVE  \A t \in rows : Offset(t, rows) < c + n
<1>1. \A u \in rows : Offset(u, rows) \in Nat
  BY OffsetsGrow
<1> SUFFICES ASSUME NEW t \in rows, Offset(t, rows) >= c + n
             PROVE  FALSE
  BY <1>1
<1> DEFINE page == Slice(rows, c, n)
           fetched == Slice(rows, c, n + 1)
<1>2. page \in SUBSET fetched /\ page \in SUBSET Tx /\ fetched \in SUBSET rows
  BY <1>1 DEF Slice
<1>3. Offset(t, rows) >= c
  BY <1>1
<1>4. /\ Cardinality(First(rows, c)) = c /\ First(rows, c) \in SUBSET Tx
      /\ Cardinality(First(rows, c + n)) = c + n /\ First(rows, c + n) \in SUBSET Tx
  <2>1. c + n \in Nat
    OBVIOUS
  <2> QED BY <1>3, <2>1, FirstRows
<1>5. First(rows, c + n) = First(rows, c) \cup page /\ First(rows, c) \cap page = {}
  BY <1>1 DEF First, Slice
<1>6. Cardinality(page) = n
  <2>1. Cardinality(First(rows, c) \cup page) = Cardinality(First(rows, c)) + Cardinality(page)
        /\ Cardinality(page) \in Nat
    BY <1>2, <1>4, <1>5, Together
  <2> QED BY <1>4, <1>5, <2>1
<1>7. page = fetched
  <2>1. IsFiniteSet(fetched) /\ Cardinality(fetched) \in Nat
    BY <1>2, RowsFinite
  <2>2. Cardinality(page) <= Cardinality(fetched)
    BY <1>2, <2>1, FS_Subset
  <2>3. Cardinality(page) = Cardinality(fetched)
    BY <1>6, <2>1, <2>2
  <2> QED BY <1>2, <2>1, <2>3, FS_Subset
<1>8. \A u \in rows : Offset(u, rows) # c + n
  BY <1>7 DEF Slice
<1>9. Offset(t, rows) >= c + n + 1
  BY <1>1, <1>8
<1>10. Cardinality(First(rows, c + n + 1)) = c + n + 1
  <2>1. c + n + 1 \in Nat
    OBVIOUS
  <2> QED BY <1>9, <2>1, FirstRows
<1>11. First(rows, c + n + 1) = First(rows, c + n)
  BY <1>1, <1>8 DEF First
<1> QED BY <1>4, <1>10, <1>11

LEMMA PageIs ==
  ASSUME NEW s \in Walk, s.limit > 0
  PROVE  LET n == PageSize(s.limit)  p == Page(PageRequest(s))  rows == Listed(s.tool) IN
         /\ n \in Nat /\ p \in PageOf
         /\ p.next = s.cursor + n
         /\ s.least = 0 => /\ p.items = Slice(rows, s.cursor, n)
                           /\ p.more = (Cardinality(Slice(rows, s.cursor, n + 1)) > n)
<1> DEFINE n == PageSize(s.limit)
           rows == Listed(s.tool)
           fetched == Slice(rows, s.cursor, n + 1)
           kept == {t \in fetched : Data[t].amount >= s.least}
           p == Page(PageRequest(s))
<1>1. /\ s.tool \in Listings /\ s.limit \in Nat /\ s.least \in Nat /\ s.cursor \in Nat
      /\ n \in Nat
  BY AgentServerAssumption DEF Walk, PageSize
<1>2. rows \in SUBSET Tx /\ fetched \in SUBSET rows /\ kept \in SUBSET Tx
  BY DEF Listed, Present, Slice
<1>3. p = [items |-> Slice(kept, 0, n), more |-> Cardinality(kept) > n, next |-> s.cursor + n]
  BY DEF Page, PageRequest
<1>4. Slice(kept, 0, n) \in SUBSET Tx
  BY <1>2 DEF Slice
<1>5. p \in PageOf /\ p.next = s.cursor + n
  BY <1>1, <1>3, <1>4 DEF PageOf
<1>6. ASSUME s.least = 0
      PROVE  p.items = Slice(rows, s.cursor, n) /\ p.more = (Cardinality(fetched) > n)
  <2>1. \A t \in Tx : Data[t].amount \in Nat
    BY TaxonomyAssumption
  <2>2. kept = fetched
    BY <1>2, <1>6, <2>1
  <2>3. \A t \in fetched : Offset(t, fetched) = Offset(t, rows) - s.cursor
    BY <1>1, <1>2, PageOffsets
  <2>4. \A t \in rows : Offset(t, rows) \in Nat
    BY <1>2, OffsetsGrow
  <2>5. Slice(fetched, 0, n) = Slice(rows, s.cursor, n)
    BY <1>1, <1>2, <2>3, <2>4 DEF Slice
  <2> HIDE DEF kept, fetched, rows, p
  <2> QED BY <1>3, <2>2, <2>5
<1> HIDE DEF n, rows, fetched, p
<1> QED BY <1>1, <1>5, <1>6 DEF n, rows, fetched, p

\* A page that was read at once accounts for what the walk owes.
LEMMA PageTaken ==
  ASSUME NEW s \in Walk, s.limit > 0, NEW w \in Watch, WalkFits(s, Listed(s.tool), w)
  PROVE  PageFits(s, Page(PageRequest(s)), Listed(s.tool), w)
<1> DEFINE rows == Listed(s.tool)
           p == Page(PageRequest(s))
           n == PageSize(s.limit)
           c == s.cursor
<1>1. n \in Nat /\ p \in PageOf /\ p.next = c + n /\ c \in Nat
      /\ s.seen \in SUBSET Tx /\ s.repeats \in Nat
  BY PageIs DEF Walk
<1>2. rows \in SUBSET Tx /\ w.steady \in SUBSET rows /\ w.steady \in SUBSET Tx
  BY DEF Listed, Present, WalkFits
<1>3. ASSUME s.least = 0
      PROVE  /\ Accounted(s.seen \cup p.items, s.repeats + Cardinality(p.items \cap s.seen), p.next, rows, w)
             /\ p.more = FALSE => Missed(s.seen \cup p.items, w)
  <2>1. /\ p.items = Slice(rows, c, n)
        /\ p.more = FALSE => ~(Cardinality(Slice(rows, c, n + 1)) > n)
    BY <1>3, PageIs
  <2>2. Accounted(s.seen, s.repeats, c, rows, w)
    BY <1>3 DEF WalkFits
  <2>3. \A t \in rows : Offset(t, rows) \in Nat
    BY <1>2, OffsetsGrow
  <2> HIDE DEF rows, p, n, c
  <2> DEFINE seen == s.seen \cup p.items
             passed == {t \in w.steady \ seen : Offset(t, rows) < c + n}
             before == {t \in w.steady \ s.seen : Offset(t, rows) < c}
             ahead == {t \in seen \cap rows : Offset(t, rows) >= c + n}
             again == p.items \cap s.seen
             was == {t \in s.seen \cap rows : Offset(t, rows) >= c}
  <2>4. passed \in SUBSET before /\ before \in SUBSET Tx
    BY <1>1, <1>2, <2>1, <2>3 DEF Slice
  <2>5. ahead \cup again \in SUBSET was /\ ahead \cap again = {}
    BY <1>1, <2>1, <2>3 DEF Slice
  <2>6. ahead \in SUBSET Tx /\ again \in SUBSET Tx /\ was \in SUBSET Tx
    BY <1>1, <1>2
  <2>7. Cardinality(before) <= w.departed /\ s.repeats + Cardinality(was) <= w.arrived
    BY <2>2 DEF Accounted
  <2>8. w.departed \in Nat /\ w.arrived \in Nat
    BY DEF Watch
  <2> HIDE DEF passed, before, ahead, again, was
  <2>9. Cardinality(passed) <= w.departed
    <3>1. /\ Cardinality(passed) <= Cardinality(before)
          /\ Cardinality(passed) \in Nat /\ Cardinality(before) \in Nat
      BY <2>4, Parts
    <3> QED BY <2>7, <2>8, <3>1
  <2>10. (s.repeats + Cardinality(again)) + Cardinality(ahead) <= w.arrived
    <3>1. Cardinality(ahead \cup again) = Cardinality(ahead) + Cardinality(again)
          /\ Cardinality(ahead) \in Nat /\ Cardinality(again) \in Nat
      BY <2>5, <2>6, Together
    <3>2. Cardinality(ahead \cup again) <= Cardinality(was) /\ Cardinality(was) \in Nat
      BY <2>5, <2>6, Parts
    <3> QED BY <1>1, <2>7, <2>8, <3>1, <3>2
  <2>11. Accounted(seen, s.repeats + Cardinality(again), p.next, rows, w)
    BY <1>1, <2>9, <2>10 DEF Accounted, passed, ahead
  <2>12. ASSUME p.more = FALSE PROVE Missed(seen, w)
    <3>1. \A t \in rows : Offset(t, rows) < c + n
      BY <1>1, <1>2, <2>1, <2>12, OneMore
    <3>2. w.steady \ seen = passed
      BY <1>2, <3>1 DEF passed
    <3> QED BY <2>9, <3>2 DEF Missed
  <2> QED BY <2>11, <2>12 DEF again
<1> QED BY <1>1, <1>3 DEF PageFits

\* A walk, and a page it waits for, as the listing changes.
LEMMA WalkMoves ==
  ASSUME NEW old \in SUBSET Tx, NEW new \in SUBSET Tx, NEW w \in Watch, NEW s \in Walk,
         WalkFits(s, old, w)
  PROVE  WalkFits(s, new, ListingAfter(w, old, new))
<1>1. s.seen \in SUBSET Tx /\ s.repeats \in Nat /\ s.cursor \in Nat /\ w.steady \subseteq old
  BY DEF Walk, WalkFits
<1>2. ListingAfter(w, old, new).steady \subseteq new
  BY DEF ListingAfter
<1>3. ASSUME s.least = 0
      PROVE  Accounted(s.seen, s.repeats, s.cursor, new, ListingAfter(w, old, new))
  BY <1>1, <1>3, AccountMoves DEF WalkFits
<1> QED BY <1>2, <1>3 DEF WalkFits

LEMMA PageMoves ==
  ASSUME NEW old \in SUBSET Tx, NEW new \in SUBSET Tx, NEW w \in Watch, NEW s \in Walk, NEW p,
         WalkFits(s, old, w), PageFits(s, p, old, w)
  PROVE  PageFits(s, p, new, ListingAfter(w, old, new))
<1> DEFINE seen == s.seen \cup p.items
           repeats == s.repeats + Cardinality(p.items \cap s.seen)
<1>1. p \in PageOf /\ p.next \in Nat /\ w.steady \subseteq old
  BY DEF PageFits, PageOf, WalkFits
<1>2. seen \in SUBSET Tx /\ p.items \cap s.seen \in SUBSET Tx /\ s.repeats \in Nat
  BY <1>1 DEF PageOf, Walk
<1>3. Cardinality(p.items \cap s.seen) \in Nat
  BY <1>2, RowsFinite
<1>4. repeats \in Nat
  <2> DEFINE n == Cardinality(p.items \cap s.seen)
  <2>1. n \in Nat
    BY <1>3
  <2> HIDE DEF n
  <2> QED BY <1>2, <2>1 DEF n
<1>5. ASSUME s.least = 0
      PROVE  /\ Accounted(seen, repeats, p.next, new, ListingAfter(w, old, new))
             /\ p.more = FALSE => Missed(seen, ListingAfter(w, old, new))
  <2>1. Accounted(seen, repeats, p.next, old, w) /\ (p.more = FALSE => Missed(seen, w))
    BY <1>5 DEF PageFits
  <2> HIDE DEF seen, repeats
  <2> QED BY <1>1, <1>2, <1>4, <2>1, AccountMoves, MissedMoves
<1> QED BY <1>1, <1>5 DEF PageFits

LEMMA ListedRows == \A tool : Listed(tool) \in SUBSET Tx /\ (Listed(tool) \in SUBSET Tx)'
BY DEF Listed, Present

\* What the invariant says of the next state, in the listing as it is there.
LEMMA Renamed ==
  /\ WalkFits(walk, Listed(walk.tool), watch)'
       <=> WalkFits(walk', Listed(walk.tool)', watch')
  /\ \A k \in Call : PageFits(walk, calls[k].page, Listed(walk.tool), watch)'
       <=> PageFits(walk', calls'[k].page, Listed(walk.tool)', watch')
<1>1. WalkFits(walk, Listed(walk.tool), watch)'
       <=> WalkFits(walk', Listed(walk.tool)', watch')
  BY DEF WalkFits, Accounted, Offset
<1>2. ASSUME NEW k \in Call
      PROVE  PageFits(walk, calls[k].page, Listed(walk.tool), watch)'
               <=> PageFits(walk', calls'[k].page, Listed(walk.tool)', watch')
  BY DEF PageFits, Accounted, Missed, Offset
<1> QED BY <1>1, <1>2

LEMMA Waits ==
  ASSUME WalkInv, NEW k \in PageCalls
  PROVE  /\ walk \in Walk /\ walk.state = "asked" /\ calls[k].request = PageRequest(walk)
         /\ PageCalls = {k} /\ Going /\ WalkFits(walk, Listed(walk.tool), watch)
<1>1. walk # None /\ walk.state = "asked" /\ calls[k].request = PageRequest(walk)
      /\ PageCalls = {k}
  BY DEF WalkInv, OnePage
<1> QED BY <1>1 DEF WalkInv, WalkTypes, WalkSound, Going

\* A step that leaves the agent's memory alone: a call for a page is gone, stays as it
\* is, or has the page the walk is owed.
LEMMA WalkOn ==
  ASSUME WalkInv, Watched, walk' = walk, PageCalls' \subseteq PageCalls,
         \A k \in PageCalls' :
           /\ calls'[k].request = calls[k].request
           /\ \/ calls'[k].page \in {None, calls[k].page}
              \/ PageFits(walk, calls'[k].page, Listed(walk.tool), watch)
  PROVE  WalkInv'
<1> DEFINE old == Listed(walk.tool)
           new == Listed(walk.tool)'
<1>1. old \in SUBSET Tx /\ new \in SUBSET Tx
  BY ListedRows DEF Listed, Present
<1>2. walk \in Walk \cup {None} /\ watch \in Watch
  BY DEF WalkInv, WalkTypes
<1>3. OnePage'
  <2> SUFFICES ASSUME NEW k \in PageCalls'
               PROVE  /\ walk' # None /\ walk'.state = "asked"
                      /\ calls'[k].request = PageRequest(walk') /\ PageCalls' = {k}
    BY DEF OnePage, PageRequest
  <2>1. k \in PageCalls
    OBVIOUS
  <2> QED BY <2>1, Waits DEF WalkInv, OnePage
<1>4. CASE walk = None
  <2>1. watch' = watch
    BY <1>4 DEF Watched
  <2>2. PageCalls' = {}
    BY <1>4 DEF WalkInv, OnePage
  <2>3. WalkTypes'
    BY <1>2, <1>4, <2>1 DEF WalkInv, WalkTypes
  <2>4. WalkSound' /\ WalkMisses'
    BY <1>4 DEF WalkSound, Going, WalkMisses
  <2>5. PageSound'
    BY <2>2 DEF PageSound
  <2> QED BY <1>3, <2>3, <2>4, <2>5 DEF WalkInv
<1>5. CASE walk # None /\ walk.state \in {"finished", "failed"}
  <2>1. watch' = watch
    BY <1>5 DEF Watched
  <2>2. PageCalls' = {}
    BY <1>5 DEF WalkInv, OnePage
  <2>3. WalkTypes' /\ WalkMisses'
    BY <1>2, <1>5, <2>1 DEF WalkInv, WalkTypes, WalkMisses
  <2>4. WalkSound'
    BY <1>5 DEF WalkSound, Going
  <2>5. PageSound'
    BY <2>2 DEF PageSound
  <2> QED BY <1>3, <2>3, <2>4, <2>5 DEF WalkInv
<1>6. CASE walk # None /\ walk.state \notin {"finished", "failed"}
  <2>1. watch' = ListingAfter(watch, old, new)
    BY <1>6 DEF Watched, ListingAfter
  <2>2. walk \in Walk /\ Going /\ WalkFits(walk, old, watch)
    BY <1>2, <1>6 DEF Walk, Going, WalkInv, WalkSound
  <2>3. watch' \in Watch
    BY <1>1, <1>2, <2>1, AfterWatch
  <2>4. WalkTypes' /\ WalkMisses'
    BY <1>6, <2>2, <2>3 DEF WalkTypes, WalkMisses, Watch
  <2>5. WalkFits(walk, new, watch')
    BY <1>1, <1>2, <2>1, <2>2, WalkMoves
  <2>6. WalkSound'
    BY <2>5, Renamed DEF WalkSound
  <2>7. PageSound'
    <3> SUFFICES ASSUME NEW k \in PageCalls', calls'[k].page # None
                 PROVE  PageFits(walk', calls'[k].page, Listed(walk.tool)', watch')
      BY Renamed DEF PageSound, PageCalls
    <3>1. PageFits(walk, calls'[k].page, old, watch)
      BY DEF WalkInv, PageSound
    <3> DEFINE p == calls'[k].page
    <3> HIDE DEF p, old, new
    <3>2. PageFits(walk, p, new, ListingAfter(watch, old, new))
      <4>1. PageFits(walk, p, old, watch)
        BY <3>1 DEF p, old
      <4> QED BY <1>1, <1>2, <2>2, <4>1, PageMoves
    <3>3. PageFits(walk', p, new, watch')
      BY <2>1, <3>2
    <3> QED BY <3>3 DEF p, new
  <2> QED BY <1>3, <2>4, <2>6, <2>7 DEF WalkInv
<1> QED BY <1>4, <1>5, <1>6

\* One call moves on, and the walk hears nothing of it.
LEMMA CallOn ==
  ASSUME WalkInv, RateInv, Watched, walk' = walk, NEW k \in Call, NEW c,
         calls' = [calls EXCEPT ![k] = c],
         k \in PageCalls' => /\ k \in PageCalls /\ c.request = calls[k].request
                             /\ \/ c.page \in {None, calls[k].page}
                                \/ PageFits(walk, c.page, Listed(walk.tool), watch)
  PROVE  WalkInv'
<1>1. /\ DOMAIN calls' = Call /\ calls'[k] = c
      /\ \A j \in Call : j # k => calls'[j] = calls[j]
  BY DEF RateInv, ShapesHold
<1>2. \A j \in PageCalls' : j # k => j \in PageCalls /\ calls'[j] = calls[j]
  BY <1>1 DEF PageCalls, Orphans
<1>3. PageCalls' \subseteq PageCalls
  BY <1>2
<1>4. \A j \in PageCalls' :
        /\ calls'[j].request = calls[j].request
        /\ \/ calls'[j].page \in {None, calls[j].page}
           \/ PageFits(walk, calls'[j].page, Listed(walk.tool), watch)
  BY <1>1, <1>2
<1> QED BY <1>3, <1>4, WalkOn

\* What one call on its way says of the pages that are waited for.
LEMMA PageCallIs ==
  ASSUME RateInv, NEW k \in Call, calls[k] # None
  PROVE  k \in PageCalls <=> /\ calls[k].orphan # TRUE /\ calls[k].phase # "over"
                             /\ calls[k].request.tool \in Listings
BY ShapeOf DEF PageCalls

LEMMA PageCallNext ==
  ASSUME RateInv, NEW k \in Call, NEW c, calls' = [calls EXCEPT ![k] = c]
  PROVE  /\ k \in PageCalls' <=> /\ c # None /\ c.orphan # TRUE /\ c.phase # "over"
                                 /\ c.request.tool \in Listings
         /\ PageCalls' \ {k} = PageCalls \ {k}
<1>1. /\ calls'[k] = c
      /\ \A j \in Call : j # k => calls'[j] = calls[j]
  BY DEF RateInv, ShapesHold
<1>2. k \in PageCalls' <=> /\ c # None /\ c.orphan # TRUE /\ c.phase # "over"
                           /\ c.request.tool \in Listings
  BY <1>1 DEF PageCalls, Orphans
<1>3. \A j \in Call \ {k} : j \in PageCalls' <=> j \in PageCalls
  BY <1>1 DEF PageCalls, Orphans
<1> QED BY <1>2, <1>3 DEF PageCalls

\* A call for a page goes out when no other is waited for.
LEMMA SendWalk ==
  ASSUME WalkInv, RateInv, PageCalls = {}, NEW k \in Call, NEW step,
         walk' \in Walk, walk'.state = "asked", Send(k, PageRequest(walk'), step),
         watch' \in Watch, WalkFits(walk', Listed(walk.tool)', watch')
  PROVE  WalkInv'
<1> DEFINE c == Arrived(PageRequest(walk'))
<1>1. calls' = [calls EXCEPT ![k] = c]
  BY DEF Send
<1>2. c.request = PageRequest(walk') /\ c.page = None
  BY DEF Arrived
<1> HIDE DEF c
<1>3. calls'[k] = c
  BY <1>1 DEF RateInv, ShapesHold
<1>4. PageCalls' \subseteq {k}
  BY <1>1, PageCallNext
<1>5. walk' # None
  BY WalkAssumption
<1>6. WalkTypes' /\ WalkMisses'
  BY <1>5 DEF WalkTypes, WalkMisses, Watch
<1>7. OnePage'
  <2> SUFFICES ASSUME NEW j \in PageCalls'
               PROVE  /\ walk' # None /\ walk'.state = "asked"
                      /\ calls'[j].request = PageRequest(walk') /\ PageCalls' = {j}
    BY DEF OnePage, PageRequest
  <2> QED BY <1>2, <1>3, <1>4, <1>5
<1>8. WalkSound'
  BY Renamed DEF WalkSound
<1>9. PageSound'
  BY <1>2, <1>3, <1>4 DEF PageSound
<1> QED BY <1>6, <1>7, <1>8, <1>9 DEF WalkInv

LEMMA StartWalkStep ==
  ASSUME WalkInv, RateInv, NEW k \in Call, StartWalk(k), Watched
  PROVE  WalkInv'
<1>1. PICK w \in Walks :
        /\ walk' = [tool |-> w.tool, limit |-> w.limit, least |-> w.least, cursor |-> 0,
                    seen |-> {}, repeats |-> 0, state |-> "asked"]
        /\ Send(k, PageRequest(walk'), "page")
  BY DEF StartWalk
<1>2. walk = None /\ watch = [steady |-> {}, departed |-> 0, arrived |-> 0] /\ PageCalls = {}
  BY DEF StartWalk, WalkInv, WalkTypes, OnePage
<1>3. walk' \in Walk /\ walk' # None
  <2>1. w.tool \in Listings /\ w.limit \in Nat /\ w.least \in Nat
    BY AgentServerAssumption
  <2>2. walk' \in Walk
    BY <1>1, <2>1 DEF Walk
  <2> QED BY <2>2, WalkAssumption
<1>4. /\ walk'.seen = {} /\ walk'.repeats = 0 /\ walk'.cursor = 0 /\ walk'.state = "asked"
  BY <1>1
<1>5. watch' = [watch EXCEPT !.steady = Listed(walk'.tool)]
  BY <1>2, <1>3 DEF Watched
<1> DEFINE rows == Listed(walk'.tool)
<1>6. Listed(walk.tool)' = rows
  BY <1>1 DEF Send, Listed, Present
<1>7. rows \in SUBSET Tx
  BY DEF Listed, Present
<1> HIDE DEF rows
<1>8. watch' = [steady |-> rows, departed |-> 0, arrived |-> 0]
  BY <1>2, <1>5 DEF rows
<1>9. watch' \in Watch
  BY <1>7, <1>8 DEF Watch
<1>10. Accounted({}, 0, 0, rows, watch')
  <2>1. {t \in rows \ {} : Offset(t, rows) < 0} = {}
    BY <1>7, OffsetsGrow
  <2>2. {t \in {} \cap rows : Offset(t, rows) >= 0} = {}
    OBVIOUS
  <2>3. Cardinality({}) = 0
    BY FS_EmptySet
  <2> QED BY <1>8, <2>1, <2>2, <2>3 DEF Accounted
<1>11. WalkFits(walk', rows, watch')
  BY <1>4, <1>8, <1>10 DEF WalkFits
<1> QED BY <1>1, <1>2, <1>3, <1>4, <1>6, <1>9, <1>11, SendWalk

LEMMA NextPageStep ==
  ASSUME WalkInv, RateInv, NEW k \in Call, NextPage(k), Watched
  PROVE  WalkInv'
<1>1. walk # None /\ walk.state = "more" /\ walk' = [walk EXCEPT !.state = "asked"]
      /\ Send(k, PageRequest(walk), "page")
  BY DEF NextPage
<1>2. walk \in Walk /\ watch \in Watch /\ PageCalls = {} /\ WalkFits(walk, Listed(walk.tool), watch)
  BY <1>1 DEF WalkInv, WalkTypes, OnePage, WalkSound, Going
<1>3. /\ walk' \in Walk /\ walk'.state = "asked" /\ PageRequest(walk') = PageRequest(walk)
      /\ walk'.tool = walk.tool /\ walk'.seen = walk.seen /\ walk'.repeats = walk.repeats
      /\ walk'.cursor = walk.cursor /\ walk'.least = walk.least
  BY <1>1, <1>2 DEF Walk, PageRequest
<1> DEFINE rows == Listed(walk.tool)
<1>4. rows \in SUBSET Tx /\ Listed(walk.tool)' = rows
  BY <1>1, <1>3 DEF Send, Listed, Present
<1>5. watch' = ListingAfter(watch, rows, rows)
  BY <1>1, <1>2, <1>4, WalkAssumption, <1>3 DEF Watched, ListingAfter
<1>6. watch' \in Watch
  BY <1>2, <1>4, <1>5, AfterWatch
<1>7. WalkFits(walk, rows, watch')
  BY <1>2, <1>4, <1>5, WalkMoves
<1>8. WalkFits(walk', rows, watch')
  BY <1>3, <1>7 DEF WalkFits
<1> QED BY <1>1, <1>2, <1>3, <1>4, <1>6, <1>8, SendWalk

LEMMA ReadPageStep ==
  ASSUME WalkInv, RateInv, NEW k \in Call, ReadPage(k), Watched
  PROVE  WalkInv'
<1> DEFINE r == calls[k].request
<1>1. calls[k] # None /\ calls[k].phase = "counted" /\ walk' = walk
  BY DEF ReadPage, InPhase
<1>2. PICK page : /\ Done(k, page)
                  /\ page = None \/ (r.limit > 0 /\ page = Page(r))
  BY DEF ReadPage
<1> DEFINE c == [calls[k] EXCEPT !.phase = "done", !.page = page]
<1>3. calls' = [calls EXCEPT ![k] = c]
  BY <1>2 DEF Done
<1>4. Shape(calls[k])
  BY <1>1, ShapeOf
<1>5. c.request = r /\ c.page = page /\ c.orphan = calls[k].orphan
  BY <1>4 DEF Shape, CallOf
<1> HIDE DEF c
<1>6. ASSUME k \in PageCalls' PROVE k \in PageCalls
  BY <1>1, <1>3, <1>5, <1>6, PageCallIs, PageCallNext
<1>7. ASSUME k \in PageCalls, page # None
      PROVE  PageFits(walk, page, Listed(walk.tool), watch)
  <2>1. r = PageRequest(walk) /\ walk \in Walk /\ WalkFits(walk, Listed(walk.tool), watch)
    BY <1>7, Waits
  <2>2. walk.limit > 0 /\ page = Page(PageRequest(walk))
    BY <1>2, <1>7, <2>1 DEF PageRequest
  <2>3. watch \in Watch
    BY DEF WalkInv, WalkTypes
  <2> QED BY <2>1, <2>2, <2>3, PageTaken
<1> QED BY <1>1, <1>3, <1>5, <1>6, <1>7, CallOn

\* A walk whose page is lost has ended.
LEMMA WalkFails ==
  ASSUME WalkInv, Watched, NEW k \in PageCalls, PageCalls' = {},
         walk' = [walk EXCEPT !.state = "failed"]
  PROVE  WalkInv'
<1> DEFINE old == Listed(walk.tool)
           new == Listed(walk.tool)'
<1>1. old \in SUBSET Tx /\ new \in SUBSET Tx
  BY ListedRows DEF Listed, Present
<1>2. walk \in Walk /\ walk # None /\ walk.state = "asked" /\ watch \in Watch
  BY Waits, WalkAssumption DEF WalkInv, WalkTypes
<1>3. walk' \in Walk /\ walk'.state = "failed"
  BY <1>2 DEF Walk
<1>4. watch' = ListingAfter(watch, old, new)
  BY <1>2, <1>3, WalkAssumption DEF Watched, ListingAfter
<1>5. watch' \in Watch
  BY <1>1, <1>2, <1>4, AfterWatch
<1>6. WalkTypes' /\ WalkMisses' /\ WalkSound'
  BY <1>3, <1>5, WalkAssumption DEF WalkTypes, WalkMisses, WalkSound, Going, Watch
<1>7. OnePage' /\ PageSound'
  BY DEF OnePage, PageSound
<1> QED BY <1>6, <1>7 DEF WalkInv

\* A walk that has its page: it owes no more than the page did.
LEMMA WalkTurns ==
  ASSUME WalkInv, Watched, UNCHANGED tx, NEW k \in PageCalls, PageCalls' = {},
         calls[k].page # None, walk' = Told(k)
  PROVE  WalkInv'
<1> DEFINE rows == Listed(walk.tool)
           p == calls[k].page
           seen == walk.seen \cup p.items
           repeats == walk.repeats + Cardinality(p.items \cap walk.seen)
<1>1. /\ walk \in Walk /\ walk # None /\ walk.state = "asked" /\ watch \in Watch
      /\ WalkFits(walk, rows, watch) /\ PageFits(walk, p, rows, watch)
      /\ calls[k].request.tool = walk.tool
  BY Waits, WalkAssumption DEF WalkInv, WalkTypes, PageSound, PageRequest
<1>2. p \in PageOf
  BY <1>1 DEF PageFits
<1>3. Cardinality(p.items \cap walk.seen) \in Nat
  <2>1. p.items \cap walk.seen \in SUBSET Tx
    BY <1>2 DEF PageOf
  <2> QED BY <2>1, RowsFinite
<1>4. rows \in SUBSET Tx
  BY DEF Listed, Present
<1>5. walk' = [walk EXCEPT !.seen = seen, !.repeats = repeats, !.cursor = p.next,
                           !.state = IF p.more THEN "more" ELSE "finished"]
  <2>1. walk.tool \in Listings
    BY <1>1 DEF Walk
  <2> QED BY <1>1, <2>1 DEF Told
<1>6. repeats \in Nat /\ seen \in SUBSET Tx /\ p.next \in Nat /\ p.more \in BOOLEAN
  <2> DEFINE n == Cardinality(p.items \cap walk.seen)
  <2>1. n \in Nat
    BY <1>3
  <2> HIDE DEF n
  <2>2. walk.repeats + n \in Nat
    BY <1>1, <2>1 DEF Walk
  <2>3. seen \in SUBSET Tx /\ p.next \in Nat /\ p.more \in BOOLEAN
    BY <1>1, <1>2 DEF PageOf, Walk
  <2> QED BY <2>2, <2>3 DEF n
<1> DEFINE state == IF p.more THEN "more" ELSE "finished"
<1>7. state \in {"more", "finished"} /\ (state = "finished" => p.more = FALSE)
  BY <1>6
<1>8. watch' = ListingAfter(watch, rows, rows)
  <2>1. walk'.tool = walk.tool /\ walk' # None
    <3>1. walk'.tool = walk.tool
      BY <1>1, <1>5 DEF Walk
    <3>2. walk' \in Walk
      <4> HIDE DEF seen, repeats, p, state
      <4>1. walk' = [walk EXCEPT !.seen = seen, !.repeats = repeats, !.cursor = p.next,
                                 !.state = state]
        BY <1>5 DEF state
      <4> QED BY <1>1, <1>6, <1>7, <4>1 DEF Walk
    <3> QED BY <3>1, <3>2, WalkAssumption
  <2>2. Listed(walk.tool)' = rows
    BY <2>1 DEF Listed, Present
  <2> QED BY <1>1, <2>1, <2>2 DEF Watched, ListingAfter
<1>9. PageFits(walk, p, rows, watch') /\ watch' \in Watch
  <2> HIDE DEF p, rows
  <2> QED BY <1>1, <1>4, <1>8, PageMoves, AfterWatch
<1>10. watch'.steady \subseteq rows
  BY <1>8 DEF ListingAfter
<1>11. walk.least = 0 => /\ Accounted(seen, repeats, p.next, rows, watch')
                         /\ p.more = FALSE => Missed(seen, watch')
  BY <1>9 DEF PageFits
<1> HIDE DEF seen, repeats, p, state
<1>12. /\ walk' \in Walk /\ walk'.seen = seen /\ walk'.repeats = repeats /\ walk'.cursor = p.next
       /\ walk'.state = state /\ walk'.tool = walk.tool /\ walk'.least = walk.least
  <2>1. walk' = [walk EXCEPT !.seen = seen, !.repeats = repeats, !.cursor = p.next,
                             !.state = state]
    BY <1>5 DEF state
  <2> QED BY <1>1, <1>6, <1>7, <2>1 DEF Walk
<1>13. Listed(walk.tool)' = rows
  BY <1>12 DEF Listed, Present
<1>14. WalkTypes'
  BY <1>9, <1>12, WalkAssumption DEF WalkTypes
<1>15. OnePage' /\ PageSound'
  BY DEF OnePage, PageSound
<1>16. WalkSound'
  <2>1. WalkFits(walk', rows, watch')
    BY <1>10, <1>11, <1>12 DEF WalkFits
  <2> QED BY <1>13, <2>1, Renamed DEF WalkSound
<1>17. WalkMisses'
  <2> SUFFICES ASSUME walk'.state = "finished", walk'.least = 0
               PROVE  /\ Cardinality(watch'.steady \ walk'.seen) <= watch'.departed
                      /\ walk'.repeats <= watch'.arrived
    BY DEF WalkMisses
  <2>1. Accounted(seen, repeats, p.next, rows, watch') /\ Missed(seen, watch')
    BY <1>7, <1>11, <1>12
  <2> DEFINE ahead == {t \in seen \cap rows : Offset(t, rows) >= p.next}
  <2>2. Cardinality(ahead) \in Nat
    <3>1. ahead \in SUBSET Tx
      BY <1>4
    <3> QED BY <3>1, RowsFinite
  <2>3. repeats + Cardinality(ahead) <= watch'.arrived
    BY <2>1 DEF Accounted
  <2> HIDE DEF ahead
  <2>4. repeats <= watch'.arrived
    BY <1>6, <1>9, <2>2, <2>3 DEF Watch
  <2> QED BY <1>12, <2>1, <2>4 DEF Missed
<1> QED BY <1>14, <1>15, <1>16, <1>17 DEF WalkInv

LEMMA ReplyStep ==
  ASSUME WalkInv, RateInv, NEW k \in Call, Reply(k), Watched
  PROVE  WalkInv'
<1> DEFINE c == [calls[k] EXCEPT !.phase = "over", !.read = None, !.label = None, !.page = None]
<1>1. calls[k] # None /\ calls[k].phase = "done" /\ calls' = [calls EXCEPT ![k] = c]
      /\ walk' = (IF calls[k].orphan THEN walk ELSE Told(k)) /\ UNCHANGED tx
  BY DEF Reply, InPhase, Over
<1>2. Shape(calls[k]) /\ calls[k].orphan \in BOOLEAN
  BY <1>1, ShapeOf DEF Shape, CallOf
<1>3. c.phase = "over"
  BY <1>2, OverKept
<1> HIDE DEF c
<1>4. k \notin PageCalls'
  BY <1>1, <1>3, PageCallNext
<1>5. CASE k \notin PageCalls
  <2>1. walk' = walk
    BY <1>1, <1>2, <1>5, PageCallIs DEF Told
  <2> QED BY <1>1, <1>4, <2>1, CallOn
<1>6. CASE k \in PageCalls
  <2>1. PageCalls' = {}
    <3>1. PageCalls' \ {k} = PageCalls \ {k}
      BY <1>1, PageCallNext
    <3>2. PageCalls = {k}
      BY <1>6, Waits
    <3> QED BY <1>4, <3>1, <3>2
  <2>2. walk' = Told(k) /\ calls[k].request.tool \in Listings
    BY <1>1, <1>2, <1>6, PageCallIs
  <2>3. CASE calls[k].page = None
    BY <1>6, <2>1, <2>2, <2>3, WalkFails DEF Told
  <2>4. CASE calls[k].page # None
    BY <1>1, <1>6, <2>1, <2>2, <2>4, WalkTurns
  <2> QED BY <2>3, <2>4
<1> QED BY <1>5, <1>6

LEMMA CancelStep ==
  ASSUME WalkInv, RateInv, NEW k \in Call, Cancel(k), Watched
  PROVE  WalkInv'
<1>1. calls[k] # None /\ ~calls[k].orphan /\ calls[k].phase # "over"
      /\ walk' = (IF calls[k].request.tool \in Listings
                  THEN [walk EXCEPT !.state = "failed"] ELSE walk)
  BY DEF Cancel, InPhase, Working
<1>2. Shape(calls[k]) /\ calls[k].orphan = FALSE
  BY <1>1, ShapeOf DEF Shape, CallOf
<1>3. PICK c : calls' = [calls EXCEPT ![k] = c] /\ (c.phase = "over" \/ c.orphan = TRUE)
  <2>1. CASE calls' = Over(k)
    <3> DEFINE c == [calls[k] EXCEPT !.phase = "over", !.read = None, !.label = None, !.page = None]
    <3>1. calls' = [calls EXCEPT ![k] = c]
      BY <2>1 DEF Over
    <3>2. c.phase = "over"
      BY <1>2, OverKept
    <3> HIDE DEF c
    <3> QED BY <3>1, <3>2
  <2>2. CASE calls' = [calls EXCEPT ![k].orphan = TRUE]
    <3> DEFINE c == [calls[k] EXCEPT !.orphan = TRUE]
    <3>1. calls' = [calls EXCEPT ![k] = c]
      BY <2>2
    <3>2. c.orphan = TRUE
      BY <1>2 DEF Shape, CallOf
    <3> HIDE DEF c
    <3> QED BY <3>1, <3>2
  <2> QED BY <2>1, <2>2 DEF Cancel
<1>4. k \notin PageCalls'
  BY <1>3, PageCallNext
<1>5. CASE k \in PageCalls
  <2>1. PageCalls' = {}
    <3>1. PageCalls' \ {k} = PageCalls \ {k}
      BY <1>3, PageCallNext
    <3>2. PageCalls = {k}
      BY <1>5, Waits
    <3> QED BY <1>4, <3>1, <3>2
  <2>2. walk' = [walk EXCEPT !.state = "failed"]
    BY <1>1, <1>5, PageCallIs
  <2> QED BY <1>5, <2>1, <2>2, WalkFails
<1>6. CASE k \notin PageCalls
  <2>1. walk' = walk
    BY <1>1, <1>2, <1>6, PageCallIs
  <2> QED BY <1>3, <1>4, <2>1, CallOn
<1> QED BY <1>5, <1>6

LEMMA SendRequest ==
  ASSUME WalkInv, RateInv, NEW k \in Call, Request(k), Watched
  PROVE  WalkInv'
<1>1. PICK r \in Requests, step \in {"report", "label"} : Send(k, r, step)
  BY DEF Request
<1>2. walk' = walk /\ calls' = [calls EXCEPT ![k] = Arrived(r)]
  BY <1>1 DEF Request, Send
<1>3. r.tool \notin Listings
  BY AgentServerAssumption DEF Listings
<1>4. k \notin PageCalls'
  <2>1. Arrived(r).request = r
    BY DEF Arrived
  <2> QED BY <1>2, <1>3, <2>1, PageCallNext
<1> QED BY <1>2, <1>4, CallOn

\* The steps of a call that say nothing to the agent and give it no page.
LEMMA QuietStep ==
  ASSUME WalkInv, RateInv, NEW k \in Call, Watched,
         Enter(k) \/ CheckRate(k) \/ CountCall(k) \/ ReadReport(k) \/ Resolve(k) \/ Commit(k)
  PROVE  WalkInv'
<1> DEFINE d == calls[k]
<1>1. walk' = walk /\ d # None /\ d.phase # "over"
  BY DEF Enter, CheckRate, CountCall, ReadReport, Resolve, Commit, InPhase
<1>2. Shape(d)
  BY <1>1, ShapeOf
<1>3. PICK c : /\ calls' = [calls EXCEPT ![k] = c]
               /\ c.request = d.request /\ c.orphan = d.orphan /\ c.page \in {None, d.page}
  <2>1. CASE Enter(k)
    <3> DEFINE c == [d EXCEPT !.phase = "entered"]
    <3>1. calls' = [calls EXCEPT ![k] = c]
      BY <2>1 DEF Enter
    <3>2. c.request = d.request /\ c.orphan = d.orphan /\ c.page = d.page
      BY <1>2 DEF Shape, CallOf
    <3> HIDE DEF c
    <3> QED BY <3>1, <3>2
  <2>2. CASE CheckRate(k)
    <3> DEFINE phase == IF Len(Recent) >= Limit THEN "done" ELSE "checked"
               c == [d EXCEPT !.at = clock, !.phase = phase]
    <3>1. calls' = [calls EXCEPT ![k] = c]
      BY <2>2 DEF CheckRate
    <3>2. c.request = d.request /\ c.orphan = d.orphan /\ c.page = d.page
      <4> HIDE DEF phase
      <4> QED BY <1>2 DEF Shape, CallOf
    <3> HIDE DEF c
    <3> QED BY <3>1, <3>2
  <2>3. CASE CountCall(k)
    <3> DEFINE c == [d EXCEPT !.phase = "counted", !.counted = TRUE]
    <3>1. calls' = [calls EXCEPT ![k] = c]
      BY <2>3 DEF CountCall
    <3>2. c.request = d.request /\ c.orphan = d.orphan /\ c.page = d.page
      BY <1>2 DEF Shape, CallOf
    <3> HIDE DEF c
    <3> QED BY <3>1, <3>2
  <2>4. CASE Done(k, None)
    <3> DEFINE c == [d EXCEPT !.phase = "done", !.page = None]
    <3>1. calls' = [calls EXCEPT ![k] = c]
      BY <2>4 DEF Done
    <3>2. c.request = d.request /\ c.orphan = d.orphan /\ c.page = None
      BY <1>2 DEF Shape, CallOf
    <3> HIDE DEF c
    <3> QED BY <3>1, <3>2
  <2>5. CASE Resolve(k) /\ ~Done(k, None)
    <3> DEFINE found == Hinted(d.request.slug, d.request.sub)
               label == Label(found.category, found.subcategory)
               read == tx[d.request.tx]
               c == [d EXCEPT !.phase = "resolved", !.read = read, !.label = label]
    <3>1. calls' = [calls EXCEPT ![k] = c]
      BY <2>5 DEF Resolve
    <3>2. c.request = d.request /\ c.orphan = d.orphan /\ c.page = d.page
      <4> HIDE DEF label, read
      <4> QED BY <1>2 DEF Shape, CallOf
    <3> HIDE DEF c
    <3> QED BY <3>1, <3>2
  <2> QED BY <2>1, <2>2, <2>3, <2>4, <2>5 DEF ReadReport, Commit
<1>4. ASSUME k \in PageCalls' PROVE k \in PageCalls
  <2>1. c.orphan # TRUE /\ c.request.tool \in Listings
    BY <1>3, <1>4, PageCallNext
  <2> QED BY <1>1, <1>3, <2>1, PageCallIs
<1> QED BY <1>1, <1>3, <1>4, CallOn

\* What happens outside the server.
LEMMA OutsideStep ==
  ASSUME WalkInv, Watched, calls' = calls, walk' = walk
  PROVE  WalkInv'
<1>1. PageCalls' = PageCalls
  BY DEF PageCalls, Orphans
<1> QED BY <1>1, WalkOn

LEMMA WalkInit ==
  ASSUME Init
  PROVE  WalkInv
<1>1. /\ calls = [k \in Call |-> None] /\ walk = None
      /\ watch = [steady |-> {}, departed |-> 0, arrived |-> 0]
  BY DEF Init, AgentInit
<1>2. PageCalls = {}
  BY <1>1 DEF PageCalls
<1> QED BY <1>1, <1>2
        DEF WalkInv, WalkTypes, Watch, OnePage, WalkSound, PageSound, Going, WalkMisses

\* Where nothing happens, the history is as the rule of the history has it.
LEMMA NothingWatched ==
  ASSUME WalkInv, UNCHANGED <<tx, walk, watch>>
  PROVE  Watched
<1> DEFINE rows == Listed(walk.tool)
<1>1. Listed(walk.tool)' = rows
  BY DEF Listed, Present
<1>2. CASE Going
  <2>1. watch \in Watch /\ watch.steady \subseteq rows
    BY <1>2 DEF WalkInv, WalkTypes, WalkSound, WalkFits
  <2>2. rows \ rows = {} /\ Cardinality({}) = 0 /\ watch.steady \cap rows = watch.steady
    BY <2>1, FS_EmptySet
  <2> HIDE DEF rows
  <2>3. watch = [steady |-> watch.steady \cap rows,
                 departed |-> watch.departed + Cardinality(rows \ rows),
                 arrived |-> watch.arrived + Cardinality(rows \ rows)]
    BY <2>1, <2>2 DEF Watch
  <2>4. walk # None /\ walk.state \notin {"finished", "failed"}
    BY <1>2 DEF Going
  <2> QED BY <1>1, <2>3, <2>4 DEF Watched, rows
<1>3. CASE ~Going
  BY <1>3 DEF Watched, Going, WalkInv, WalkTypes, Walk
<1> QED BY <1>2, <1>3

LEMMA WalkStep ==
  ASSUME WalkInv, RateInv, [Next]_vars
  PROVE  WalkInv'
<1>1. CASE UNCHANGED vars
  <2>1. UNCHANGED <<calls, tx, walk, watch>>
    BY <1>1 DEF vars, server, agent
  <2> QED BY <2>1, NothingWatched, OutsideStep
<1>2. CASE Next
  <2>1. Watched
    BY <1>2 DEF Next
  <2>2. CASE UNCHANGED <<server, walk>>
    BY <2>1, <2>2, OutsideStep DEF server
  <2>3. CASE Tick
    BY <2>1, <2>3, OutsideStep DEF Tick
  <2>4. CASE Calls
    <3>1. ASSUME NEW k \in Call, Request(k) \/ StartWalk(k) \/ NextPage(k) \/ ReadPage(k)
                                   \/ Reply(k) \/ Cancel(k)
          PROVE  WalkInv'
      BY <2>1, <3>1, SendRequest, StartWalkStep, NextPageStep, ReadPageStep, ReplyStep, CancelStep
    <3>2. ASSUME NEW k \in Call, Enter(k) \/ CheckRate(k) \/ CountCall(k) \/ ReadReport(k)
                                   \/ Resolve(k) \/ Commit(k)
          PROVE  WalkInv'
      BY <2>1, <3>2, QuietStep
    <3> QED BY <2>3, <2>4, <3>1, <3>2 DEF Calls
  <2> QED BY <1>2, <2>2, <2>4 DEF Next, server
<1> QED BY <1>1, <1>2

\* However the pages of a walk interleave with rows that arrive, are labelled or are
\* reported: it misses no more of the rows that were there throughout than have left the
\* listing, and shows no more of them twice than have come to it.
THEOREM WalksMissNoMore == Spec => []WalkMisses
<1>1. Init => RateInv /\ WalkInv
  BY RateInit, WalkInit
<1>2. RateInv /\ WalkInv /\ [Next]_vars => (RateInv /\ WalkInv)'
  BY RateStep, WalkStep
<1>3. RateInv /\ WalkInv => WalkMisses
  BY DEF WalkInv
<1> QED BY <1>1, <1>2, <1>3, PTL DEF Spec
=============================================================================
