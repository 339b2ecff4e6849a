---------------------------- MODULE LatchFacts -----------------------------
(***************************************************************************)
(* Facts about the judgement of one frame and about update() of the hazard *)
(* latch, for every frame and every configuration: what the proofs about   *)
(* the loop, the latch and the safety bridge rest on.                      *)
(***************************************************************************)
EXTENDS SafetyHazardLatch, WellFoundedInduction, TLAPS

(* A non-empty set of natural numbers has a least element. *)
LEMMA LeastElement ==
    ASSUME NEW T \in SUBSET Nat, T # {}
    PROVE  \E x \in T : \A y \in T : x <= y
<1> DEFINE less == {ss \in Nat \X Nat : ss[1] < ss[2]}
<1>1. IsWellFoundedOn(less, Nat)
  BY NatLessThanWellFounded DEF OpToRel
<1>2. PICK x \in T : \A y \in T : ~(<<y, x>> \in less)
  <2> HIDE DEF less
  <2> QED BY <1>1, WFMin
<1>3. \A y \in T : ~(y < x)
  BY <1>2
<1> QED BY <1>3

(* The elements of two sequences put together, by their places. *)
LEMMA Joined ==
    ASSUME NEW S, NEW a \in Seq(S), NEW b \in Seq(S)
    PROVE  /\ a \o b \in Seq(S) /\ Len(a \o b) = Len(a) + Len(b)
           /\ \A p \in 1 .. Len(a) : p \in 1 .. Len(a \o b) /\ (a \o b)[p] = a[p]
           /\ \A p \in 1 .. Len(b) : /\ Len(a) + p \in 1 .. Len(a \o b)
                                    /\ (a \o b)[Len(a) + p] = b[p]
           /\ \A p \in 1 .. Len(a \o b) :
                  \/ p \in 1 .. Len(a) /\ (a \o b)[p] = a[p]
                  \/ /\ p > Len(a) /\ p - Len(a) \in 1 .. Len(b)
                     /\ (a \o b)[p] = b[p - Len(a)]
<1>1. a \o b \in Seq(S) /\ Len(a \o b) = Len(a) + Len(b) /\ Len(a) \in Nat /\ Len(b) \in Nat
  OBVIOUS
<1>2. ASSUME NEW p \in 1 .. Len(a) PROVE (a \o b)[p] = a[p]
  OBVIOUS
<1>3. ASSUME NEW p \in 1 .. Len(b) PROVE (a \o b)[Len(a) + p] = b[p]
  OBVIOUS
<1> QED BY <1>1, <1>2, <1>3

(* The elements of a part of a sequence. *)
LEMMA PartOf ==
    ASSUME NEW S, NEW a \in Seq(S), NEW m \in 1 .. Len(a) + 1, NEW n \in m - 1 .. Len(a)
    PROVE  /\ SubSeq(a, m, n) \in Seq(S) /\ Len(SubSeq(a, m, n)) = n - m + 1
           /\ \A k \in 1 .. n - m + 1 : SubSeq(a, m, n)[k] = a[m + k - 1]
OBVIOUS

LEMMA Beginning ==
    ASSUME NEW S, NEW a \in Seq(S), NEW n \in 0 .. Len(a)
    PROVE  /\ SubSeq(a, 1, n) \in Seq(S) /\ Len(SubSeq(a, 1, n)) = n
           /\ \A k \in 1 .. n : SubSeq(a, 1, n)[k] = a[k]
OBVIOUS

(* judgeOne yields one of the three states. *)
LEMMA JudgeOneType ==
    ASSUME NEW det PROVE judgeOne(det) \in State
BY DEF judgeOne, State

(* A detection contributes one of the three states, whatever is excluded. *)
LEMMA LevelType ==
    ASSUME NEW det, NEW e PROVE levelWithout(det, e) \in State
BY JudgeOneType DEF levelWithout, State, Clear

(* A detection at Stop is a car or a person: signs and background never    *)
(* reach Stop.                                                             *)
LEMMA OnlyHazardsStop ==
    ASSUME NEW det, judgeOne(det) = Stop
    PROVE  isHazardClass(det.class_id)
BY DEF judgeOne, Stop, Slow, Clear

(* judgeWorst answers one of the three states. *)
LEMMA WorstType ==
    ASSUME NEW s, NEW e
    PROVE  judgeWorst(s, e).state \in State
BY DEF judgeWorst, worstLevel, State

(* judgeWorst answers Stop exactly when a detection that is not excluded   *)
(* is at Stop.                                                             *)
LEMMA WorstStopIff ==
    ASSUME NEW s, NEW e
    PROVE  judgeWorst(s, e).state = Stop
                <=> \E k \in DOMAIN s : levelWithout(s[k], e) = Stop
<1>1. worstLevel(s, e) = Stop
        <=> \E k \in DOMAIN s : levelWithout(s[k], e) = Stop
  BY DEF worstLevel, Stop, Slow, Clear
<1> QED BY <1>1 DEF judgeWorst

(* firstAt is the first detection at a level, if there is one. *)
LEMMA FirstAtIsFirst ==
    ASSUME NEW s, NEW e, NEW level, NEW f \in DOMAIN s, isFirstAt(s, e, level, f)
    PROVE  /\ firstAt(s, e, level) \in DOMAIN s
           /\ isFirstAt(s, e, level, firstAt(s, e, level))
BY DEF firstAt

(* When judgeWorst answers Stop, the class it names is that of a detection *)
(* at Stop: a car or a person, present in the frame and not excluded.      *)
LEMMA WorstStopClass ==
    ASSUME NEW s \in Seq(DetectionRecord), NEW e,
           judgeWorst(s, e).state = Stop
    PROVE  /\ judgeWorst(s, e).class \in {car, person}
           /\ judgeWorst(s, e).class # e
           /\ classPresent(s, judgeWorst(s, e).class)
<1> DEFINE first == firstAt(s, e, Stop)
<1>1. PICK k \in DOMAIN s : levelWithout(s[k], e) = Stop
  BY WorstStopIff
<1>2. \E f \in DOMAIN s : isFirstAt(s, e, Stop, f)
  <2> DEFINE Stops == {j \in 1 .. Len(s) : levelWithout(s[j], e) = Stop}
  <2>1. k \in Stops /\ Stops \subseteq Nat
    BY <1>1
  <2>2. PICK f \in Stops : \A j \in Stops : f <= j
    BY <2>1, LeastElement
  <2>3. \A j \in 1 .. f - 1 : levelWithout(s[j], e) # Stop
    BY <2>1, <2>2
  <2> QED BY <2>2, <2>3 DEF isFirstAt
<1>3. first \in DOMAIN s /\ levelWithout(s[first], e) = Stop
  BY <1>2, FirstAtIsFirst DEF isFirstAt
<1>4. judgeWorst(s, e).class = s[first].class_id
  BY DEF judgeWorst, Stop, Clear
<1> HIDE DEF first
<1>5. s[first].class_id # e /\ judgeOne(s[first]) = Stop
  BY <1>3 DEF levelWithout, Stop, Clear
<1>6. s[first].class_id \in {car, person}
  BY <1>5, OnlyHazardsStop DEF isHazardClass
<1>7. classPresent(s, s[first].class_id)
  BY <1>3, <1>5, <1>6 DEF classPresent, car, person, Stop, Clear
<1> QED BY <1>4, <1>5, <1>6, <1>7

-----------------------------------------------------------------------------
(* Adding the same time to two times keeps their order. *)
LEMMA AddMonotone ==
    ASSUME NEW a \in Int, NEW b \in Int, NEW c \in Int, a <= b
    PROVE  a + c <= b + c
OBVIOUS

(* expireHold, when Stop is no longer held: Holding becomes Released with  *)
(* an absence that starts now, the other phases are left alone.            *)
LEMMA LatchFactsExpire ==
    ASSUME NEW l \in HazardLatch, NEW t \in Nat
    PROVE  LET e == expireHold(l, t)
           IN  /\ e \in HazardLatch
               /\ e.phase \in {"Idle", "Released"}
               /\ e.latched_class = l.latched_class
               /\ e.phase = "Idle" <=> l.phase = "Idle"
               /\ l.phase = "Holding" => e.absent_frames = 0 /\ e.absent_since_ms = t
               /\ l.phase # "Holding" => e = l
BY DEF expireHold, HazardLatch, Phase

(* trackAbsence: an Idle latch is left alone; a Released one either stays  *)
(* Released, with the absence counted, or becomes Idle after a frame       *)
(* without the class that completes the absence.                           *)
LEMMA LatchFactsTrack ==
    ASSUME NEW e \in HazardLatch, e.phase \in {"Idle", "Released"},
           NEW s, NEW t \in Nat
    PROVE  LET m == trackAbsence(e, s, t)
               seen == classPresent(s, e.latched_class)
           IN  /\ m \in HazardLatch
               /\ m.phase \in {"Idle", "Released"}
               /\ e.phase = "Idle" => m = e
               /\ m.phase = "Released" =>
                    /\ e.phase = "Released"
                    /\ m.latched_class = e.latched_class
                    /\ seen => m.absent_frames = 0 /\ m.absent_since_ms = t
                    /\ ~seen => /\ m.absent_frames = e.absent_frames + 1
                                /\ m.absent_since_ms = e.absent_since_ms
               /\ e.phase = "Released" /\ m.phase = "Idle" =>
                    /\ ~seen
                    /\ e.absent_frames + 1 >= release_frames
                    /\ release_ms = 0 \/ t - e.absent_since_ms >= release_ms
<1>1. CASE e.phase = "Idle"
  BY <1>1 DEF trackAbsence
<1>2. CASE e.phase = "Released" /\ classPresent(s, e.latched_class)
  BY <1>2 DEF trackAbsence, HazardLatch, Phase
<1>3. CASE e.phase = "Released" /\ ~classPresent(s, e.latched_class)
  <2> DEFINE over == /\ e.absent_frames + 1 >= release_frames
                     /\ \/ release_ms = 0
                        \/ /\ t >= e.absent_since_ms
                           /\ t - e.absent_since_ms >= release_ms
  <2>1. e.absent_frames + 1 \in Nat /\ NoClass \in ClassId \cup {NoClass}
    BY DEF HazardLatch
  <2>2. CASE over
    <3>1. trackAbsence(e, s, t) = [e EXCEPT !.absent_frames = e.absent_frames + 1,
                                            !.phase         = "Idle",
                                            !.latched_class = NoClass]
      BY <1>3, <2>2 DEF trackAbsence
    <3> QED BY <1>3, <2>1, <2>2, <3>1 DEF HazardLatch, Phase
  <2>3. CASE ~over
    <3>1. trackAbsence(e, s, t) = [e EXCEPT !.absent_frames = e.absent_frames + 1,
                                            !.phase         = e.phase,
                                            !.latched_class = e.latched_class]
      BY <1>3, <2>3 DEF trackAbsence
    <3> QED BY <1>3, <2>1, <3>1 DEF HazardLatch, Phase
  <2> QED BY <2>2, <2>3
<1> QED BY <1>1, <1>2, <1>3

(* openEvent: either a hazard other than a Released one opens an event, or *)
(* only the answer changes, to less than Stop.                             *)
LEMMA LatchFactsOpen ==
    ASSUME NEW m \in HazardLatch, m.phase \in {"Idle", "Released"},
           NEW s \in Seq(DetectionRecord), NEW t \in Nat
    PROVE  LET n == openEvent(m, s, t)
               w == worstNew(m, s)
           IN  /\ n \in HazardLatch
               /\ w.state = Stop =>
                    /\ n.phase = "Holding"
                    /\ n.last_state = Stop
                    /\ n.latched_class \in {car, person}
                    /\ m.phase = "Released" => n.latched_class # m.latched_class
                    /\ classPresent(s, n.latched_class)
                    /\ n.hold_until_ms = t + hold_ms
               /\ w.state # Stop =>
                    /\ n.phase = m.phase
                    /\ n.last_state # Stop
                    /\ n.latched_class = m.latched_class
                    /\ n.hold_until_ms = m.hold_until_ms
                    /\ n.absent_frames = m.absent_frames
                    /\ n.absent_since_ms = m.absent_since_ms
<1> DEFINE x == IF m.phase = "Released" THEN m.latched_class ELSE NoClass
           w == judgeWorst(s, x)
<1>1. w.state \in State
  BY WorstType
<1>2. w.state = Stop => /\ w.class \in {car, person} /\ w.class # x
                        /\ classPresent(s, w.class)
  BY WorstStopClass
<1>3. t + hold_ms \in Nat /\ {car, person} \subseteq ClassId
  BY LatchConfigAssumption DEF car, person, ClassId
<1>4. worstNew(m, s) = w
  BY DEF worstNew
<1> HIDE DEF w, x
<1>5. CASE w.state = Stop
  <2>1. openEvent(m, s, t) = [m EXCEPT !.phase         = "Holding",
                                       !.latched_class = w.class,
                                       !.hold_until_ms = t + hold_ms,
                                       !.last_state    = Stop]
    BY <1>4, <1>5 DEF openEvent
  <2>2. m.phase = "Released" => x = m.latched_class
    BY DEF x
  <2> QED BY <1>2, <1>3, <1>4, <1>5, <2>1, <2>2 DEF HazardLatch, Phase, State
<1>6. CASE w.state # Stop
  <2>1. openEvent(m, s, t) = [m EXCEPT !.last_state = w.state]
    BY <1>4, <1>6 DEF openEvent
  <2> QED BY <1>1, <1>4, <1>6, <2>1 DEF HazardLatch
<1> QED BY <1>5, <1>6

(* What update() does with a frame, by the phase it ends in.  Stop is kept *)
(* while it is held; otherwise an event of a class that is not latched     *)
(* opens, or the latch stays or becomes Released, or it becomes Idle after *)
(* a completed absence; in the last two cases nothing but the latched      *)
(* class is at Stop.                                                       *)
Kept(l, n, s, t) == held(l, t) /\ n = [l EXCEPT !.last_state = Stop]

Opens(l, n, s, t) ==
    /\ ~held(l, t)
    /\ n.phase = "Holding"
    /\ n.last_state = Stop
    /\ n.latched_class \in {car, person}
    /\ n.hold_until_ms = t + hold_ms
    /\ l.phase # "Idle" => n.latched_class # l.latched_class

Quiet(l, n, s, t) ==
    /\ ~held(l, t)
    /\ n.last_state # Stop
    /\ judgeWorst(s, IF l.phase = "Idle" THEN NoClass ELSE l.latched_class).state
            # Stop

Stays(l, n, s, t) ==
    /\ Quiet(l, n, s, t)
    /\ n.phase = "Released"
    /\ l.phase # "Idle"
    /\ n.latched_class = l.latched_class
    /\ classPresent(s, l.latched_class) =>
            n.absent_frames = 0 /\ n.absent_since_ms = t
    /\ ~classPresent(s, l.latched_class) =>
        /\ l.phase = "Released" => /\ n.absent_frames = l.absent_frames + 1
                                   /\ n.absent_since_ms = l.absent_since_ms
        /\ l.phase = "Holding" => n.absent_frames = 1 /\ n.absent_since_ms = t

Ends(l, n, s, t) ==
    /\ Quiet(l, n, s, t)
    /\ n.phase = "Idle"
    /\ l.phase # "Idle" => ~classPresent(s, l.latched_class)
    /\ l.phase = "Released" =>
        /\ l.absent_frames + 1 >= release_frames
        /\ release_ms = 0 \/ t - l.absent_since_ms >= release_ms
    /\ l.phase = "Holding" => 1 >= release_frames /\ release_ms = 0

LEMMA UpdateCases ==
    ASSUME NEW l \in HazardLatch, NEW s \in Seq(DetectionRecord), NEW t \in Nat
    PROVE  LET n == update(l, s, t)
           IN  /\ n \in HazardLatch
               /\ \/ Kept(l, n, s, t) \/ Opens(l, n, s, t)
                  \/ Stays(l, n, s, t) \/ Ends(l, n, s, t)
<1> DEFINE e == expireHold(l, t)
           m == trackAbsence(e, s, t)
           n == openEvent(m, s, t)
           w == worstNew(m, s)
           seen == classPresent(s, l.latched_class)
<1>1. CASE held(l, t)
  BY <1>1 DEF update, Kept, HazardLatch, State
<1>2. CASE ~held(l, t)
  <2>u. update(l, s, t) = n
    BY <1>2 DEF update
  <2>e. /\ e \in HazardLatch
        /\ e.phase \in {"Idle", "Released"}
        /\ e.latched_class = l.latched_class
        /\ e.phase = "Idle" <=> l.phase = "Idle"
        /\ l.phase = "Holding" => e.absent_frames = 0 /\ e.absent_since_ms = t
        /\ l.phase # "Holding" => e = l
    BY LatchFactsExpire
  <2> HIDE DEF e
  <2>m. /\ m \in HazardLatch
        /\ m.phase \in {"Idle", "Released"}
        /\ e.phase = "Idle" => m = e
        /\ m.phase = "Released" =>
              /\ e.phase = "Released"
              /\ m.latched_class = e.latched_class
              /\ seen => m.absent_frames = 0 /\ m.absent_since_ms = t
              /\ ~seen => /\ m.absent_frames = e.absent_frames + 1
                          /\ m.absent_since_ms = e.absent_since_ms
        /\ e.phase = "Released" /\ m.phase = "Idle" =>
              /\ ~seen
              /\ e.absent_frames + 1 >= release_frames
              /\ release_ms = 0 \/ t - e.absent_since_ms >= release_ms
    BY <2>e, LatchFactsTrack
  <2> HIDE DEF m
  <2>n. /\ n \in HazardLatch
        /\ w.state = Stop =>
              /\ n.phase = "Holding"
              /\ n.last_state = Stop
              /\ n.latched_class \in {car, person}
              /\ m.phase = "Released" => n.latched_class # m.latched_class
              /\ classPresent(s, n.latched_class)
              /\ n.hold_until_ms = t + hold_ms
        /\ w.state # Stop =>
              /\ n.phase = m.phase
              /\ n.last_state # Stop
              /\ n.latched_class = m.latched_class
              /\ n.hold_until_ms = m.hold_until_ms
              /\ n.absent_frames = m.absent_frames
              /\ n.absent_since_ms = m.absent_since_ms
    BY <2>m, LatchFactsOpen
  <2> HIDE DEF n
  <2>1. CASE w.state = Stop
    BY <1>2, <2>u, <2>e, <2>m, <2>n, <2>1 DEF Opens, HazardLatch, Phase
  <2>2. CASE w.state # Stop
    <3>1. Quiet(l, n, s, t)
      <4> DEFINE x == IF l.phase = "Idle" THEN NoClass ELSE l.latched_class
      <4>1. SUFFICES ASSUME judgeWorst(s, x).state = Stop PROVE FALSE
        BY <1>2, <2>n, <2>2 DEF Quiet
      <4>2. PICK k \in DOMAIN s : levelWithout(s[k], x) = Stop
        BY <4>1, WorstStopIff
      <4>3. judgeOne(s[k]) = Stop /\ s[k].class_id # x /\ s[k].class_id # NoClass
        <5>1. s[k] \in DetectionRecord
          OBVIOUS
        <5> HIDE DEF x
        <5>2. s[k].class_id \in 0 .. 5
          BY <5>1 DEF DetectionRecord, ClassId
        <5>3. s[k].class_id # NoClass
          BY <5>2 DEF NoClass
        <5> QED BY <4>2, <5>3 DEF levelWithout, Stop, Clear
      <4>4. m.phase = "Released" => x = m.latched_class
        BY <2>e, <2>m
      <4>5. levelWithout(s[k], IF m.phase = "Released" THEN m.latched_class
                                                      ELSE NoClass) = Stop
        BY <4>3, <4>4 DEF levelWithout
      <4> QED BY <4>5, <2>2, WorstStopIff DEF worstNew
    <3>2. CASE m.phase = "Released"
      BY <2>u, <2>e, <2>m, <2>n, <2>2, <3>1, <3>2 DEF Stays, HazardLatch, Phase
    <3>3. CASE m.phase = "Idle"
      <4>1. l.phase # "Idle" => e.phase = "Released"
        BY <2>e
      <4>2. l.phase = "Holding" => t - e.absent_since_ms = 0
        BY <2>e
      <4>3. l.phase = "Holding" => 1 >= release_frames /\ release_ms = 0
        BY <2>e, <2>m, <3>3, <4>1, <4>2, LatchConfigAssumption
      <4>4. l.phase = "Released" =>
                /\ l.absent_frames + 1 >= release_frames
                /\ release_ms = 0 \/ t - l.absent_since_ms >= release_ms
        BY <2>e, <2>m, <3>3, <4>1
      <4>5. l.phase # "Idle" => ~seen
        BY <2>m, <3>3, <4>1
      <4> QED BY <2>u, <2>n, <2>2, <3>1, <3>3, <4>3, <4>4, <4>5 DEF Ends
    <3> QED BY <2>m, <3>2, <3>3
  <2> QED BY <2>1, <2>2
<1> QED BY <1>1, <1>2
=============================================================================
