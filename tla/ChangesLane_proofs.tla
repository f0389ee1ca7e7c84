-------------------------- MODULE ChangesLane_proofs --------------------------
(***************************************************************************)
(* Proofs about ChangesLane for any catalog, calendar, window length,      *)
(* retention and page cap, any number of overlapping runs, changes and     *)
(* faults: its types, that nothing is left behind unaccounted, and, for a  *)
(* run at a time, that no run takes coverage back.                         *)
(***************************************************************************)
EXTENDS ChangesLane, FiniteSetTheorems, TLAPS

Steps == {"idle", "plan", "feed", "detail", "write", "save"}
Walking == {"detail", "write", "save"}
Asking == {"feed"} \cup Walking

RunType == [until : Calendar, next : Calendar, through : {None} \cup Calendar,
            refresh : SUBSET Ids, held : SUBSET Ids, late : SUBSET Changes, failed : BOOLEAN]

\* The locals of a run follow its steps.
Fits(step, l) ==
    /\ l.until <= today
    /\ step # "idle" => Retention - 1 <= l.until
    /\ step \in Asking => l.next <= l.until
    /\ step \in Walking => l.through = None \/ l.through \in Days(WindowOf(l))
    /\ step = "save" => l.through # None /\ ~l.failed

InOrder ==
    /\ Retention - 1 <= today /\ watermark <= today
    /\ \A r \in Runs : Fits(pc[r], run[r])

\* Runs that overlap are of one day, and the watermark is not ahead of any.
Abreast(step, l) ==
    /\ step # "idle" => watermark <= l.until
    /\ step # "idle" /\ ~Overnight => l.until = today
    /\ step \in Asking /\ watermark = None => promised = Horizon(l.until, Retention)
Ahead == \A r \in Runs : Abreast(pc[r], run[r])

\* The source lists every change it still keeps, and only copies that exist lack one.
Listing(p) == /\ p[1] <= today /\ p[2] \in catalog
              /\ p[1] >= Horizon(today, Retention) => p \in feed
Holding(l) == /\ \A p \in l.late : Listing(p) /\ l.until <= p[1]
              /\ l.held \subseteq catalog /\ l.refresh \subseteq catalog
Traceable == (\A p \in stale : Listing(p)) /\ \A r \in Runs : Holding(run[r])

Accounted(p) == p[1] \in reported \cup slipped \/ p \in refused
AccountedBefore(d) == \A p \in stale : promised # None /\ promised <= p[1] /\ p[1] < d => Accounted(p)

\* A change the run has seen and not yet written.
InHand(step, l, p) == \/ step = "detail" /\ p[2] \in l.refresh
                      \/ step = "write" /\ (l.failed \/ p[2] \in l.held)

\* Accounted for are the changes before the window of the run and, but for the day the
\* run started on, those within it that are not in hand.
Done(step, l) ==
    /\ step \in Asking => AccountedBefore(l.next)
    /\ step \in Walking =>
          \A p \in stale : p[1] \in l.next .. l.through /\ p[1] < l.until
                              => Accounted(p) \/ InHand(step, l, p)
Progress == AccountedBefore(watermark) /\ \A r \in Runs : Done(pc[r], run[r])

-----------------------------------------------------------------------------
(* The plan and the windows                                                 *)

Positive == Span \in Nat \ {0} /\ Retention \in Nat \ {0} /\ LastDay \in Nat

\* The first day of a plan is kept by the source, and is the day covered or a later one.
LEMMA PlanStartInRange ==
    ASSUME Positive, NEW since \in {None} \cup Nat, NEW until \in Nat,
           Retention - 1 <= until, since <= until
    PROVE  /\ PlanStart(since, until, Retention) \in Nat
           /\ PlanStart(since, until, Retention) <= until
           /\ since <= PlanStart(since, until, Retention)
           /\ Horizon(until, Retention) <= PlanStart(since, until, Retention)
           /\ since >= Horizon(until, Retention) => PlanStart(since, until, Retention) = since
           /\ since # None /\ since < Horizon(until, Retention)
                 => PlanStart(since, until, Retention) = Horizon(until, Retention)
BY DEF Positive, PlanStart, Later, Horizon, None

\* Every day between the one covered and the first requested is reported.
LEMMA GapIsReported ==
    ASSUME Positive, NEW since \in Nat, NEW until \in Nat, Retention - 1 <= until, since <= until,
           NEW d \in Nat, since < d, d < PlanStart(since, until, Retention)
    PROVE  d \in Uncovered(since, until, Retention)
BY DEF Positive, PlanStart, Uncovered, Later, Horizon, None

LEMMA UncoveredDays ==
    ASSUME Positive, NEW since \in {None} \cup Nat, NEW until \in Calendar
    PROVE  Uncovered(since, until, Retention) \subseteq Calendar
BY DEF Positive, Uncovered, Horizon, None, Calendar

\* A window of the plan is not empty and stays within it.
LEMMA WindowInRange ==
    ASSUME Positive, NEW l, l.next \in Nat, l.until \in Nat, l.next <= l.until
    PROVE  /\ WindowOf(l).start = l.next /\ WindowOf(l).end \in Nat
           /\ l.next <= WindowOf(l).end /\ WindowOf(l).end <= l.until
           /\ Days(WindowOf(l)) = l.next .. WindowOf(l).end
BY DEF Positive, WindowOf, NextWindow, Window, Earlier, Days

LEMMA ListedIsFinite ==
    ASSUME feed \subseteq Changes, NEW d
    PROVE  Cardinality(Listed(d)) \in Nat
<1>1. IsFiniteSet(Calendar) /\ IsFiniteSet(Ids)
  BY ChangesLaneAssumption, FS_Interval DEF Calendar
<1>2. IsFiniteSet(Changes)
  BY <1>1, FS_Product DEF Changes
<1>3. Listed(d) \subseteq Changes
  BY DEF Listed, On
<1>4. QED
  BY <1>2, <1>3, FS_Subset, FS_CardinalityType


LEMMA GotoSteps ==
    ASSUME pc \in [Runs -> Steps], run \in [Runs -> RunType],
           NEW r \in Runs, NEW step \in Steps, NEW l \in RunType, Goto(r, step, l)
    PROVE  /\ pc' \in [Runs -> Steps] /\ run' \in [Runs -> RunType]
           /\ pc'[r] = step /\ run'[r] = l
           /\ \A s \in Runs \ {r} : pc'[s] = pc[s] /\ run'[s] = run[s]
BY DEF Goto

LEMMA BlankFits == Blank \in RunType /\ (TypeOK => Fits("idle", Blank))
BY ChangesLaneAssumption DEF Blank, RunType, Calendar, None, TypeOK, Fits, Asking, Walking

-----------------------------------------------------------------------------
(* What each step does to the run that takes it                             *)

\* The moves of one run leave the locals of the others alone.
LEMMA OneMoves ==
    ASSUME TypeOK, NEW r \in Runs, NEW step \in Steps, NEW l \in RunType, Goto(r, step, l)
    PROVE  /\ pc'[r] = step /\ run'[r] = l
           /\ \A s \in Runs \ {r} : pc'[s] = pc[s] /\ run'[s] = run[s]
BY GotoSteps DEF TypeOK, Steps, RunType

\* The locals l go on with the plan of k; the payloads are the same.
Continues(l, k) == l.until = k.until /\ l.next = k.next /\ l.late = k.late

LEMMA StartMoves ==
    ASSUME TypeOK, NEW r \in Runs, Start(r)
    PROVE  \E l \in RunType : /\ Goto(r, "plan", l) /\ l.until = today
                              /\ l.late = {} /\ l.held = {} /\ l.refresh = {}
<1> DEFINE l == [Blank EXCEPT !.until = today]
<1>1. Goto(r, "plan", l)
  BY DEF Start
<1>2. l \in RunType /\ l.until = today
  BY BlankFits DEF TypeOK, RunType
<1>3. l.late = {} /\ l.held = {} /\ l.refresh = {}
  BY DEF Blank
<1>4. QED
  BY <1>1, <1>2, <1>3

LEMMA PlanMoves ==
    ASSUME TypeOK, InOrder, NEW r \in Runs, Plan(r), watermark <= run[r].until
    PROVE  \E l \in RunType :
              /\ Goto(r, "feed", l) /\ l.until = run[r].until
              /\ l.next = PlanStart(watermark, run[r].until, Retention)
              /\ l.late = run[r].late /\ l.held = run[r].held /\ l.refresh = run[r].refresh
<1> DEFINE start == PlanStart(watermark, run[r].until, Retention)
           l == [run[r] EXCEPT !.next = start]
<1>1. /\ run[r] \in RunType /\ run[r].until \in Nat /\ run[r].until \in Calendar
      /\ watermark \in {None} \cup Nat /\ Retention - 1 <= run[r].until
  BY DEF TypeOK, RunType, Calendar, Plan, InOrder, Fits
<1>2. start \in Calendar
  <2>1. start \in Nat /\ start <= run[r].until
    BY <1>1, PlanStartInRange, ChangesLaneAssumption DEF Positive
  <2> HIDE DEF start
  <2>2. QED
    BY <1>1, <2>1, ChangesLaneAssumption DEF Calendar
<1>3. Goto(r, "feed", l)
  BY <1>1 DEF Plan, None
<1> HIDE DEF start
<1>4. /\ l \in RunType /\ l.until = run[r].until /\ l.next = start
      /\ l.late = run[r].late /\ l.held = run[r].held /\ l.refresh = run[r].refresh
  BY <1>1, <1>2 DEF RunType
<1>5. QED
  BY <1>3, <1>4 DEF start

LEMMA AskingRange ==
    ASSUME TypeOK, InOrder, NEW r \in Runs, pc[r] \in Asking
    PROVE  /\ run[r] \in RunType /\ run[r].next \in Nat /\ run[r].until \in Nat
           /\ run[r].next <= run[r].until /\ run[r].until \in Calendar
           /\ WindowOf(run[r]).start = run[r].next /\ WindowOf(run[r]).end \in Nat
           /\ run[r].next <= WindowOf(run[r]).end /\ WindowOf(run[r]).end <= run[r].until
           /\ Days(WindowOf(run[r])) = run[r].next .. WindowOf(run[r]).end
           /\ Days(WindowOf(run[r])) \subseteq Calendar
<1>1. /\ run[r] \in RunType /\ run[r].next \in Nat /\ run[r].until \in Nat
      /\ run[r].next <= run[r].until /\ run[r].until \in Calendar
  BY DEF TypeOK, RunType, Calendar, InOrder, Fits
<1>2. /\ WindowOf(run[r]).start = run[r].next /\ WindowOf(run[r]).end \in Nat
      /\ run[r].next <= WindowOf(run[r]).end /\ WindowOf(run[r]).end <= run[r].until
      /\ Days(WindowOf(run[r])) = run[r].next .. WindowOf(run[r]).end
  BY <1>1, WindowInRange, ChangesLaneAssumption DEF Positive
<1>3. QED
  BY <1>1, <1>2, ChangesLaneAssumption DEF Calendar

LEMMA FeedMoves ==
    ASSUME TypeOK, InOrder, NEW r \in Runs, FetchFeed(r)
    PROVE  LET w == WindowOf(run[r]) IN
           \E served \in SUBSET On(feed, Days(w)), d \in w.start - 1 .. w.end, l \in RunType :
              /\ Serves(w, served) /\ WholeThrough(w, Load(w), Cap, d)
              /\ Goto(r, "detail", l) /\ Continues(l, run[r]) /\ l.held = run[r].held
              /\ l.through = (IF d < w.start THEN None ELSE d)
              /\ l.refresh = IdsOf(served) \cap catalog
<1> DEFINE w == WindowOf(run[r])
<1>1. /\ run[r] \in RunType /\ run[r].next \in Nat /\ w.start = run[r].next /\ w.end \in Nat
      /\ Days(w) = run[r].next .. w.end /\ Days(w) \subseteq Calendar
  BY AskingRange DEF FetchFeed, Asking
<1>2. PICK served \in SUBSET On(feed, Days(w)), d \in w.start - 1 .. w.end :
         /\ Serves(w, served) /\ WholeThrough(w, Load(w), Cap, d)
         /\ Goto(r, "detail", [run[r] EXCEPT !.through = IF d < w.start THEN None ELSE d,
                                             !.refresh = IdsOf(served) \cap catalog])
  BY DEF FetchFeed
<1> DEFINE l == [run[r] EXCEPT !.through = IF d < w.start THEN None ELSE d,
                               !.refresh = IdsOf(served) \cap catalog]
<1>3. d < w.start \/ d \in Calendar
  BY <1>1
<1>4. IdsOf(served) \cap catalog \subseteq Ids
  BY DEF TypeOK
<1>5. /\ l \in RunType /\ Continues(l, run[r]) /\ l.held = run[r].held
      /\ l.through = (IF d < w.start THEN None ELSE d)
      /\ l.refresh = IdsOf(served) \cap catalog
  <2> HIDE DEF w
  <2>1. QED
    BY <1>1, <1>3, <1>4 DEF RunType, Continues
<1> HIDE DEF l
<1>6. Goto(r, "detail", l)
  BY <1>2 DEF l
<1>7. QED
  BY <1>2, <1>5, <1>6

LEMMA DetailMoves ==
    ASSUME TypeOK, NEW r \in Runs, FetchDetails(r)
    PROVE  \E failing \in SUBSET run[r].refresh, gone \in SUBSET run[r].refresh, l \in RunType :
              /\ Goto(r, "write", l) /\ Continues(l, run[r]) /\ l.through = run[r].through
              /\ l.held = run[r].refresh \ (failing \cup gone) /\ l.refresh = {}
              /\ l.failed = (failing # {})
              /\ stale' = stale \ Of(stale, gone) /\ (faults' = faults \/ Fault)
<1>1. PICK failing \in SUBSET run[r].refresh :
         \E gone \in SUBSET (run[r].refresh \ failing) :
            /\ Goto(r, "write", [run[r] EXCEPT !.held = run[r].refresh \ (failing \cup gone),
                                               !.refresh = {}, !.failed = failing # {}])
            /\ stale' = stale \ Of(stale, gone) /\ (faults' = faults \/ Fault)
  BY DEF FetchDetails
<1>2. PICK gone \in SUBSET (run[r].refresh \ failing) :
            /\ Goto(r, "write", [run[r] EXCEPT !.held = run[r].refresh \ (failing \cup gone),
                                               !.refresh = {}, !.failed = failing # {}])
            /\ stale' = stale \ Of(stale, gone) /\ (faults' = faults \/ Fault)
  BY <1>1
<1> DEFINE l == [run[r] EXCEPT !.held = run[r].refresh \ (failing \cup gone),
                               !.refresh = {}, !.failed = failing # {}]
<1>3. /\ l \in RunType /\ Continues(l, run[r]) /\ l.through = run[r].through
      /\ l.held = run[r].refresh \ (failing \cup gone) /\ l.refresh = {}
      /\ l.failed = (failing # {})
  BY DEF TypeOK, RunType, Continues
<1> HIDE DEF l
<1>4. Goto(r, "write", l)
  BY <1>2 DEF l
<1>5. QED
  BY <1>2, <1>3, <1>4

LEMMA WriteMoves ==
    ASSUME TypeOK, NEW r \in Runs, WriteDetails(r)
    PROVE  \E step \in {"idle", "save"}, l \in RunType :
              /\ Goto(r, step, l) /\ l.late = {} /\ l.held = {}
              /\ l.refresh \subseteq run[r].refresh
              /\ step = "save" =>
                    /\ ~run[r].failed /\ ~l.failed
                    /\ run[r].through # None /\ l.through = run[r].through
                    /\ l.until = run[r].until /\ l.next = run[r].next
<1>1. CASE Stop(r)
  BY <1>1, BlankFits DEF Stop, Blank
<1>2. CASE ~Stop(r)
  <2> DEFINE l == [run[r] EXCEPT !.held = {}, !.late = {}]
  <2>1. Goto(r, "save", l) /\ run[r].through # None /\ ~run[r].failed
    BY <1>2 DEF WriteDetails
  <2>2. /\ l \in RunType /\ l.until = run[r].until /\ l.next = run[r].next
        /\ l.through = run[r].through /\ l.failed = run[r].failed
        /\ l.late = {} /\ l.held = {} /\ l.refresh = run[r].refresh
    BY DEF TypeOK, RunType
  <2> HIDE DEF l
  <2>3. QED
    BY <2>1, <2>2
<1>3. QED
  BY <1>1, <1>2

LEMMA SaveMoves ==
    ASSUME TypeOK, InOrder, NEW r \in Runs, Save(r)
    PROVE  \E step \in {"idle", "feed"}, l \in RunType :
              /\ Goto(r, step, l) /\ l.held \subseteq run[r].held
              /\ l.refresh \subseteq run[r].refresh
              /\ l.late = {} \/ (l.late = run[r].late /\ l.until = run[r].until)
              /\ step = "feed" =>
                    /\ l.until = run[r].until /\ l.next = WindowOf(run[r]).end + 1
                    /\ run[r].through = WindowOf(run[r]).end
                    /\ WindowOf(run[r]).end < run[r].until
<1> DEFINE w == WindowOf(run[r])
<1>1. CASE Stop(r)
  <2>1. Goto(r, "idle", Blank) /\ Blank \in RunType
    BY <1>1, BlankFits DEF Stop
  <2>2. Blank.held = {} /\ Blank.refresh = {} /\ Blank.late = {}
    BY DEF Blank
  <2>3. QED
    BY <2>1, <2>2
<1>2. CASE ~Stop(r)
  <2> DEFINE l == [run[r] EXCEPT !.next = w.end + 1]
  <2>1. Goto(r, "feed", l) /\ w.end # run[r].until /\ ~(run[r].through < w.end)
    BY <1>2 DEF Save
  <2>2. /\ run[r] \in RunType /\ run[r].until \in Calendar /\ run[r].next \in Nat
        /\ w.end \in Nat /\ w.end <= run[r].until /\ run[r].through \in run[r].next .. w.end
    BY AskingRange DEF Save, InOrder, Fits, Asking, Walking
  <2>3. /\ run[r].through = w.end /\ w.end < run[r].until /\ w.end + 1 \in Calendar
    BY <2>1, <2>2, ChangesLaneAssumption DEF Calendar
  <2>4. /\ l \in RunType /\ l.until = run[r].until /\ l.next = w.end + 1
        /\ l.late = run[r].late /\ l.held = run[r].held /\ l.refresh = run[r].refresh
    <3> HIDE DEF w
    <3>1. QED
      BY <2>2, <2>3 DEF RunType
  <2> HIDE DEF l
  <2>5. QED
    BY <2>1, <2>3, <2>4
<1>3. QED
  BY <1>1, <1>2

-----------------------------------------------------------------------------
(* Types and order                                                          *)

LEMMA TypesInit == Init => TypeOK /\ InOrder
<1> SUFFICES ASSUME Init PROVE TypeOK /\ InOrder
  OBVIOUS
<1>1. Blank \in RunType
  BY BlankFits
<1>2. TypeOK
  BY <1>1, ChangesLaneAssumption DEF Init, TypeOK, RunType, Calendar, None
<1>3. InOrder
  BY <1>2, BlankFits, ChangesLaneAssumption DEF Init, InOrder, None
<1>4. QED
  BY <1>2, <1>3

\* A run that takes a step leaves the others in order.
LEMMA GotoInOrder ==
    ASSUME TypeOK, InOrder, NEW r \in Runs, NEW step \in Steps, NEW l \in RunType,
           Goto(r, step, l), Fits(step, l), today' = today, watermark' <= today
    PROVE  pc' \in [Runs -> Steps] /\ run' \in [Runs -> RunType] /\ InOrder'
<1>1. pc \in [Runs -> Steps] /\ run \in [Runs -> RunType]
  BY DEF TypeOK, Steps, RunType
<1>2. /\ pc' \in [Runs -> Steps] /\ run' \in [Runs -> RunType]
      /\ pc'[r] = step /\ run'[r] = l
      /\ \A s \in Runs \ {r} : pc'[s] = pc[s] /\ run'[s] = run[s]
  BY <1>1, GotoSteps
<1>3. ASSUME NEW s \in Runs PROVE Fits(pc[s], run[s])'
  BY <1>2 DEF InOrder, Fits
<1>4. QED
  BY <1>2, <1>3 DEF InOrder

LEMMA TypesKept == TypeOK /\ InOrder /\ Ahead /\ [Next]_vars => TypeOK' /\ InOrder'
<1> SUFFICES ASSUME TypeOK, InOrder, Ahead, [Next]_vars PROVE TypeOK' /\ InOrder'
  OBVIOUS
<1>t. Positive
  BY ChangesLaneAssumption DEF Positive
<1>r. pc \in [Runs -> Steps] /\ run \in [Runs -> RunType]
  BY DEF TypeOK, Steps, RunType
<1>m. watermark \in {None} \cup Calendar /\ watermark <= today
  BY DEF TypeOK, InOrder
<1>f. ASSUME Fault PROVE faults' \in 0 .. MaxFaults
  BY <1>f, ChangesLaneAssumption DEF Fault, TypeOK
\* The end of a run.
<1>s. ASSUME NEW r \in Runs, Stop(r), today' = today, watermark' <= today
      PROVE  pc' \in [Runs -> Steps] /\ run' \in [Runs -> RunType] /\ InOrder'
  BY <1>s, BlankFits, GotoInOrder DEF Stop, Steps
<1>1. CASE Tick
  <2>1. today' \in Calendar /\ today' = today + 1 /\ today \in Nat /\ Retention - 1 <= today'
    BY <1>1, ChangesLaneAssumption DEF Tick, TypeOK, InOrder, Calendar
  <2>2. feed' \subseteq Changes /\ UNCHANGED <<changes, items, watermark, lane, history>>
    BY <1>1 DEF Tick, TypeOK, On
  <2>3. TypeOK'
    BY <2>1, <2>2 DEF TypeOK, items, lane, history
  <2>4. ASSUME NEW r \in Runs PROVE Fits(pc[r], run[r])'
    <3>1. run[r].until \in Nat
      BY <1>r DEF RunType, Calendar
    <3>2. QED
      BY <2>1, <2>2, <3>1 DEF InOrder, Fits, lane
  <2>5. QED
    BY <1>m, <2>1, <2>2, <2>3, <2>4 DEF InOrder, Calendar, None
<1>2. ASSUME NEW i \in Ids, Change(i)
      PROVE  TypeOK' /\ InOrder'
  <2>1. <<today, i>> \in Changes
    BY DEF TypeOK, Changes
  <2>2. ASSUME NEW r \in Runs
        PROVE  /\ run'[r] \in RunType /\ run'[r].until = run[r].until /\ run'[r].next = run[r].next
               /\ run'[r].through = run[r].through /\ run'[r].failed = run[r].failed
    <3>1. run[r] \in RunType /\ run'[r] = Missed(i, run[r])
      BY <1>2, <1>r DEF Change
    <3>2. QED
      BY <2>1, <3>1 DEF Missed, RunType
  <2>3. run' = [r \in Runs |-> Missed(i, run[r])]
    BY <1>2 DEF Change
  <2>4. run' \in [Runs -> RunType]
    BY <2>2, <2>3
  <2>5. TypeOK'
    BY <1>2, <2>1, <2>4, ChangesLaneAssumption DEF Change, TypeOK, history, RunType
  <2>6. ASSUME NEW r \in Runs PROVE Fits(pc[r], run[r])'
    BY <1>2, <2>2 DEF Change, InOrder, Fits, WindowOf
  <2>7. QED
    BY <1>2, <2>5, <2>6 DEF Change, InOrder
<1>3. ASSUME NEW i \in Ids, WriteElsewhere(i)
      PROVE  TypeOK' /\ InOrder'
  BY <1>3 DEF WriteElsewhere, TypeOK, InOrder, Fits, source, lane, history
<1>4. ASSUME NEW r \in Runs, Start(r)
      PROVE  TypeOK' /\ InOrder'
  <2>1. PICK l \in RunType : Goto(r, "plan", l) /\ l.until = today
    BY <1>4, StartMoves
  <2>2. today' = today /\ watermark' = watermark /\ today \in Nat
    BY <1>4 DEF Start, source, TypeOK, Calendar
  <2>3. Fits("plan", l)
    BY <2>1, <2>2 DEF Fits, Asking, Walking, InOrder
  <2>4. pc' \in [Runs -> Steps] /\ run' \in [Runs -> RunType] /\ InOrder'
    BY <1>m, <2>1, <2>2, <2>3, GotoInOrder DEF Steps
  <2>5. QED
    BY <1>4, <2>4 DEF Start, TypeOK, Steps, RunType, source, items, history
<1>5. ASSUME NEW r \in Runs, Plan(r)
      PROVE  TypeOK' /\ InOrder'
  <2> DEFINE start == PlanStart(watermark, run[r].until, Retention)
  <2>1. /\ pc[r] = "plan" /\ today' = today /\ watermark' = watermark
        /\ watermark <= run[r].until /\ Retention - 1 <= run[r].until /\ run[r].until <= today
    BY <1>5 DEF Plan, source, Ahead, Abreast, InOrder, Fits
  <2>2. run[r].until \in Nat /\ run[r].until \in Calendar /\ watermark \in {None} \cup Nat
    BY <1>r DEF RunType, TypeOK, Calendar
  <2>3. PICK l \in RunType : Goto(r, "feed", l) /\ l.until = run[r].until /\ l.next = start
    BY <1>5, <2>1, PlanMoves
  <2>4. start \in Nat /\ start <= run[r].until
    BY <1>t, <2>1, <2>2, PlanStartInRange
  <2>5. Fits("feed", l)
    BY <2>1, <2>3, <2>4 DEF Fits, Asking, Walking
  <2>6. pc' \in [Runs -> Steps] /\ run' \in [Runs -> RunType] /\ InOrder'
    BY <1>m, <2>1, <2>3, <2>5, GotoInOrder DEF Steps
  <2>7. reported' \subseteq Calendar
    BY <1>5, <1>t, <2>2, UncoveredDays DEF Plan, TypeOK
  <2>8. slipped' \subseteq Calendar /\ promised' \in {None} \cup Calendar
    <3>1. start \in Calendar
      <4> HIDE DEF start
      <4>1. QED
        BY <2>2, <2>4, ChangesLaneAssumption DEF Calendar
    <3>2. QED
      BY <1>5, <3>1 DEF Plan, TypeOK
  <2>9. QED
    BY <1>5, <2>6, <2>7, <2>8 DEF Plan, TypeOK, Steps, RunType, source, items
<1>6. ASSUME NEW r \in Runs, FetchFeed(r)
      PROVE  TypeOK' /\ InOrder'
  <2> DEFINE w == WindowOf(run[r])
  <2>1. pc[r] = "feed" /\ today' = today /\ watermark' = watermark
    BY <1>6 DEF FetchFeed, source
  <2>2. /\ run[r].next \in Nat /\ w.start = run[r].next /\ w.end \in Nat
        /\ Days(w) = run[r].next .. w.end /\ Days(w) \subseteq Calendar
    BY <2>1, AskingRange DEF Asking
  <2>3. PICK d \in w.start - 1 .. w.end, l \in RunType :
           /\ Goto(r, "detail", l) /\ Continues(l, run[r])
           /\ l.through = (IF d < w.start THEN None ELSE d)
    BY <1>6, FeedMoves
  <2>4. l.through = None \/ l.through \in Days(w)
    <3> HIDE DEF w
    <3>1. QED
      BY <2>2, <2>3
  <2>5. Fits("detail", l)
    <3>1. WindowOf(l) = w
      BY <2>3 DEF WindowOf, Continues
    <3>2. QED
      BY <2>1, <2>3, <2>4, <3>1 DEF InOrder, Fits, Continues, Asking, Walking
  <2>6. pc' \in [Runs -> Steps] /\ run' \in [Runs -> RunType] /\ InOrder'
    BY <1>m, <2>1, <2>3, <2>5, GotoInOrder DEF Steps
  <2>7. slipped' \subseteq Calendar
    BY <1>6, <2>2 DEF FetchFeed, TypeOK
  <2>8. QED
    BY <1>6, <2>6, <2>7 DEF FetchFeed, TypeOK, Steps, RunType, source, items
<1>7. ASSUME NEW r \in Runs, FetchDetails(r)
      PROVE  TypeOK' /\ InOrder'
  <2>1. PICK gone \in SUBSET run[r].refresh, l \in RunType :
           /\ Goto(r, "write", l) /\ Continues(l, run[r]) /\ l.through = run[r].through
           /\ stale' = stale \ Of(stale, gone) /\ (faults' = faults \/ Fault)
    BY <1>7, DetailMoves
  <2>2. pc[r] = "detail" /\ today' = today /\ watermark' = watermark
    BY <1>7 DEF FetchDetails, source
  <2>3. Fits("write", l)
    <3>1. WindowOf(l) = WindowOf(run[r])
      BY <2>1 DEF WindowOf, Continues
    <3>2. QED
      BY <2>1, <2>2, <3>1 DEF InOrder, Fits, Continues, Asking, Walking
  <2>4. pc' \in [Runs -> Steps] /\ run' \in [Runs -> RunType] /\ InOrder'
    BY <1>m, <2>1, <2>2, <2>3, GotoInOrder DEF Steps
  <2>5. faults' \in 0 .. MaxFaults
    BY <1>f, <2>1 DEF TypeOK
  <2>6. QED
    BY <1>7, <2>1, <2>4, <2>5 DEF FetchDetails, TypeOK, Steps, RunType, source, history
<1>8. ASSUME NEW r \in Runs, WriteDetails(r)
      PROVE  TypeOK' /\ InOrder'
  <2>1. stale' \subseteq Changes /\ refused' \subseteq Changes
    <3>1. run[r].late \subseteq Changes
      BY <1>r DEF RunType
    <3>2. QED
      BY <1>8, <3>1 DEF WriteDetails, Flush, Of, TypeOK
  <2>2. pc[r] = "write" /\ today' = today /\ watermark' = watermark
    BY <1>8 DEF WriteDetails, source
  <2>3. pc' \in [Runs -> Steps] /\ run' \in [Runs -> RunType] /\ InOrder'
    <3>1. CASE Stop(r)
      BY <1>s, <1>m, <2>2, <3>1
    <3>2. CASE ~Stop(r)
      <4>1. PICK step \in {"idle", "save"}, l \in RunType :
               /\ Goto(r, step, l)
               /\ step = "save" => /\ ~l.failed /\ run[r].through # None
                                   /\ l.through = run[r].through
                                   /\ l.until = run[r].until /\ l.next = run[r].next
        BY <1>8, WriteMoves
      <4>2. step = "save"
        BY <1>8, <3>2, <4>1, <1>r DEF WriteDetails, Goto
      <4>3. WindowOf(l) = WindowOf(run[r])
        BY <4>1, <4>2 DEF WindowOf
      <4>4. Fits("save", l)
        BY <2>2, <4>1, <4>2, <4>3 DEF InOrder, Fits, Asking, Walking
      <4>5. QED
        BY <1>m, <2>2, <4>1, <4>2, <4>4, GotoInOrder DEF Steps
    <3>3. QED
      BY <3>1, <3>2
  <2>4. QED
    BY <1>8, <2>1, <2>3 DEF WriteDetails, TypeOK, Steps, RunType, source
<1>9. ASSUME NEW r \in Runs, Save(r)
      PROVE  TypeOK' /\ InOrder'
  <2> DEFINE w == WindowOf(run[r])
  <2>1. pc[r] = "save" /\ watermark' = run[r].through /\ run[r].through \in Days(w) /\ today' = today
    BY <1>9 DEF Save, InOrder, Fits, Walking, source
  <2>2. /\ run[r].until \in Nat /\ w.end \in Nat /\ w.end <= run[r].until
        /\ run[r].next \in Nat /\ Days(w) = run[r].next .. w.end /\ Days(w) \subseteq Calendar
        /\ today \in Nat /\ run[r].until <= today /\ Retention - 1 <= run[r].until
    BY <2>1, AskingRange DEF Asking, Walking, TypeOK, Calendar, InOrder, Fits
  <2>3. watermark' \in Calendar /\ watermark' <= today
    BY <2>1, <2>2
  <2>4. pc' \in [Runs -> Steps] /\ run' \in [Runs -> RunType] /\ InOrder'
    <3>1. CASE Stop(r)
      BY <1>s, <2>1, <2>3, <3>1
    <3>2. CASE ~Stop(r)
      <4>1. PICK step \in {"idle", "feed"}, l \in RunType :
               /\ Goto(r, step, l)
               /\ step = "feed" => l.until = run[r].until /\ l.next = w.end + 1 /\ w.end < run[r].until
        BY <1>9, SaveMoves
      <4>2. step = "feed"
        BY <1>9, <3>2, <4>1, <1>r DEF Save, Goto
      <4>3. Fits("feed", l)
        BY <2>2, <4>1, <4>2 DEF Fits, Asking, Walking
      <4>4. QED
        BY <2>1, <2>3, <4>1, <4>2, <4>3, GotoInOrder DEF Steps
    <3>3. QED
      BY <3>1, <3>2
  <2>5. QED
    BY <1>9, <2>3, <2>4 DEF Save, TypeOK, Steps, RunType, source, items, history
<1>10. ASSUME NEW r \in Runs, FeedFails(r) \/ Crash(r)
      PROVE  TypeOK' /\ InOrder'
  <2>1. Stop(r) /\ Fault /\ UNCHANGED <<source, items, watermark, history>>
    BY <1>10 DEF FeedFails, Crash
  <2>2. pc' \in [Runs -> Steps] /\ run' \in [Runs -> RunType] /\ InOrder'
    BY <1>s, <1>m, <2>1 DEF source
  <2>3. faults' \in 0 .. MaxFaults
    BY <1>f, <2>1
  <2>4. QED
    BY <2>1, <2>2, <2>3 DEF TypeOK, Steps, RunType, source, items, history
<1>11. CASE UNCHANGED vars
  BY <1>11 DEF vars, TypeOK, InOrder, Fits, source, items, lane, history
<1>12. QED
  BY <1>1, <1>2, <1>3, <1>4, <1>5, <1>6, <1>7, <1>8, <1>9, <1>10, <1>11 DEF Next, Step

-----------------------------------------------------------------------------
(* Overlapping runs                                                         *)

LEMMA AheadKept == TypeOK /\ InOrder /\ Ahead /\ [Next]_vars => Ahead'
<1> SUFFICES ASSUME TypeOK, InOrder, Ahead, [Next]_vars PROVE Ahead'
  OBVIOUS
<1>r. /\ run \in [Runs -> RunType] /\ today \in Nat /\ watermark \in {None} \cup Nat
      /\ \A r \in Runs : run[r].until \in Nat
  BY DEF TypeOK, RunType, Calendar
\* Two runs under way started on the same day.
<1>o. ASSUME NEW r \in Runs, NEW s \in Runs \ {r}, pc[r] # "idle", pc[s] # "idle"
      PROVE  run[s].until = run[r].until
  BY <1>o, ChangesLaneAssumption DEF Sequential, Ahead, Abreast
\* A run that ends, or goes on with its plan.
<1>g. ASSUME NEW r \in Runs, NEW step \in Steps, NEW l \in RunType, Goto(r, step, l),
             step = "idle" \/ (pc[r] \in Asking /\ l.until = run[r].until),
             UNCHANGED <<today, watermark, promised>>
      PROVE  Ahead'
  <2>1. /\ pc'[r] = step /\ run'[r] = l
        /\ \A s \in Runs \ {r} : pc'[s] = pc[s] /\ run'[s] = run[s]
    BY <1>g, OneMoves
  <2>2. QED
    BY <1>g, <2>1 DEF Ahead, Abreast, Asking, Walking
<1>1. CASE Tick
  <2>1. ASSUME NEW r \in Runs PROVE Abreast(pc[r], run[r])'
    BY <1>1 DEF Tick, Ahead, Abreast, items, lane, history
  <2>2. QED
    BY <2>1 DEF Ahead
<1>2. ASSUME NEW i \in Ids, Change(i)
      PROVE  Ahead'
  <2>1. ASSUME NEW r \in Runs PROVE run'[r].until = run[r].until
    BY <1>2, <1>r DEF Change, Missed, RunType
  <2>2. QED
    BY <1>2, <2>1 DEF Change, Ahead, Abreast, history
<1>3. ASSUME NEW i \in Ids, WriteElsewhere(i)
      PROVE  Ahead'
  BY <1>3 DEF WriteElsewhere, Ahead, Abreast, source, lane, history
<1>4. ASSUME NEW r \in Runs, Start(r)
      PROVE  Ahead'
  <2>1. PICK l \in RunType : Goto(r, "plan", l) /\ l.until = today
    BY <1>4, StartMoves
  <2>2. UNCHANGED <<today, watermark, promised>>
    BY <1>4 DEF Start, source, history
  <2>3. /\ pc'[r] = "plan" /\ run'[r] = l
        /\ \A s \in Runs \ {r} : pc'[s] = pc[s] /\ run'[s] = run[s]
    BY <2>1, OneMoves DEF Steps
  <2>4. QED
    BY <2>1, <2>2, <2>3 DEF Ahead, Abreast, InOrder, Asking, Walking
<1>5. ASSUME NEW r \in Runs, Plan(r)
      PROVE  Ahead'
  <2> DEFINE start == PlanStart(watermark, run[r].until, Retention)
  <2>1. pc[r] = "plan" /\ today' = today /\ watermark' = watermark /\ watermark <= run[r].until
        /\ promised' = IF watermark = None THEN start ELSE promised
    BY <1>5 DEF Plan, source, Ahead, Abreast
  <2>2. watermark = None => start = Horizon(run[r].until, Retention)
    BY DEF PlanStart
  <2>3. PICK l \in RunType : Goto(r, "feed", l) /\ l.until = run[r].until
    BY <1>5, <2>1, PlanMoves
  <2> HIDE DEF start
  <2>4. /\ pc'[r] = "feed" /\ run'[r] = l
        /\ \A s \in Runs \ {r} : pc'[s] = pc[s] /\ run'[s] = run[s]
    BY <2>3, OneMoves DEF Steps
  <2>5. Abreast(pc[r], run[r])'
    BY <2>1, <2>2, <2>3, <2>4 DEF Ahead, Abreast, Asking, Walking
  <2>6. ASSUME NEW s \in Runs \ {r} PROVE Abreast(pc[s], run[s])'
    <3>1. pc[s] # "idle" => run[s].until = run[r].until
      BY <1>o, <2>1
    <3>2. QED
      BY <2>1, <2>2, <2>4, <3>1 DEF Ahead, Abreast, Asking, Walking
  <2>7. QED
    BY <2>5, <2>6 DEF Ahead
<1>6. ASSUME NEW r \in Runs, FetchFeed(r)
      PROVE  Ahead'
  <2>1. pc[r] \in Asking /\ UNCHANGED <<today, watermark, promised>>
    BY <1>6 DEF FetchFeed, source, Asking
  <2>2. PICK l \in RunType : Goto(r, "detail", l) /\ l.until = run[r].until
    BY <1>6, FeedMoves DEF Continues
  <2>3. QED
    BY <1>g, <2>1, <2>2 DEF Steps
<1>7. ASSUME NEW r \in Runs, FetchDetails(r)
      PROVE  Ahead'
  <2>1. pc[r] \in Asking /\ UNCHANGED <<today, watermark, promised>>
    BY <1>7 DEF FetchDetails, source, history, Asking, Walking
  <2>2. PICK l \in RunType : Goto(r, "write", l) /\ l.until = run[r].until
    BY <1>7, DetailMoves DEF Continues
  <2>3. QED
    BY <1>g, <2>1, <2>2 DEF Steps
<1>8. ASSUME NEW r \in Runs, WriteDetails(r)
      PROVE  Ahead'
  <2>1. pc[r] \in Asking /\ UNCHANGED <<today, watermark, promised>>
    BY <1>8 DEF WriteDetails, source, Asking, Walking
  <2>2. PICK step \in {"idle", "save"}, l \in RunType :
           Goto(r, step, l) /\ (step = "save" => l.until = run[r].until)
    BY <1>8, WriteMoves
  <2>3. QED
    BY <1>g, <2>1, <2>2 DEF Steps
<1>9. ASSUME NEW r \in Runs, Save(r)
      PROVE  Ahead'
  <2> DEFINE w == WindowOf(run[r])
  <2>1. /\ pc[r] = "save" /\ watermark' = run[r].through /\ run[r].through \in Days(w)
        /\ today' = today /\ promised' = promised
    BY <1>9 DEF Save, InOrder, Fits, Walking, source, history
  <2>2. watermark' <= run[r].until /\ watermark' # None
    BY <2>1, AskingRange DEF None, Asking, Walking
  <2>3. PICK step \in {"idle", "feed"}, l \in RunType :
           Goto(r, step, l) /\ (step = "feed" => l.until = run[r].until)
    BY <1>9, SaveMoves
  <2>4. /\ pc'[r] = step /\ run'[r] = l
        /\ \A s \in Runs \ {r} : pc'[s] = pc[s] /\ run'[s] = run[s]
    BY <2>3, OneMoves DEF Steps
  <2>5. Abreast(pc[r], run[r])'
    BY <2>1, <2>2, <2>3, <2>4 DEF Ahead, Abreast
  <2>6. ASSUME NEW s \in Runs \ {r} PROVE Abreast(pc[s], run[s])'
    <3>1. pc[s] # "idle" => run[s].until = run[r].until
      BY <1>o, <2>1
    <3>2. QED
      BY <2>1, <2>2, <2>4, <3>1 DEF Ahead, Abreast
  <2>7. QED
    BY <2>5, <2>6 DEF Ahead
<1>10. ASSUME NEW r \in Runs, FeedFails(r) \/ Crash(r)
      PROVE  Ahead'
  <2>1. Goto(r, "idle", Blank) /\ UNCHANGED <<today, watermark, promised>>
    BY <1>10 DEF FeedFails, Crash, Stop, source, history
  <2>2. QED
    BY <1>g, <2>1, BlankFits DEF Steps
<1>11. CASE UNCHANGED vars
  BY <1>11 DEF vars, Ahead, Abreast, source, lane, history
<1>12. QED
  BY <1>1, <1>2, <1>3, <1>4, <1>5, <1>6, <1>7, <1>8, <1>9, <1>10, <1>11 DEF Next, Step

-----------------------------------------------------------------------------
(* The source still lists what the catalog lacks                            *)

LEMMA TraceableKept == TypeOK /\ InOrder /\ Traceable /\ [Next]_vars => Traceable'
<1> SUFFICES ASSUME TypeOK, InOrder, Traceable, [Next]_vars PROVE Traceable'
  OBVIOUS
<1>r. run \in [Runs -> RunType] /\ today \in Nat /\ stale \subseteq Changes
  BY DEF TypeOK, RunType, Calendar
\* A step of one run that leaves the source and the items in place.
<1>g. ASSUME NEW r \in Runs, NEW step \in Steps, NEW l \in RunType, Goto(r, step, l),
             \A p \in l.late : p \in run[r].late /\ l.until = run[r].until,
             l.held \subseteq catalog, l.refresh \subseteq catalog,
             UNCHANGED source, catalog' = catalog, stale' \subseteq stale \cup run[r].late
      PROVE  Traceable'
  <2>1. /\ run'[r] = l /\ \A s \in Runs \ {r} : run'[s] = run[s]
    BY <1>g, OneMoves
  <2>2. \A p : Listing(p)' <=> Listing(p)
    BY <1>g DEF Listing, source
  <2>3. Holding(run[r])
    BY DEF Traceable
  <2>4. ASSUME NEW s \in Runs PROVE Holding(run[s])'
    BY <1>g, <2>1, <2>2, <2>3 DEF Traceable, Holding
  <2>5. QED
    BY <1>g, <2>2, <2>3, <2>4 DEF Traceable, Holding
<1>h. \A r \in Runs : run[r].held \subseteq catalog /\ run[r].refresh \subseteq catalog
  BY DEF Traceable, Holding
<1>1. CASE Tick
  <2>1. today' = today + 1 /\ UNCHANGED <<items, lane>>
        /\ feed' = On(feed, Horizon(today', Retention) .. today')
    BY <1>1 DEF Tick
  <2>2. ASSUME NEW p \in Changes, Listing(p) PROVE Listing(p)'
    <3>1. p[1] \in Nat /\ p[1] <= today /\ Horizon(today', Retention) = Horizon(today, Retention) + 1
          /\ Horizon(today, Retention) \in Int
      BY <2>1, <2>2, <1>r, ChangesLaneAssumption DEF Listing, Changes, Calendar, Horizon
    <3>2. ASSUME p[1] >= Horizon(today', Retention) PROVE p \in feed'
      BY <2>1, <2>2, <3>1, <3>2, <1>r DEF Listing, On
    <3>3. QED
      BY <2>1, <2>2, <3>1, <3>2, <1>r DEF Listing, items
  <2>3. ASSUME NEW r \in Runs PROVE Holding(run[r])'
    <3>1. run[r].late \subseteq Changes
      BY <1>r DEF RunType
    <3>2. QED
      BY <2>1, <2>2, <3>1 DEF Traceable, Holding, items, lane
  <2>4. QED
    BY <2>1, <2>2, <2>3, <1>r DEF Traceable, items
<1>2. ASSUME NEW i \in Ids, Change(i)
      PROVE  Traceable'
  <2>1. today' = today /\ catalog' = catalog /\ feed' = feed \cup {<<today, i>>}
        /\ stale' = (IF i \in catalog THEN stale \cup {<<today, i>>} ELSE stale)
    BY <1>2 DEF Change
  <2>2. ASSUME NEW p, Listing(p) PROVE Listing(p)'
    BY <2>1, <2>2 DEF Listing
  <2>3. i \in catalog => Listing(<<today, i>>)'
    BY <2>1, <1>r DEF Listing
  <2>4. ASSUME NEW r \in Runs PROVE Holding(run[r])'
    <3>1. run[r] \in RunType /\ run'[r] = Missed(i, run[r])
      BY <1>2, <1>r DEF Change
    <3>2. /\ run'[r].until = run[r].until /\ run'[r].held = run[r].held
          /\ run'[r].refresh = run[r].refresh
          /\ run'[r].late = IF i \in run[r].held THEN run[r].late \cup {<<today, i>>} ELSE run[r].late
      BY <3>1 DEF Missed, RunType
    <3>3. Holding(run[r]) /\ run[r].until <= today
      BY DEF Traceable, InOrder, Fits
    <3>4. QED
      BY <2>1, <2>2, <2>3, <3>2, <3>3 DEF Holding
  <2>5. QED
    BY <2>1, <2>2, <2>3, <2>4 DEF Traceable
<1>3. ASSUME NEW i \in Ids, WriteElsewhere(i)
      PROVE  Traceable'
  BY <1>3 DEF WriteElsewhere, Traceable, Holding, Listing, source, lane
<1>4. ASSUME NEW r \in Runs, Start(r)
      PROVE  Traceable'
  <2>1. PICK l \in RunType : Goto(r, "plan", l) /\ l.late = {} /\ l.held = {} /\ l.refresh = {}
    BY <1>4, StartMoves
  <2>2. QED
    BY <1>4, <1>g, <2>1 DEF Start, items, Steps
<1>5. ASSUME NEW r \in Runs, Plan(r)
      PROVE  Traceable'
  <2>1. PICK step \in Steps, l \in RunType :
           /\ Goto(r, step, l) /\ l.held \subseteq run[r].held /\ l.refresh \subseteq run[r].refresh
           /\ \A p \in l.late : p \in run[r].late /\ l.until = run[r].until
    <3>1. CASE watermark <= run[r].until
      BY <1>5, <3>1, PlanMoves DEF Steps
    <3>2. CASE ~(watermark <= run[r].until)
      <4>1. watermark \in Int /\ run[r].until \in Int
        BY <1>r DEF RunType, TypeOK, Calendar, None
      <4>2. Goto(r, "idle", Blank)
        BY <1>5, <3>2, <4>1 DEF Plan, Stop
      <4>3. Blank.held = {} /\ Blank.refresh = {} /\ Blank.late = {}
        BY DEF Blank
      <4>4. QED
        BY <4>2, <4>3, BlankFits DEF Steps
    <3>3. QED
      BY <3>1, <3>2
  <2>2. QED
    BY <1>5, <1>g, <1>h, <2>1 DEF Plan, items
<1>6. ASSUME NEW r \in Runs, FetchFeed(r)
      PROVE  Traceable'
  <2>1. PICK l \in RunType :
           /\ Goto(r, "detail", l) /\ l.until = run[r].until /\ l.late = run[r].late
           /\ l.held = run[r].held /\ l.refresh \subseteq catalog
    BY <1>6, FeedMoves DEF Continues
  <2>2. QED
    BY <1>6, <1>g, <1>h, <2>1 DEF FetchFeed, items, Steps
<1>7. ASSUME NEW r \in Runs, FetchDetails(r)
      PROVE  Traceable'
  <2>1. PICK l \in RunType :
           /\ Goto(r, "write", l) /\ l.until = run[r].until /\ l.late = run[r].late
           /\ l.held \subseteq run[r].refresh /\ l.refresh = {} /\ stale' \subseteq stale
    BY <1>7, DetailMoves DEF Continues
  <2>2. QED
    BY <1>7, <1>g, <1>h, <2>1 DEF FetchDetails, Steps
<1>8. ASSUME NEW r \in Runs, WriteDetails(r)
      PROVE  Traceable'
  <2>1. PICK step \in {"idle", "save"}, l \in RunType :
           Goto(r, step, l) /\ l.late = {} /\ l.held = {} /\ l.refresh \subseteq run[r].refresh
    BY <1>8, WriteMoves
  <2>2. stale' \subseteq stale \cup run[r].late
    BY <1>8 DEF WriteDetails, Flush, Of
  <2>3. QED
    BY <1>8, <1>g, <1>h, <2>1, <2>2 DEF WriteDetails, Steps
<1>9. ASSUME NEW r \in Runs, Save(r)
      PROVE  Traceable'
  <2>1. PICK step \in {"idle", "feed"}, l \in RunType :
           /\ Goto(r, step, l) /\ l.held \subseteq run[r].held /\ l.refresh \subseteq run[r].refresh
           /\ \A p \in l.late : p \in run[r].late /\ l.until = run[r].until
    BY <1>9, SaveMoves
  <2>2. QED
    BY <1>9, <1>g, <1>h, <2>1 DEF Save, items, Steps
<1>10. ASSUME NEW r \in Runs, FeedFails(r) \/ Crash(r)
      PROVE  Traceable'
  <2>1. Goto(r, "idle", Blank) /\ UNCHANGED <<source, items>>
    BY <1>10 DEF FeedFails, Crash, Stop
  <2>2. Blank.held = {} /\ Blank.refresh = {} /\ Blank.late = {}
    BY DEF Blank
  <2>3. QED
    BY <1>g, <2>1, <2>2, BlankFits DEF items, Steps
<1>11. CASE UNCHANGED vars
  BY <1>11 DEF vars, Traceable, Holding, Listing, source, items, lane
<1>12. QED
  BY <1>1, <1>2, <1>3, <1>4, <1>5, <1>6, <1>7, <1>8, <1>9, <1>10, <1>11 DEF Next, Step

-----------------------------------------------------------------------------
(* What the runs have passed is accounted for                               *)

Before == TypeOK /\ InOrder /\ Ahead /\ Traceable /\ Progress

\* An account once given stands, so a step that adds no change before day d leaves what
\* lies before d accounted for.
LEMMA StillAccounted ==
    ASSUME TypeOK, TypeOK', promised' = promised,
           reported \subseteq reported', slipped \subseteq slipped', refused \subseteq refused',
           NEW d \in Int, AccountedBefore(d), \A p \in stale' : p \in stale \/ p[1] >= d
    PROVE  \A p \in stale' : promised' # None /\ promised' <= p[1] /\ p[1] < d => Accounted(p)'
<1> SUFFICES ASSUME NEW p \in stale', promised # None, promised <= p[1], p[1] < d
             PROVE  Accounted(p)'
  OBVIOUS
<1>1. p[1] \in Nat
  BY DEF TypeOK, Changes, Calendar
<1>2. p \in stale
  BY <1>1
<1>3. QED
  BY <1>2 DEF AccountedBefore, Accounted

\* The steps that only add changes of this day, or take changes away, disturb no other run.
LEMMA OthersStillDone ==
    ASSUME Before, TypeOK', promised' = promised \/ watermark = None,
           reported \subseteq reported', slipped \subseteq slipped', refused \subseteq refused',
           NEW s \in Runs, pc[s] \in Asking => promised' = promised,
           pc'[s] = pc[s], run'[s].next = run[s].next, run'[s].until = run[s].until,
           run'[s].through = run[s].through, run'[s].refresh = run[s].refresh,
           run'[s].held = run[s].held, run'[s].failed = run[s].failed,
           pc[s] \in Asking => \A p \in stale' : p \in stale \/ p[1] >= run[s].until
    PROVE  Done(pc[s], run[s])'
<1> SUFFICES ASSUME pc[s] \in Asking PROVE Done(pc[s], run[s])'
  BY DEF Done, Asking, Walking
<1>1. /\ run[s].next \in Nat /\ run[s].until \in Nat /\ run[s].next <= run[s].until
  BY AskingRange DEF Before
<1>2. \A p \in stale' : p[1] \in Nat
  BY DEF TypeOK, Changes, Calendar
<1>3. AccountedBefore(run[s].next)'
  <2>1. AccountedBefore(run[s].next) /\ TypeOK
    BY DEF Before, Progress, Done
  <2>2. \A p \in stale' : p \in stale \/ p[1] >= run[s].next
    BY <1>1, <1>2
  <2>3. run[s].next \in Int
    BY <1>1
  <2>4. \A p \in stale' : promised' # None /\ promised' <= p[1] /\ p[1] < run[s].next => Accounted(p)'
    BY <2>1, <2>2, <2>3, StillAccounted
  <2>5. QED
    BY <2>4 DEF AccountedBefore
<1>4. ASSUME pc[s] \in Walking, NEW p \in stale', p[1] \in run[s].next .. run[s].through,
             p[1] < run[s].until
      PROVE  Accounted(p)' \/ InHand(pc[s], run[s], p)'
  <2>1. p \in stale
    BY <1>1, <1>2, <1>4
  <2>2. Accounted(p) \/ InHand(pc[s], run[s], p)
    BY <1>4, <2>1 DEF Before, Progress, Done
  <2>3. QED
    BY <2>2 DEF Accounted, InHand
<1>5. QED
  BY <1>3, <1>4 DEF Done

LEMMA ProgressKept == Before /\ [Next]_vars => Progress'
<1> SUFFICES ASSUME Before, [Next]_vars PROVE Progress'
  OBVIOUS
<1>0. TypeOK /\ InOrder /\ Ahead /\ Traceable /\ Progress /\ TypeOK'
  BY TypesKept DEF Before
<1>r. /\ run \in [Runs -> RunType] /\ today \in Nat /\ stale \subseteq Changes
      /\ watermark \in {None} \cup Nat /\ watermark \in Int /\ watermark <= today
      /\ \A r \in Runs : run[r].until \in Nat /\ run[r].until <= today
      /\ \A p \in Changes : p[1] \in Nat
  BY <1>0 DEF TypeOK, RunType, Calendar, Changes, InOrder, Fits, None
\* What lies before the watermark, when the watermark stays.
<1>b. ASSUME promised' = promised, watermark' = watermark,
             reported \subseteq reported', slipped \subseteq slipped', refused \subseteq refused',
             \A p \in stale' : p \in stale \/ p[1] >= watermark
      PROVE  AccountedBefore(watermark)'
  <2>1. AccountedBefore(watermark)
    BY <1>0 DEF Progress
  <2>2. \A p \in stale' : promised' # None /\ promised' <= p[1] /\ p[1] < watermark => Accounted(p)'
    BY <1>0, <1>r, <1>b, <2>1, StillAccounted
  <2>3. QED
    BY <1>b, <2>2 DEF AccountedBefore
\* The other runs, when one moves.
<1>o. ASSUME NEW r \in Runs, NEW step \in Steps, NEW l \in RunType, Goto(r, step, l),
             promised' = promised,
             reported \subseteq reported', slipped \subseteq slipped', refused \subseteq refused',
             NEW s \in Runs \ {r}, pc[r] # "idle",
             \A p \in stale' : p \in stale \/ p[1] >= run[r].until
      PROVE  Done(pc[s], run[s])'
  <2>1. pc'[s] = pc[s] /\ run'[s] = run[s]
    BY <1>0, <1>o, OneMoves
  <2>2. pc[s] # "idle" => run[s].until = run[r].until
    BY <1>0, <1>o, ChangesLaneAssumption DEF Sequential, Ahead, Abreast
  <2>3. pc[s] \in Asking => \A p \in stale' : p \in stale \/ p[1] >= run[s].until
    BY <1>o, <2>2 DEF Asking, Walking
  <2>4. QED
    BY <1>0, <1>o, <2>1, <2>3, OthersStillDone
\* A run that stops or starts.
<1>e. ASSUME NEW r \in Runs, NEW step \in {"idle", "plan"}, NEW l \in RunType, Goto(r, step, l),
             UNCHANGED <<items, watermark, history>>
      PROVE  Progress'
  <2>1. /\ pc'[r] = step /\ \A s \in Runs \ {r} : pc'[s] = pc[s] /\ run'[s] = run[s]
    BY <1>0, <1>e, OneMoves DEF Steps
  <2>2. AccountedBefore(watermark)'
    BY <1>b, <1>e DEF items, history
  <2>3. ASSUME NEW s \in Runs PROVE Done(pc[s], run[s])'
    <3>1. CASE s = r
      BY <2>1, <3>1 DEF Done, Asking, Walking
    <3>2. CASE s # r
      BY <1>0, <1>e, <2>1, <3>2, OthersStillDone DEF items, history
    <3>3. QED
      BY <3>1, <3>2
  <2>4. QED
    BY <2>2, <2>3 DEF Progress
<1>1. CASE Tick
  BY <1>0, <1>1 DEF Tick, Progress, Done, AccountedBefore, Accounted, InHand, items, lane, history
<1>2. ASSUME NEW i \in Ids, Change(i)
      PROVE  Progress'
  <2>1. /\ \A p \in stale' : p \in stale \/ p[1] = today
        /\ watermark' = watermark /\ UNCHANGED history /\ pc' = pc
    BY <1>2 DEF Change
  <2>2. AccountedBefore(watermark)'
    BY <1>b, <1>r, <2>1 DEF history
  <2>3. ASSUME NEW s \in Runs PROVE Done(pc[s], run[s])'
    <3>1. run[s] \in RunType /\ run'[s] = Missed(i, run[s])
      BY <1>2, <1>r DEF Change
    <3>2. /\ run'[s].until = run[s].until /\ run'[s].next = run[s].next
          /\ run'[s].through = run[s].through /\ run'[s].refresh = run[s].refresh
          /\ run'[s].held = run[s].held /\ run'[s].failed = run[s].failed
      BY <3>1 DEF Missed, RunType
    <3>3. \A p \in stale' : p \in stale \/ p[1] >= run[s].until
      BY <1>r, <2>1
    <3>4. QED
      BY <1>0, <2>1, <3>2, <3>3, OthersStillDone DEF history
  <2>4. QED
    BY <2>2, <2>3 DEF Progress
<1>3. ASSUME NEW i \in Ids, WriteElsewhere(i)
      PROVE  Progress'
  BY <1>0, <1>3 DEF WriteElsewhere, Progress, Done, AccountedBefore, Accounted, InHand, lane, history
<1>4. ASSUME NEW r \in Runs, Start(r)
      PROVE  Progress'
  <2>1. PICK l \in RunType : Goto(r, "plan", l)
    BY <1>0, <1>4, StartMoves
  <2>2. QED
    BY <1>4, <1>e, <2>1 DEF Start
<1>5. ASSUME NEW r \in Runs, Plan(r)
      PROVE  Progress'
  <2> DEFINE until == run[r].until
             start == PlanStart(watermark, until, Retention)
  <2>1. pc[r] = "plan" /\ Retention - 1 <= until /\ watermark <= until
    BY <1>0, <1>5 DEF Plan, InOrder, Fits, Ahead, Abreast
  <2>2. /\ start \in Nat /\ start <= until /\ watermark <= start
        /\ watermark >= Horizon(until, Retention) => start = watermark
        /\ watermark # None /\ watermark < Horizon(until, Retention)
              => start = Horizon(until, Retention)
    BY <1>r, <2>1, PlanStartInRange, ChangesLaneAssumption DEF Positive
  <2>3. /\ stale' = stale /\ watermark' = watermark /\ refused' = refused
        /\ reported' = reported \cup Uncovered(watermark, until, Retention)
        /\ slipped' = slipped \cup {e \in {watermark} \ {None} : e < Horizon(until, Retention)}
        /\ promised' = IF watermark = None THEN start ELSE promised
    BY <1>5 DEF Plan, items
  <2>4. PICK l \in RunType : Goto(r, "feed", l) /\ l.until = until /\ l.next = start
    BY <1>0, <1>5, <2>1, PlanMoves
  <2>5. /\ pc'[r] = "feed" /\ run'[r] = l
        /\ \A s \in Runs \ {r} : pc'[s] = pc[s] /\ run'[s] = run[s]
    BY <1>0, <2>4, OneMoves DEF Steps
  <2>6. ASSUME NEW p \in stale, promised' # None, promised' <= p[1], p[1] < start
        PROVE  Accounted(p)'
    <3>1. p[1] \in Nat
      BY <1>r
    <3>2. watermark \in Nat /\ promised' = promised
      BY <1>r, <2>2, <2>3, <2>6, <3>1
    <3>3. CASE p[1] < watermark
      <4>1. promised # None
        BY <2>6, <3>2
      <4>2. QED
        BY <1>0, <2>3, <2>6, <3>2, <3>3, <4>1 DEF Progress, AccountedBefore, Accounted
    <3>4. CASE p[1] = watermark
      BY <1>r, <2>2, <2>3, <2>6, <3>2, <3>4, ChangesLaneAssumption DEF Accounted, Horizon, None
    <3>5. CASE watermark < p[1]
      <4>1. p[1] \in Uncovered(watermark, until, Retention)
        BY <1>r, <2>1, <2>6, <3>1, <3>2, <3>5, GapIsReported, ChangesLaneAssumption DEF Positive
      <4>2. QED
        BY <2>3, <4>1 DEF Accounted
    <3>6. QED
      BY <3>1, <3>2, <3>3, <3>4, <3>5
  <2>7. Done(pc[r], run[r])'
    BY <2>3, <2>4, <2>5, <2>6 DEF Done, AccountedBefore, Walking
  <2>8. AccountedBefore(watermark)'
    BY <1>r, <2>2, <2>3, <2>6 DEF AccountedBefore, None
  <2>9. ASSUME NEW s \in Runs \ {r} PROVE Done(pc[s], run[s])'
    \* A run that planned before the watermark existed made the same promise.
    <3>1. ASSUME pc[s] \in Asking, watermark = None PROVE promised' = promised
      <4>1. ~Overnight
        BY <2>9, ChangesLaneAssumption DEF Sequential
      <4>2. run[s].until = until
        BY <1>0, <2>1, <3>1, <4>1 DEF Ahead, Abreast, Asking, Walking
      <4>3. promised = Horizon(until, Retention)
        BY <1>0, <3>1, <4>2 DEF Ahead, Abreast
      <4>4. QED
        BY <2>3, <3>1, <4>3 DEF PlanStart
    <3>2. pc[s] \in Asking => promised' = promised
      BY <2>3, <3>1
    <3>3. promised' = promised \/ watermark = None
      BY <2>3
    <3>4. QED
      BY <1>0, <2>3, <2>5, <3>2, <3>3, OthersStillDone
  <2>10. QED
    BY <2>7, <2>8, <2>9 DEF Progress
<1>6. ASSUME NEW r \in Runs, FetchFeed(r)
      PROVE  Progress'
  <2> DEFINE w == WindowOf(run[r])
  <2>1. /\ pc[r] = "feed" /\ UNCHANGED <<items, watermark, reported, refused, promised>>
        /\ slipped' = slipped \cup {e \in Days(w) : e < Horizon(today, Retention)}
    BY <1>6 DEF FetchFeed
  <2>2. PICK served \in SUBSET On(feed, Days(w)), d \in w.start - 1 .. w.end, l \in RunType :
           /\ Serves(w, served) /\ WholeThrough(w, Load(w), Cap, d)
           /\ Goto(r, "detail", l) /\ Continues(l, run[r])
           /\ l.through = (IF d < w.start THEN None ELSE d)
           /\ l.refresh = IdsOf(served) \cap catalog
    BY <1>0, <1>6, FeedMoves
  <2>3. pc'[r] = "detail" /\ run'[r] = l
    BY <1>0, <2>2, OneMoves DEF Steps
  <2>4. AccountedBefore(watermark)'
    BY <1>b, <2>1 DEF items
  <2>5. AccountedBefore(run[r].next)'
    BY <1>0, <2>1, <2>2, <2>3 DEF Progress, Done, Asking, AccountedBefore, Accounted, Continues, items
  <2>6. ASSUME NEW p \in stale, p[1] \in l.next .. l.through, ~Accounted(p)'
        PROVE  p[2] \in l.refresh
    <3>1. p \in Changes /\ p[1] \in Nat /\ Listing(p)
      BY <1>0, <1>r DEF Traceable
    <3>2. /\ w.start = run[r].next /\ w.end \in Nat /\ run[r].next <= w.end
          /\ Days(w) = run[r].next .. w.end /\ run[r].next \in Nat
      BY <1>0, <2>1, AskingRange DEF Asking
    <3>3. p[1] \in Days(w) /\ p[1] \in w.start .. d
      <4> HIDE DEF w
      <4>1. QED
        BY <2>2, <2>6, <3>1, <3>2 DEF None, Continues
    <3>4. p \in feed
      <4>1. ~(p[1] < Horizon(today, Retention))
        BY <2>1, <2>6, <3>3 DEF Accounted
      <4>2. QED
        BY <1>r, <3>1, <4>1, ChangesLaneAssumption DEF Listing, Horizon
    <3>5. Cardinality(Listed(p[1])) =< Cap
      BY <2>2, <3>3 DEF WholeThrough, Load
    <3>6. On(served, {p[1]}) = Listed(p[1])
      <4>1. Cardinality(Listed(p[1])) \in Nat
        BY <1>0, ListedIsFinite DEF TypeOK
      <4>2. QED
        BY <2>2, <3>3, <3>5, <4>1, ChangesLaneAssumption DEF Serves
    <3>7. p \in served
      BY <3>4, <3>6 DEF Listed, On
    <3>8. QED
      BY <2>2, <3>1, <3>7 DEF IdsOf, Listing
  <2>7. Done(pc[r], run[r])'
    BY <2>1, <2>3, <2>5, <2>6 DEF Done, InHand, items
  <2>8. ASSUME NEW s \in Runs \ {r} PROVE Done(pc[s], run[s])'
    BY <1>o, <2>1, <2>2, <2>8 DEF items, Steps
  <2>9. QED
    BY <2>4, <2>7, <2>8 DEF Progress
<1>7. ASSUME NEW r \in Runs, FetchDetails(r)
      PROVE  Progress'
  <2>1. PICK failing \in SUBSET run[r].refresh, gone \in SUBSET run[r].refresh, l \in RunType :
           /\ Goto(r, "write", l) /\ Continues(l, run[r]) /\ l.through = run[r].through
           /\ l.held = run[r].refresh \ (failing \cup gone)
           /\ l.failed = (failing # {}) /\ stale' = stale \ Of(stale, gone)
    BY <1>0, <1>7, DetailMoves
  <2>2. pc[r] = "detail" /\ UNCHANGED <<watermark, history>>
    BY <1>7 DEF FetchDetails
  <2>3. pc'[r] = "write" /\ run'[r] = l
    BY <1>0, <2>1, OneMoves DEF Steps
  <2>4. AccountedBefore(watermark)'
    BY <1>b, <2>1, <2>2 DEF history
  <2>5. AccountedBefore(run[r].next)'
    BY <1>0, <2>1, <2>2, <2>3
       DEF Progress, Done, Asking, Walking, AccountedBefore, Accounted, Continues, history
  <2>6. ASSUME NEW p \in stale', p[1] \in l.next .. l.through, p[1] < l.until
        PROVE  Accounted(p)' \/ InHand("write", l, p)
    <3>1. p \in stale /\ p[2] \notin gone
      BY <2>1, <2>6 DEF Of
    <3>2. Accounted(p) \/ p[2] \in run[r].refresh
      BY <1>0, <2>1, <2>2, <2>6, <3>1 DEF Progress, Done, InHand, Walking, Continues
    <3>3. QED
      BY <2>1, <2>2, <3>1, <3>2 DEF Accounted, InHand, history
  <2>7. Done(pc[r], run[r])'
    BY <2>3, <2>5, <2>6 DEF Done, InHand
  <2>8. ASSUME NEW s \in Runs \ {r} PROVE Done(pc[s], run[s])'
    BY <1>o, <2>1, <2>2, <2>8 DEF history, Steps
  <2>9. QED
    BY <2>4, <2>7, <2>8 DEF Progress
<1>8. ASSUME NEW r \in Runs, WriteDetails(r)
      PROVE  Progress'
  <2>1. PICK rejected \in SUBSET run[r].held :
           /\ stale' = (stale \ Of(stale, run[r].held \ rejected)) \cup Of(run[r].late, run[r].held \ rejected)
           /\ refused' = refused \cup Of(stale, rejected)
    BY <1>8 DEF WriteDetails, Flush
  <2>2. pc[r] = "write" /\ UNCHANGED <<watermark, reported, slipped, promised>>
    BY <1>8 DEF WriteDetails
  <2>3. /\ \A p \in stale' : p \in stale \/ p[1] >= run[r].until
        /\ \A p \in stale' : p \in stale \/ p[1] >= watermark
    <3>1. ASSUME NEW p \in run[r].late
          PROVE  p[1] >= run[r].until /\ p[1] >= watermark
      <4>1. p[1] \in Nat /\ run[r].until <= p[1]
        BY <1>0, <1>r DEF Traceable, Holding, RunType
      <4>2. watermark <= run[r].until
        BY <1>0, <2>2 DEF Ahead, Abreast
      <4>3. QED
        BY <1>r, <4>1, <4>2
    <3>2. QED
      BY <2>1, <3>1 DEF Of
  <2>4. AccountedBefore(watermark)'
    BY <1>b, <2>1, <2>2, <2>3
  <2>5. PICK step \in {"idle", "save"}, l \in RunType :
           /\ Goto(r, step, l)
           /\ step = "save" => /\ ~run[r].failed
                               /\ l.until = run[r].until /\ l.next = run[r].next
                               /\ l.through = run[r].through
    BY <1>0, <1>8, WriteMoves
  <2>6. pc'[r] = step /\ run'[r] = l
    BY <1>0, <2>5, OneMoves DEF Steps
  <2>7. ASSUME step = "save" PROVE AccountedBefore(run[r].next)'
    <3>1. /\ run[r].next \in Nat /\ run[r].next <= run[r].until /\ run[r].next \in Int
      BY <1>0, <2>2, AskingRange DEF Asking, Walking
    <3>2. AccountedBefore(run[r].next)
      BY <1>0, <2>2 DEF Progress, Done, Asking, Walking
    <3>3. \A p \in stale' : p \in stale \/ p[1] >= run[r].next
      <4>1. \A p \in stale' : p[1] \in Nat
        BY <1>0 DEF TypeOK, Changes, Calendar
      <4>2. QED
        BY <1>r, <2>3, <3>1, <4>1
    <3>4. \A p \in stale' : promised' # None /\ promised' <= p[1] /\ p[1] < run[r].next => Accounted(p)'
      BY <1>0, <2>1, <2>2, <3>1, <3>2, <3>3, StillAccounted
    <3>5. QED
      BY <2>5, <2>6, <2>7, <3>4 DEF AccountedBefore
  <2>8. ASSUME step = "save", NEW p \in stale', p[1] \in run[r].next .. run[r].through,
               p[1] < run[r].until
        PROVE  Accounted(p)'
    <3>1. p \in stale /\ p[1] \in Nat
      BY <1>r, <2>3, <2>8
    <3>2. CASE Accounted(p)
      BY <2>1, <2>2, <3>2 DEF Accounted
    <3>3. CASE ~Accounted(p)
      <4>1. p[2] \in run[r].held
        BY <1>0, <2>2, <2>5, <2>8, <3>1, <3>3 DEF Progress, Done, InHand, Walking
      <4>2. p \notin run[r].late
        BY <1>0, <1>r, <2>8, <3>1 DEF Traceable, Holding
      <4>3. p[2] \in rejected
        BY <2>1, <2>8, <4>1, <4>2 DEF Of
      <4>4. QED
        BY <2>1, <3>1, <4>3 DEF Of, Accounted
    <3>4. QED
      BY <3>2, <3>3
  <2>9. Done(pc[r], run[r])'
    BY <2>5, <2>6, <2>7, <2>8 DEF Done, Asking, Walking
  <2>10. ASSUME NEW s \in Runs \ {r} PROVE Done(pc[s], run[s])'
    BY <1>o, <2>1, <2>2, <2>3, <2>5, <2>10 DEF Steps
  <2>11. QED
    BY <2>4, <2>9, <2>10 DEF Progress
<1>9. ASSUME NEW r \in Runs, Save(r)
      PROVE  Progress'
  <2> DEFINE w == WindowOf(run[r])
  <2>1. pc[r] = "save" /\ watermark' = run[r].through /\ UNCHANGED <<items, history>>
    BY <1>9 DEF Save
  <2>2. /\ run[r].through \in run[r].next .. w.end /\ w.end <= run[r].until
        /\ run[r].next \in Nat /\ w.end \in Nat /\ run[r].through \in Nat
    BY <1>0, <2>1, AskingRange DEF InOrder, Fits, Asking, Walking
  \* Behind the first day not requested every change is accounted for, and so is it
  \* within the part of the window that was covered, save on the last day of the plan.
  <2>3. ASSUME NEW p \in stale, promised # None, promised <= p[1],
               p[1] <= run[r].through, p[1] < run[r].until
        PROVE  Accounted(p)
    <3>1. p[1] \in Nat
      BY <1>r
    <3>2. CASE p[1] < run[r].next
      BY <1>0, <2>1, <2>3, <3>2 DEF Progress, Done, AccountedBefore, Asking, Walking
    <3>3. CASE p[1] \in run[r].next .. run[r].through
      BY <1>0, <2>1, <2>3, <3>3 DEF Progress, Done, InHand, Walking
    <3>4. QED
      BY <1>r, <2>2, <2>3, <3>1, <3>2, <3>3
  <2>4. AccountedBefore(watermark)'
    <3>1. ASSUME NEW p \in stale, promised # None, promised <= p[1], p[1] < run[r].through
          PROVE  Accounted(p)
      BY <1>r, <2>2, <2>3, <3>1
    <3>2. QED
      BY <2>1, <3>1 DEF AccountedBefore, Accounted, items, history
  <2>5. PICK step \in {"idle", "feed"}, l \in RunType :
           /\ Goto(r, step, l)
           /\ step = "feed" => /\ l.next = w.end + 1 /\ run[r].through = w.end
                               /\ w.end < run[r].until
    BY <1>0, <1>9, SaveMoves
  <2>6. pc'[r] = step /\ run'[r] = l
    BY <1>0, <2>5, OneMoves DEF Steps
  <2>7. ASSUME step = "feed" PROVE AccountedBefore(run[r].next)'
    <3>1. ASSUME NEW p \in stale, promised # None, promised <= p[1], p[1] < w.end + 1
          PROVE  Accounted(p)
      <4>1. p[1] \in Nat
        BY <1>r
      <4>2. QED
        BY <1>r, <2>2, <2>3, <2>5, <2>7, <3>1, <4>1
    <3>2. QED
      BY <2>1, <2>5, <2>6, <2>7, <3>1 DEF AccountedBefore, Accounted, items, history
  <2>8. Done(pc[r], run[r])'
    BY <2>5, <2>6, <2>7 DEF Done, Asking, Walking
  <2>9. ASSUME NEW s \in Runs \ {r} PROVE Done(pc[s], run[s])'
    BY <1>o, <2>1, <2>5, <2>9 DEF items, history, Steps
  <2>10. QED
    BY <2>4, <2>8, <2>9 DEF Progress
<1>10. ASSUME NEW r \in Runs, FeedFails(r) \/ Crash(r)
      PROVE  Progress'
  <2>1. Goto(r, "idle", Blank) /\ UNCHANGED <<items, watermark, history>>
    BY <1>10 DEF FeedFails, Crash, Stop
  <2>2. QED
    BY <1>e, <2>1, BlankFits
<1>11. CASE UNCHANGED vars
  BY <1>0, <1>11 DEF vars, Progress, Done, AccountedBefore, Accounted, InHand, items, lane, history
<1>12. QED
  BY <1>1, <1>2, <1>3, <1>4, <1>5, <1>6, <1>7, <1>8, <1>9, <1>10, <1>11 DEF Next, Step

-----------------------------------------------------------------------------
(* The theorems                                                             *)

LEMMA KeptAlways == Spec => []Before
<1>1. Init => Before
  <2> SUFFICES ASSUME Init PROVE Before
    OBVIOUS
  <2>1. TypeOK /\ InOrder
    BY TypesInit
  <2>2. Blank.late = {} /\ Blank.held = {} /\ Blank.refresh = {}
    BY DEF Blank
  <2>3. Ahead /\ Traceable /\ Progress
    BY <2>2 DEF Init, Ahead, Abreast, Traceable, Holding, Progress, Done, AccountedBefore,
                Asking, Walking
  <2>4. QED
    BY <2>1, <2>3 DEF Before
<1>2. Before /\ [Next]_vars => Before'
  BY TypesKept, AheadKept, TraceableKept, ProgressKept DEF Before
<1>3. QED
  BY <1>1, <1>2, PTL DEF Spec

(***************************************************************************)
(* Every variable keeps its type: no watermark, plan or window leaves the  *)
(* calendar.                                                               *)
(***************************************************************************)
THEOREM TypeCorrect == Spec => []TypeOK
<1>1. Before => TypeOK
  BY DEF Before
<1>2. QED
  BY <1>1, KeptAlways, PTL

(***************************************************************************)
(* A change of an item the catalog holds is never left behind unless its   *)
(* day was reported, its row was refused, or its day fell out of the       *)
(* source's memory on the two occasions slipped records; whatever fails,   *)
(* crashes, saturates or overlaps.                                         *)
(***************************************************************************)
THEOREM LossesAccounted == Spec => []EveryLossIsAccounted
<1>1. Before => EveryLossIsAccounted
  <2> SUFFICES ASSUME Before, NEW p \in LeftBehind PROVE Accounted(p)
    BY DEF EveryLossIsAccounted, Accounted
  <2>1. p \in stale /\ promised # None /\ p[1] \in promised .. watermark - 1
    BY DEF LeftBehind
  <2>2. watermark \in Int /\ promised \in Int
    BY ChangesLaneAssumption DEF Before, TypeOK, Calendar, None
  <2>3. promised <= p[1] /\ p[1] < watermark
    BY <2>1, <2>2
  <2>4. QED
    BY <2>1, <2>3 DEF Before, Progress, AccountedBefore
<1>2. QED
  BY <1>1, KeptAlways, PTL

\* A run that has the lane to itself asks from the watermark on.
Behind == \A r \in Runs : pc[r] \in Asking => watermark <= run[r].next

LEMMA BehindKept ==
    ASSUME \A r, s \in Runs : r = s
    PROVE  Before /\ Behind /\ [Next]_vars => Behind'
<1> SUFFICES ASSUME Before, Behind, [Next]_vars PROVE Behind'
  OBVIOUS
<1>0. TypeOK /\ InOrder
  BY DEF Before
<1>s. ASSUME NEW r \in Runs, NEW step \in Steps, NEW l \in RunType, Goto(r, step, l),
             step \in Asking => watermark' <= l.next
      PROVE  Behind'
  <2>1. pc'[r] = step /\ run'[r] = l
    BY <1>0, <1>s, OneMoves
  <2>2. QED
    BY <1>s, <2>1 DEF Behind
<1>w. ASSUME NEW r \in Runs, NEW step \in Steps, NEW l \in RunType, Goto(r, step, l),
             pc[r] \in Asking, Continues(l, run[r]), watermark' = watermark
      PROVE  Behind'
  BY <1>s, <1>w DEF Behind, Continues
<1>e. ASSUME NEW r \in Runs, Stop(r)
      PROVE  Behind'
  BY <1>e, <1>s, BlankFits DEF Stop, Steps, Asking, Walking
<1>1. CASE Tick \/ \E i \in Ids : WriteElsewhere(i)
  BY <1>1 DEF Tick, WriteElsewhere, Behind, lane
<1>2. ASSUME NEW i \in Ids, Change(i)
      PROVE  Behind'
  <2>1. \A r \in Runs : run[r] \in RunType /\ run'[r] = Missed(i, run[r])
    BY <1>0, <1>2 DEF Change, TypeOK, RunType
  <2>2. \A r \in Runs : run'[r].next = run[r].next
    BY <2>1 DEF Missed, RunType
  <2>3. QED
    BY <1>2, <2>2 DEF Change, Behind
<1>3. ASSUME NEW r \in Runs, Start(r)
      PROVE  Behind'
  BY <1>0, <1>3, <1>s, StartMoves DEF Steps, Asking, Walking
<1>4. ASSUME NEW r \in Runs, Plan(r)
      PROVE  Behind'
  <2>1. CASE watermark > run[r].until
    BY <1>4, <1>e, <2>1 DEF Plan
  <2>2. CASE watermark <= run[r].until
    <3>1. PICK l \in RunType :
             /\ Goto(r, "feed", l)
             /\ l.next = PlanStart(watermark, run[r].until, Retention)
      BY <1>0, <1>4, <2>2, PlanMoves
    <3>2. /\ run[r].until \in Nat /\ Retention - 1 <= run[r].until
          /\ watermark \in {None} \cup Nat
      BY <1>0, <1>4 DEF TypeOK, RunType, Calendar, InOrder, Fits, Plan
    <3>3. watermark <= PlanStart(watermark, run[r].until, Retention)
      BY <2>2, <3>2, ChangesLaneAssumption DEF PlanStart, Later, Horizon, None
    <3>4. watermark' = watermark
      BY <1>4 DEF Plan
    <3>5. QED
      BY <1>s, <3>1, <3>3, <3>4 DEF Steps
  <2>3. QED
    BY <1>0, <2>1, <2>2 DEF TypeOK, RunType, Calendar, None
<1>5. ASSUME NEW r \in Runs, FetchFeed(r)
      PROVE  Behind'
  BY <1>0, <1>5, <1>w, FeedMoves DEF FetchFeed, Steps, Asking
<1>6. ASSUME NEW r \in Runs, FetchDetails(r)
      PROVE  Behind'
  BY <1>0, <1>6, <1>w, DetailMoves DEF FetchDetails, Steps, Asking, Walking
<1>7. ASSUME NEW r \in Runs, WriteDetails(r)
      PROVE  Behind'
  <2>1. pc[r] = "write" /\ watermark' = watermark
    BY <1>7 DEF WriteDetails
  <2>2. PICK step \in {"idle", "save"}, l \in RunType :
           Goto(r, step, l) /\ (step = "save" => l.next = run[r].next)
    BY <1>0, <1>7, WriteMoves
  <2>3. step \in Asking => watermark' <= l.next
    BY <2>1, <2>2 DEF Behind, Asking, Walking
  <2>4. QED
    BY <1>s, <2>2, <2>3 DEF Steps
<1>8. ASSUME NEW r \in Runs, Save(r)
      PROVE  Behind'
  <2>1. PICK step \in {"idle", "feed"}, l \in RunType :
           /\ Goto(r, step, l)
           /\ step = "feed" => /\ l.next = WindowOf(run[r]).end + 1
                               /\ run[r].through = WindowOf(run[r]).end
    BY <1>0, <1>8, SaveMoves
  <2>2. watermark' = run[r].through /\ WindowOf(run[r]).end \in Nat
    BY <1>0, <1>8, AskingRange DEF Save, Asking, Walking
  <2>3. step \in Asking => watermark' <= l.next
    BY <2>1, <2>2 DEF Asking, Walking
  <2>4. QED
    BY <1>s, <2>1, <2>3 DEF Steps
<1>9. ASSUME NEW r \in Runs, FeedFails(r) \/ Crash(r)
      PROVE  Behind'
  BY <1>9, <1>e DEF FeedFails, Crash
<1>10. CASE UNCHANGED vars
  BY <1>10 DEF vars, lane, Behind
<1>11. QED
  BY <1>1, <1>2, <1>3, <1>4, <1>5, <1>6, <1>7, <1>8, <1>9, <1>10 DEF Next, Step

(***************************************************************************)
(* While runs do not overlap, none takes back coverage that an earlier one *)
(* recorded.                                                               *)
(***************************************************************************)
THEOREM CoverageOnlyGrows ==
    ASSUME \A r, s \in Runs : r = s
    PROVE  Spec => WatermarkOnlyAdvances
<1>1. Init => Behind
  BY DEF Init, Behind, Asking, Walking
<1>2. Before /\ Behind /\ [Next]_vars => Behind'
  BY BehindKept
<1>3. Before /\ Behind /\ [Next]_vars => [watermark' >= watermark]_watermark
  <2> SUFFICES ASSUME Before, Behind, Next, watermark' # watermark
               PROVE  watermark' >= watermark
    BY DEF vars
  <2>1. PICK r \in Runs : Save(r)
    BY DEF Next, Step, Tick, Change, WriteElsewhere, Start, Plan, FetchFeed, FeedFails,
           FetchDetails, WriteDetails, Crash
  <2>2. /\ TypeOK /\ InOrder /\ watermark <= run[r].next
        /\ pc[r] = "save" /\ watermark' = run[r].through
    BY <2>1 DEF Before, Behind, Save, Asking, Walking
  <2>3. run[r].through \in run[r].next .. WindowOf(run[r]).end
    BY <2>2, AskingRange DEF InOrder, Fits, Asking, Walking
  <2>4. run[r].next \in Nat /\ WindowOf(run[r]).end \in Nat /\ watermark \in {None} \cup Nat
    BY <2>2, AskingRange DEF Asking, Walking, TypeOK, Calendar
  <2>5. QED
    BY <2>2, <2>3, <2>4 DEF None
<1>4. QED
  BY <1>1, <1>2, <1>3, KeptAlways, PTL DEF Spec, WatermarkOnlyAdvances
=============================================================================
