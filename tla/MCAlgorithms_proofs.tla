------------------------ MODULE MCAlgorithms_proofs ------------------------
(***************************************************************************)
(* Proofs about the parts of the code that only compute.  Each says more   *)
(* than the run asks: the lemmas hold of any input, not of a bounded set.  *)
(***************************************************************************)
EXTENDS MCAlgorithms, FiniteSetTheorems, WellFoundedInduction, TLAPS

\* A set of naturals has a least one.
LEMMA LeastNatural ==
    ASSUME NEW T \in SUBSET Nat, T # {}
    PROVE  \E x \in T : \A y \in T : x =< y
<1> DEFINE below(x) == 0 .. (x - 1)
           all == {below(x) : x \in T}
           R == StrictSubsetOrdering(Nat)
<1>1. IsWellFoundedOn(R, FiniteSubsetsOf(Nat))
  BY FS_StrictSubsetOrderingWellFounded
<1>2. all \subseteq FiniteSubsetsOf(Nat) /\ all # {}
  <2>1. ASSUME NEW x \in T PROVE below(x) \in SUBSET Nat /\ IsFiniteSet(below(x))
    <3>1. 0 \in Int /\ x - 1 \in Int
      OBVIOUS
    <3>2. QED
      BY <3>1, FS_Interval
  <2>2. QED
    BY <2>1 DEF FiniteSubsetsOf
<1>3. PICK few \in all : \A s \in all : ~(<<s, few>> \in R)
  <2> HIDE DEF R, all
  <2>1. QED
    BY <1>1, <1>2, WFMin
<1>4. PICK x \in T : few = below(x)
  BY <1>3
<1>5. ASSUME NEW y \in T, y < x PROVE FALSE
  <2>1. below(y) \in SUBSET Nat /\ below(x) \in SUBSET Nat /\ below(y) \subseteq below(x)
    BY <1>5
  <2>2. y \in below(x) /\ y \notin below(y)
    BY <1>5
  <2>3. <<below(y), below(x)>> \in R
    BY <2>1, <2>2 DEF StrictSubsetOrdering
  <2>4. QED
    BY <1>3, <1>4, <2>3
<1>6. QED
  BY <1>5

-----------------------------------------------------------------------------
(* Trending. *)

\* What users did to items, each to each, with times that are naturals.
Deed == [rated : Nat, event : Nat, edited : Nat, hidden : BOOLEAN, completed : Nat, moved : Nat,
         status : {"none", "want", "in_progress", "completed", "dropped"}]
IsLedger(ledger) == \E U, I : ledger \in [U \X I -> Deed]

\* The ledger as if the banned had done nothing.
Without(ledger, banned) == [k \in DOMAIN ledger |-> IF k[1] \in banned THEN Never ELSE ledger[k]]

LEMMA BannedLeaveNoGesture ==
    ASSUME NEW ledger, NEW banned, NEW since \in Nat \ {0}
    PROVE  Discovery!Gestures(ledger, banned, since) =
             Discovery!Gestures(Without(ledger, banned), {}, since)
<1> DEFINE less == Without(ledger, banned)
           on == {k \in DOMAIN ledger : k[1] \notin banned}
<1>1. /\ DOMAIN less = DOMAIN ledger
      /\ \A k \in on : less[k] = ledger[k]
      /\ \A k \in DOMAIN ledger \ on : less[k] = Never
  BY DEF Without
<1>2. ~(0 >= since) /\ ~(0 > 0)
  OBVIOUS
<1>3. /\ Never.event = 0 /\ Never.completed = 0 /\ Never.status = "none" /\ Never.rated = 0
  BY DEF Never
<1> HIDE DEF less
<1>4. {j \in DOMAIN ledger : ledger[j].event >= since /\ ~ledger[j].hidden /\ j[1] \notin banned}
        = {j \in DOMAIN less : less[j].event >= since /\ ~less[j].hidden /\ j[1] \notin {}}
  BY <1>1, <1>2, <1>3
<1>5. {j \in DOMAIN ledger : ledger[j].completed >= since /\ j[1] \notin banned}
        = {j \in DOMAIN less : less[j].completed >= since /\ j[1] \notin {}}
  BY <1>1, <1>2, <1>3
<1>6. {j \in DOMAIN ledger : /\ ledger[j].status \in {"want", "in_progress", "dropped"}
                             /\ ledger[j].moved >= since
                             /\ ledger[j].completed < since
                             /\ j[1] \notin banned}
        = {j \in DOMAIN less : /\ less[j].status \in {"want", "in_progress", "dropped"}
                               /\ less[j].moved >= since
                               /\ less[j].completed < since
                               /\ j[1] \notin {}}
  BY <1>1, <1>3
<1>7. {j \in DOMAIN ledger : /\ ledger[j].rated > 0 /\ ~ledger[j].hidden
                             /\ ledger[j].edited >= since
                             /\ ledger[j].edited > ledger[j].rated /\ ledger[j].edited > ledger[j].event
                             /\ j[1] \notin banned}
        = {j \in DOMAIN less : /\ less[j].rated > 0 /\ ~less[j].hidden
                               /\ less[j].edited >= since
                               /\ less[j].edited > less[j].rated /\ less[j].edited > less[j].event
                               /\ j[1] \notin {}}
  BY <1>1, <1>2, <1>3
<1>8. Discovery!Events(ledger, banned, since) = Discovery!Events(less, {}, since)
  BY <1>1, <1>4, <1>5 DEF Discovery!Events
<1>9. Discovery!Intents(ledger, banned, since) = Discovery!Intents(less, {}, since)
  BY <1>1, <1>6 DEF Discovery!Intents
<1>10. Discovery!Reratings(ledger, banned, since) = Discovery!Reratings(less, {}, since)
  BY <1>1, <1>7 DEF Discovery!Reratings
<1>11. QED
  BY <1>8, <1>9, <1>10 DEF Discovery!Gestures, less

LEMMA BannedLeaveNoTrace ==
    ASSUME NEW ledger, NEW banned, NEW since \in Nat \ {0}, NEW limit, NEW m, NEW n
    PROVE  Discovery!LocalActivity(ledger, banned, since, limit, m, n) =
             Discovery!LocalActivity(Without(ledger, banned), {}, since, limit, m, n)
BY BannedLeaveNoGesture DEF Discovery!LocalActivity

\* What a gesture says of the ledger.
LEMMA GestureSays ==
    ASSUME NEW ledger, NEW banned, NEW since, NEW g \in Discovery!Gestures(ledger, banned, since)
    PROVE  \E k \in DOMAIN ledger :
              /\ g.user = k[1] /\ g.item = k[2]
              /\ \/ g.kind = "rating_created" /\ g.at = ledger[k].event
                 \/ g.kind = "status_completed" /\ ledger[k].completed >= since
                 \/ g.kind \in {"want", "in_progress", "dropped"} /\ ledger[k].completed < since
                 \/ g.kind = "rerated" /\ g.at = ledger[k].edited /\ ledger[k].edited > ledger[k].event
<1>1. CASE g \in Discovery!Events(ledger, banned, since)
  BY <1>1 DEF Discovery!Events, Discovery!Gesture
<1>2. CASE g \in Discovery!Intents(ledger, banned, since)
  BY <1>2 DEF Discovery!Intents, Discovery!Gesture
<1>3. CASE g \in Discovery!Reratings(ledger, banned, since)
  BY <1>3 DEF Discovery!Reratings, Discovery!Gesture
<1>4. QED
  BY <1>1, <1>2, <1>3 DEF Discovery!Gestures

LEMMA GesturesCountOnce ==
    ASSUME NEW ledger, IsLedger(ledger), NEW banned, NEW since \in Nat,
           NEW g \in Discovery!Gestures(ledger, banned, since),
           NEW h \in Discovery!Gestures(ledger, banned, since),
           h.user = g.user, h.item = g.item
    PROVE  /\ g.kind = "rerated" /\ h.kind = "rating_created" => h.at < g.at
           /\ g.kind = "status_completed" => h.kind \notin {"want", "in_progress", "dropped"}
<1>1. PICK U, I : ledger \in [U \X I -> Deed]
  BY DEF IsLedger
<1>2. PICK k \in DOMAIN ledger :
         /\ g.user = k[1] /\ g.item = k[2]
         /\ \/ g.kind = "rating_created" /\ g.at = ledger[k].event
            \/ g.kind = "status_completed" /\ ledger[k].completed >= since
            \/ g.kind \in {"want", "in_progress", "dropped"} /\ ledger[k].completed < since
            \/ g.kind = "rerated" /\ g.at = ledger[k].edited /\ ledger[k].edited > ledger[k].event
  BY GestureSays
<1>3. PICK l \in DOMAIN ledger :
         /\ h.user = l[1] /\ h.item = l[2]
         /\ \/ h.kind = "rating_created" /\ h.at = ledger[l].event
            \/ h.kind = "status_completed" /\ ledger[l].completed >= since
            \/ h.kind \in {"want", "in_progress", "dropped"} /\ ledger[l].completed < since
            \/ h.kind = "rerated" /\ h.at = ledger[l].edited /\ ledger[l].edited > ledger[l].event
  BY GestureSays
<1>4. k = l
  BY <1>1, <1>2, <1>3
<1>5. ledger[k].completed \in Nat /\ ledger[k].event \in Nat /\ ledger[k].edited \in Nat
  BY <1>1 DEF Deed
<1>6. QED
  BY <1>2, <1>3, <1>4, <1>5

-----------------------------------------------------------------------------
(* The plan of the changes lane. *)

\* One turn of change_windows, the windows that follow taken from a table by cursor.
Turn(f, c, end, span) ==
    IF c > end THEN <<>>
    ELSE <<Feed!NextWindow(c, end, span)>> \o f[Feed!NextWindow(c, end, span).end + 1]

IsTable(f, first, end, span) == f = [c \in first .. end + span |-> Turn(f, c, end, span)]

LEMMA NextWindowIs ==
    ASSUME NEW c \in Int, NEW end \in Int, NEW span \in Nat \ {0}, c =< end
    PROVE  /\ Feed!NextWindow(c, end, span) \in [start : Int, end : Int]
           /\ Feed!NextWindow(c, end, span).start = c
           /\ Feed!NextWindow(c, end, span).end \in c .. end
           /\ Feed!NextWindow(c, end, span).end - c < span
BY DEF Feed!NextWindow, Feed!Window, Feed!Earlier

\* A turn looks at later cursors only.
LEMMA TurnLooksAhead ==
    ASSUME NEW end \in Int, NEW span \in Nat \ {0}, NEW c \in Int, NEW f, NEW g,
           \A x \in c + 1 .. end + span : f[x] = g[x]
    PROVE  Turn(f, c, end, span) = Turn(g, c, end, span)
<1>1. CASE c > end
  BY <1>1 DEF Turn
<1>2. CASE c =< end
  <2> DEFINE w == Feed!NextWindow(c, end, span)
  <2>1. w.end \in c .. end
    BY <1>2, NextWindowIs
  <2> HIDE DEF w
  <2>2. w.end + 1 \in c + 1 .. end + span
    BY <2>1
  <2>3. f[w.end + 1] = g[w.end + 1]
    BY <2>2
  <2>4. QED
    BY <2>3 DEF Turn, w
<1>3. QED
  BY <1>1, <1>2

\* The recursion of change_windows is well founded: the first cursor without a table would have one.
LEMMA TablesExist ==
    ASSUME NEW end \in Int, NEW span \in Nat \ {0}, NEW n \in Nat
    PROVE  \E f : IsTable(f, end + span - n, end, span)
<1> DEFINE last == end + span
           bad == {m \in Nat : ~ \E f : IsTable(f, last - m, end, span)}
<1>1. SUFFICES ASSUME bad # {} PROVE FALSE
  <2>1. SUFFICES ASSUME ~ \E f : IsTable(f, last - n, end, span) PROVE bad # {}
    OBVIOUS
  <2> HIDE DEF last
  <2>2. n \in bad
    BY <2>1
  <2>3. QED
    BY <2>2
<1>2. PICK m \in bad : \A o \in bad : m =< o
  <2>1. bad \in SUBSET Nat
    OBVIOUS
  <2> HIDE DEF bad
  <2>2. QED
    BY <1>1, <2>1, LeastNatural
<1>3. m \in Nat /\ ~ \E f : IsTable(f, last - m, end, span) /\ last \in Int
  OBVIOUS
<1>4. m # 0
  <2>1. IsTable([c \in last .. last |-> <<>>], last, end, span)
    <3>1. \A f, c : c \in last .. last => Turn(f, c, end, span) = <<>>
      BY DEF Turn
    <3>2. QED
      BY <3>1 DEF IsTable
  <2>2. last - 0 = last
    OBVIOUS
  <2> HIDE DEF last
  <2>3. QED
    BY <1>3, <2>1, <2>2
<1> DEFINE c == last - m
<1>5. m - 1 \in Nat /\ ~(m =< m - 1) /\ last - (m - 1) = c + 1 /\ c \in Int /\ c < last
  BY <1>3, <1>4
<1>6. PICK h : IsTable(h, c + 1, end, span)
  <2>1. ~(m - 1 \in bad)
    BY <1>2, <1>5
  <2>2. \E f : IsTable(f, last - (m - 1), end, span)
    BY <1>5, <2>1
  <2> HIDE DEF last, c
  <2>3. QED
    BY <1>5, <2>2
<1> DEFINE g == [x \in c .. last |-> IF x = c THEN Turn(h, c, end, span) ELSE h[x]]
<1> HIDE DEF bad, c
<1>7. ASSUME NEW x \in c .. last PROVE g[x] = Turn(g, x, end, span)
  <2>1. \A y \in c + 1 .. end + span : g[y] = h[y]
    BY <1>5
  <2>2. \A y \in x + 1 .. end + span : g[y] = h[y]
    BY <1>5, <2>1
  <2>3. g[x] = Turn(h, x, end, span)
    <3>1. CASE x = c
      BY <3>1
    <3>2. CASE x # c
      <4>1. x \in c + 1 .. end + span
        BY <1>5, <3>2
      <4>2. h[x] = Turn(h, x, end, span)
        BY <1>6, <4>1 DEF IsTable
      <4>3. QED
        BY <2>1, <4>1, <4>2
    <3>3. QED
      BY <3>1, <3>2
  <2>4. x \in Int
    BY <1>5
  <2> HIDE DEF g, last
  <2>5. QED
    BY <2>2, <2>3, <2>4, TurnLooksAhead
<1>8. IsTable(g, c, end, span)
  <2>1. g = [x \in c .. last |-> g[x]]
    OBVIOUS
  <2> HIDE DEF g
  <2>2. QED
    BY <1>7, <2>1 DEF IsTable
<1>9. QED
  BY <1>3, <1>8 DEF c

\* Windows that cover c .. end in order, without a hole, none of them longer than span days.
Cover(ws, c, end, span) ==
    /\ ws \in Seq([start : Int, end : Int])
    /\ c > end => ws = <<>>
    /\ c =< end => Len(ws) > 0 /\ ws[1].start = c /\ ws[Len(ws)].end = end
    /\ \A k \in 1 .. Len(ws) : /\ c =< ws[k].start /\ ws[k].start =< ws[k].end /\ ws[k].end =< end
                               /\ ws[k].end - ws[k].start < span
    /\ \A k \in 1 .. Len(ws) - 1 : ws[k + 1].start = ws[k].end + 1
    /\ \A d \in c .. end : \E k \in 1 .. Len(ws) : d \in ws[k].start .. ws[k].end

LEMMA Elements ==
    ASSUME NEW T, NEW s \in Seq(T)
    PROVE  \A k \in 1 .. Len(s) : s[k] \in T
OBVIOUS

LEMMA CoverLonger ==
    ASSUME NEW c \in Int, NEW end \in Int, NEW span \in Nat \ {0}, c =< end,
           NEW w \in [start : Int, end : Int], w.start = c, w.end \in c .. end, w.end - c < span,
           NEW ws, Cover(ws, w.end + 1, end, span)
    PROVE  Cover(<<w>> \o ws, c, end, span)
<1> DEFINE all == <<w>> \o ws
<1>0. w.start \in Int /\ w.end \in Int /\ w.end >= c
  OBVIOUS
<1>1. ws \in Seq([start : Int, end : Int]) /\ Len(ws) \in Nat
  BY DEF Cover
<1>2. /\ all \in Seq([start : Int, end : Int]) /\ Len(all) = Len(ws) + 1 /\ all[1] = w
      /\ \A k \in 1 .. Len(ws) : all[k + 1] = ws[k]
  BY <1>1
<1>3. \A k \in 1 .. Len(all) : k = 1 \/ (k - 1 \in 1 .. Len(ws) /\ all[k] = ws[k - 1])
  BY <1>1, <1>2
<1> HIDE DEF all
<1>4. all[Len(all)].end = end
  <2>1. CASE w.end = end
    <3>1. Len(ws) = 0
      BY <2>1 DEF Cover
    <3>2. Len(all) = 1
      BY <1>2, <3>1
    <3>3. QED
      BY <1>2, <2>1, <3>2
  <2>2. CASE w.end # end
    <3>1. w.end + 1 =< end
      BY <1>0, <2>2
    <3>2. Len(ws) > 0 /\ ws[Len(ws)].end = end
      BY <3>1 DEF Cover
    <3>3. Len(ws) \in 1 .. Len(ws)
      BY <1>1, <3>2
    <3>4. all[Len(ws) + 1] = ws[Len(ws)]
      BY <1>2, <3>3
    <3>5. QED
      BY <1>2, <3>2, <3>4
  <2>3. QED
    BY <2>1, <2>2
<1>5. ASSUME NEW k \in 1 .. Len(all)
      PROVE  /\ c =< all[k].start /\ all[k].start =< all[k].end /\ all[k].end =< end
             /\ all[k].end - all[k].start < span
  <2>1. CASE k = 1
    BY <1>0, <1>2, <2>1
  <2>2. CASE k - 1 \in 1 .. Len(ws) /\ all[k] = ws[k - 1]
    <3>1. ws[k - 1].start \in Int /\ ws[k - 1].end \in Int
      <4>1. \A j \in 1 .. Len(ws) : ws[j] \in [start : Int, end : Int]
        BY <1>1, Elements
      <4>2. QED
        BY <2>2, <4>1
    <3>2. /\ w.end + 1 =< ws[k - 1].start /\ ws[k - 1].start =< ws[k - 1].end /\ ws[k - 1].end =< end
          /\ ws[k - 1].end - ws[k - 1].start < span
      BY <2>2 DEF Cover
    <3>3. QED
      BY <1>0, <2>2, <3>1, <3>2
  <2>3. QED
    BY <1>3, <2>1, <2>2
<1>6. ASSUME NEW k \in 1 .. Len(all) - 1 PROVE all[k + 1].start = all[k].end + 1
  <2>1. k \in 1 .. Len(ws) /\ all[k + 1] = ws[k]
    BY <1>1, <1>2
  <2>2. CASE k = 1
    <3>1. w.end + 1 =< end
      BY <1>1, <2>1 DEF Cover
    <3>2. ws[1].start = w.end + 1
      BY <3>1 DEF Cover
    <3>3. QED
      BY <1>2, <2>1, <2>2, <3>2
  <2>3. CASE k # 1
    <3>1. k - 1 \in 1 .. Len(ws) - 1 /\ all[k] = ws[k - 1] /\ (k - 1) + 1 = k
      BY <1>1, <1>3, <2>1, <2>3
    <3>2. ws[(k - 1) + 1].start = ws[k - 1].end + 1
      BY <3>1 DEF Cover
    <3>3. QED
      BY <2>1, <3>1, <3>2
  <2>4. QED
    BY <2>2, <2>3
<1>7. ASSUME NEW d \in c .. end PROVE \E k \in 1 .. Len(all) : d \in all[k].start .. all[k].end
  <2>1. CASE d =< w.end
    <3>1. d \in w.start .. w.end
      BY <1>0, <2>1
    <3>2. 1 \in 1 .. Len(all) /\ all[1] = w
      BY <1>1, <1>2
    <3>3. QED
      BY <3>1, <3>2
  <2>2. CASE d > w.end
    <3>1. d \in w.end + 1 .. end
      BY <1>0, <2>2
    <3>2. PICK k \in 1 .. Len(ws) : d \in ws[k].start .. ws[k].end
      BY <3>1 DEF Cover
    <3>3. k + 1 \in 1 .. Len(all) /\ all[k + 1] = ws[k]
      BY <1>1, <1>2
    <3>4. QED
      BY <3>2, <3>3
  <2>3. QED
    BY <2>1, <2>2
<1>8. Len(all) > 0 /\ all[1].start = c
  BY <1>1, <1>2
<1>9. all \in Seq([start : Int, end : Int])
  BY <1>2
<1>10. Cover(all, c, end, span)
  BY <1>4, <1>5, <1>6, <1>7, <1>8, <1>9 DEF Cover
<1>11. QED
  BY <1>10 DEF all

LEMMA TableCovers ==
    ASSUME NEW end \in Int, NEW span \in Nat \ {0}, NEW first \in Int, NEW f, IsTable(f, first, end, span),
           NEW c \in first .. end + span
    PROVE  Cover(f[c], c, end, span)
<1> DEFINE last == end + span
           bad == {m \in 0 .. (last - first) : ~Cover(f[last - m], last - m, end, span)}
<1>1. SUFFICES ASSUME bad # {} PROVE FALSE
  <2>1. last - c \in 0 .. (last - first) /\ last - (last - c) = c
    OBVIOUS
  <2> HIDE DEF last
  <2>2. QED
    BY <2>1
<1>2. PICK m \in bad : \A o \in bad : m =< o
  <2>1. bad \in SUBSET Nat
    OBVIOUS
  <2> HIDE DEF bad
  <2>2. QED
    BY <1>1, <2>1, LeastNatural
<1> DEFINE x == last - m
<1>3. m \in 0 .. (last - first) /\ x \in first .. end + span /\ x \in Int /\ ~Cover(f[x], x, end, span)
  OBVIOUS
<1>4. f[x] = Turn(f, x, end, span)
  BY <1>3 DEF IsTable
<1> HIDE DEF x
<1>5. CASE x > end
  <2>1. f[x] = <<>>
    BY <1>4, <1>5 DEF Turn
  <2>2. Cover(<<>>, x, end, span)
    BY <1>3, <1>5 DEF Cover
  <2>3. QED
    BY <1>3, <2>1, <2>2
<1>6. CASE x =< end
  <2> DEFINE w == Feed!NextWindow(x, end, span)
  <2>1. /\ w \in [start : Int, end : Int] /\ w.start = x /\ w.end \in x .. end /\ w.end - x < span
    BY <1>3, <1>6, NextWindowIs
  <2>2. f[x] = <<w>> \o f[w.end + 1]
    <3>1. ~(x > end)
      BY <1>3, <1>6
    <3>2. QED
      BY <1>4, <3>1 DEF Turn
  <2> HIDE DEF w
  <2>3. Cover(f[w.end + 1], w.end + 1, end, span)
    <3> DEFINE o == last - (w.end + 1)
    <3>1. o \in 0 .. (last - first) /\ ~(m =< o) /\ last - o = w.end + 1
      BY <1>3, <2>1 DEF x
    <3>2. o \notin bad
      BY <1>2, <3>1
    <3> HIDE DEF o
    <3>3. QED
      BY <3>1, <3>2
  <2>4. Cover(<<w>> \o f[w.end + 1], x, end, span)
    BY <1>3, <1>6, <2>1, <2>3, CoverLonger
  <2>5. QED
    BY <1>3, <2>2, <2>4
<1>7. QED
  BY <1>3, <1>5, <1>6

LEMMA ChangeWindowsCover ==
    ASSUME NEW start \in Int, NEW end \in Int, NEW span \in Nat \ {0}, start =< end
    PROVE  Cover(Feed!ChangeWindows(start, end, span), start, end, span)
<1> DEFINE from == CHOOSE f : IsTable(f, start, end, span)
<1>1. IsTable(from, start, end, span)
  <2>1. end + span - start \in Nat /\ end + span - (end + span - start) = start
    OBVIOUS
  <2>2. \E f : IsTable(f, end + span - (end + span - start), end, span)
    BY <2>1, TablesExist
  <2>3. \E f : IsTable(f, start, end, span)
    BY <2>1, <2>2
  <2>4. QED
    BY <2>3
<1>2. Feed!ChangeWindows(start, end, span) = from[start]
  BY DEF Feed!ChangeWindows, IsTable, Turn
<1> HIDE DEF from
<1>3. start \in start .. end + span
  OBVIOUS
<1>4. QED
  BY <1>1, <1>2, <1>3, TableCovers

\* A plan accounts for every day, for any range, window and retention.
LEMMA PlanIsHonest ==
    ASSUME NEW since \in {Feed!None} \cup Nat, NEW until \in Nat, NEW span \in Nat \ {0},
           NEW retention \in Nat \ {0}, until >= retention - 1
    PROVE  LET ws == Feed!PlanWindows(since, until, span, retention)
               requested == UNION {Feed!Days(ws[k]) : k \in DOMAIN ws}
               lost == Feed!Uncovered(since, until, retention)
               horizon == Feed!Horizon(until, retention)
           IN  /\ since # Feed!None => (since + 1 .. until) \subseteq requested \cup lost
               /\ requested \cap lost = {}
               /\ \A d \in requested : d >= horizon
               /\ \A k \in DOMAIN ws : ws[k].end - ws[k].start < span
               /\ ws # <<>> => Feed!Tiles(ws, ws[1].start, until)
               /\ since \in horizon .. until => ws # <<>> /\ ws[1].start = since
<1> DEFINE ws == Feed!PlanWindows(since, until, span, retention)
           requested == UNION {Feed!Days(ws[k]) : k \in DOMAIN ws}
           lost == Feed!Uncovered(since, until, retention)
           horizon == Feed!Horizon(until, retention)
           start == Feed!PlanStart(since, until, retention)
           Honest == /\ since # Feed!None => (since + 1 .. until) \subseteq requested \cup lost
                     /\ requested \cap lost = {}
                     /\ \A d \in requested : d >= horizon
                     /\ \A k \in DOMAIN ws : ws[k].end - ws[k].start < span
                     /\ ws # <<>> => Feed!Tiles(ws, ws[1].start, until)
                     /\ since \in horizon .. until => ws # <<>> /\ ws[1].start = since
<1>1. horizon \in Nat /\ horizon =< until
  BY DEF Feed!Horizon
<1>2. since \in Int /\ (since # Feed!None => since \in Nat)
  BY DEF Feed!None
<1>3. CASE since # Feed!None /\ since > until
  <2>1. ws = <<>> /\ lost = {}
    BY <1>3 DEF Feed!PlanWindows, Feed!Uncovered
  <2> HIDE DEF ws, lost, horizon
  <2>2. requested = {} /\ DOMAIN ws = {}
    BY <2>1
  <2>3. since + 1 .. until = {} /\ since \notin horizon .. until
    BY <1>1, <1>2, <1>3
  <2> HIDE DEF requested
  <2>4. Honest
    BY <2>1, <2>2, <2>3
  <2>5. QED
    BY <2>4 DEF ws, requested, lost, horizon
<1>4. CASE since = Feed!None \/ since =< until
  <2>1. /\ start \in Int /\ horizon =< start /\ start =< until
        /\ since # Feed!None /\ horizon =< since => start = since
        /\ since # Feed!None /\ since < horizon => start = horizon
    BY <1>1, <1>2, <1>4 DEF Feed!PlanStart, Feed!Later
  <2>2. Cover(ws, start, until, span)
    <3>1. ws = Feed!ChangeWindows(start, until, span)
      BY <1>2, <1>4 DEF Feed!PlanWindows
    <3> HIDE DEF ws, start
    <3>2. QED
      BY <2>1, <3>1, ChangeWindowsCover
  <2>3. lost = IF since = Feed!None THEN {} ELSE since + 1 .. horizon - 1
    BY <1>2, <1>4 DEF Feed!Uncovered
  <2> HIDE DEF ws, start, lost, horizon
  <2>4. /\ ws \in Seq([start : Int, end : Int]) /\ Len(ws) \in Nat /\ DOMAIN ws = 1 .. Len(ws)
        /\ \A k \in 1 .. Len(ws) : ws[k].start \in Int /\ ws[k].end \in Int
    <3>1. ws \in Seq([start : Int, end : Int])
      BY <2>2 DEF Cover
    <3>2. \A k \in 1 .. Len(ws) : ws[k] \in [start : Int, end : Int]
      BY <3>1, Elements
    <3>3. \A k \in 1 .. Len(ws) : ws[k].start \in Int /\ ws[k].end \in Int
      BY <3>2
    <3>4. QED
      BY <3>1, <3>3
  <2>5. Len(ws) > 0 /\ ws # <<>> /\ ws[1].start = start /\ ws[Len(ws)].end = until
    BY <2>1, <2>2 DEF Cover
  <2>6. \A d \in requested : d \in start .. until
    <3> SUFFICES ASSUME NEW k \in 1 .. Len(ws), NEW d \in Feed!Days(ws[k]) PROVE d \in start .. until
      BY <2>4
    <3>1. start =< ws[k].start /\ ws[k].end =< until
      BY <2>2 DEF Cover
    <3>2. d \in ws[k].start .. ws[k].end /\ ws[k].start \in Int /\ ws[k].end \in Int
      BY <2>4 DEF Feed!Days
    <3>3. QED
      BY <2>1, <3>1, <3>2
  <2>7. \A d \in start .. until : d \in requested
    <3> SUFFICES ASSUME NEW d \in start .. until PROVE \E k \in 1 .. Len(ws) : d \in Feed!Days(ws[k])
      BY <2>4
    <3>1. QED
      BY <2>2 DEF Cover, Feed!Days
  <2> HIDE DEF requested
  <2>8. since # Feed!None => (since + 1 .. until) \subseteq requested \cup lost
    <3> SUFFICES ASSUME since # Feed!None, NEW d \in since + 1 .. until, d \notin start .. until
                 PROVE  d \in lost
      BY <2>7
    <3>1. d \in Int /\ since + 1 =< d /\ d =< until /\ d < start
      BY <1>2, <2>1
    <3>2. d < horizon
      BY <1>1, <1>2, <2>1, <3>1
    <3>3. QED
      BY <1>1, <1>2, <2>3, <3>1, <3>2
  <2>9. requested \cap lost = {}
    <3> SUFFICES ASSUME NEW d \in requested, d \in lost PROVE FALSE
      OBVIOUS
    <3>1. d \in start .. until
      BY <2>6
    <3>2. since # Feed!None /\ d \in since + 1 .. horizon - 1
      BY <2>3
    <3>3. QED
      BY <1>1, <1>2, <2>1, <3>1, <3>2
  <2>10. \A d \in requested : d >= horizon
    BY <1>1, <2>1, <2>6
  <2>11. \A k \in DOMAIN ws : ws[k].end - ws[k].start < span
    BY <2>2, <2>4 DEF Cover
  <2>12. Feed!Tiles(ws, ws[1].start, until)
    <3>1. Head(ws) = ws[1] /\ Feed!Last(ws) = ws[Len(ws)]
      BY <2>4, <2>5 DEF Feed!Last
    <3>2. /\ \A k \in 1 .. Len(ws) : ws[k].start =< ws[k].end
          /\ \A k \in 1 .. Len(ws) - 1 : ws[k + 1].start = ws[k].end + 1
      BY <2>2 DEF Cover
    <3>3. QED
      BY <2>5, <3>1, <3>2 DEF Feed!Tiles
  <2>13. since \in horizon .. until => ws[1].start = since
    BY <1>1, <1>2, <2>1, <2>5 DEF Feed!None
  <2>14. Honest
    BY <2>5, <2>8, <2>9, <2>10, <2>11, <2>12, <2>13
  <2>15. QED
    BY <2>14 DEF ws, requested, lost, horizon
<1>5. QED
  BY <1>2, <1>3, <1>4

-----------------------------------------------------------------------------
(* The walk of a window. *)

\* The sum of the loads of a set, taken from a table by subset.
OneOf(s) == CHOOSE x \in s : TRUE
Adding(f, s, load) == IF s = {} THEN 0 ELSE load[OneOf(s)] + f[s \ {OneOf(s)}]
AreSumsTo(f, S, load, n) ==
    /\ f = [s \in SUBSET S |-> f[s]]
    /\ \A s \in SUBSET S : Cardinality(s) =< n => f[s] = Adding(f, s, load)
AreSums(f, S, load) == f = [s \in SUBSET S |-> Adding(f, s, load)]

LEMMA Rest ==
    ASSUME NEW s, IsFiniteSet(s), s # {}
    PROVE  /\ OneOf(s) \in s /\ IsFiniteSet(s \ {OneOf(s)})
           /\ Cardinality(s) \in Nat \ {0}
           /\ Cardinality(s \ {OneOf(s)}) = Cardinality(s) - 1
<1>1. OneOf(s) \in s
  BY DEF OneOf
<1>2. IsFiniteSet(s \ {OneOf(s)}) /\ Cardinality(s \ {OneOf(s)}) = Cardinality(s) - 1
  BY <1>1, FS_RemoveElement
<1>3. Cardinality(s) \in Nat /\ Cardinality(s) # 0
  BY FS_CardinalityType, FS_EmptySet
<1>4. QED
  BY <1>1, <1>2, <1>3

\* The least size of which subsets had no sum would have one, by the sums of the smaller ones.
LEMMA SumsExistTo ==
    ASSUME NEW S, IsFiniteSet(S), NEW load, NEW n \in Nat
    PROVE  \E f : AreSumsTo(f, S, load, n)
<1> DEFINE bad == {m \in Nat : ~ \E f : AreSumsTo(f, S, load, m)}
<1>1. SUFFICES ASSUME bad # {} PROVE FALSE
  <2>1. SUFFICES ASSUME ~ \E f : AreSumsTo(f, S, load, n) PROVE bad # {}
    OBVIOUS
  <2>2. n \in bad
    BY <2>1
  <2>3. QED
    BY <2>2
<1>2. PICK m \in bad : \A o \in bad : m =< o
  <2>1. bad \in SUBSET Nat
    OBVIOUS
  <2> HIDE DEF bad
  <2>2. QED
    BY <1>1, <2>1, LeastNatural
<1>3. m \in Nat /\ ~ \E f : AreSumsTo(f, S, load, m)
  OBVIOUS
<1>4. \A s \in SUBSET S : IsFiniteSet(s) /\ Cardinality(s) \in Nat
  BY FS_Subset, FS_CardinalityType
<1>5. m # 0
  <2> DEFINE none == [s \in SUBSET S |-> 0]
  <2>1. \A s \in SUBSET S : Cardinality(s) =< 0 => none[s] = Adding(none, s, load)
    <3> SUFFICES ASSUME NEW s \in SUBSET S, Cardinality(s) =< 0 PROVE none[s] = Adding(none, s, load)
      OBVIOUS
    <3>1. s = {}
      <4>1. IsFiniteSet(s)
        BY <1>4
      <4>2. s # {} => Cardinality(s) \in Nat \ {0}
        BY <4>1, Rest
      <4>3. QED
        BY <4>2
    <3>2. QED
      BY <3>1 DEF Adding
  <2>2. none = [s \in SUBSET S |-> none[s]]
    OBVIOUS
  <2> HIDE DEF none
  <2>3. AreSumsTo(none, S, load, 0)
    BY <2>1, <2>2 DEF AreSumsTo
  <2>4. QED
    BY <1>3, <2>3
<1>6. PICK h : AreSumsTo(h, S, load, m - 1)
  <2>1. m - 1 \in Nat /\ ~(m =< m - 1)
    BY <1>3, <1>5
  <2>2. m - 1 \notin bad
    BY <1>2, <2>1
  <2>3. QED
    BY <2>1, <2>2
<1> DEFINE g == [s \in SUBSET S |-> Adding(h, s, load)]
<1> HIDE DEF bad
<1>7. ASSUME NEW s \in SUBSET S, Cardinality(s) =< m PROVE g[s] = Adding(g, s, load)
  <2>1. CASE s = {}
    BY <2>1 DEF Adding
  <2>2. CASE s # {}
    <3> DEFINE r == s \ {OneOf(s)}
    <3>1. Cardinality(s) \in Nat /\ Cardinality(r) = Cardinality(s) - 1 /\ r \in SUBSET S
      BY <1>4, <2>2, Rest
    <3>2. Cardinality(r) =< m - 1
      BY <1>3, <1>7, <3>1
    <3> HIDE DEF r
    <3>3. h[r] = Adding(h, r, load)
      BY <1>6, <3>1, <3>2 DEF AreSumsTo
    <3>4. g[r] = h[r]
      BY <3>1, <3>3
    <3>5. g[s] = load[OneOf(s)] + h[r]
      BY <2>2 DEF Adding, r
    <3> HIDE DEF g
    <3>6. QED
      BY <2>2, <3>4, <3>5 DEF Adding, r
  <2>3. QED
    BY <2>1, <2>2
<1>8. g = [s \in SUBSET S |-> g[s]]
  OBVIOUS
<1> HIDE DEF g
<1>9. AreSumsTo(g, S, load, m)
  BY <1>7, <1>8 DEF AreSumsTo
<1>10. QED
  BY <1>3, <1>9

LEMMA SumsExist ==
    ASSUME NEW S, IsFiniteSet(S), NEW load
    PROVE  \E f : AreSums(f, S, load)
<1>1. Cardinality(S) \in Nat
  BY FS_CardinalityType
<1>2. PICK f : AreSumsTo(f, S, load, Cardinality(S))
  BY <1>1, SumsExistTo
<1>3. \A s \in SUBSET S : Cardinality(s) =< Cardinality(S)
  BY FS_Subset
<1>4. f = [s \in SUBSET S |-> f[s]] /\ \A s \in SUBSET S : f[s] = Adding(f, s, load)
  BY <1>2, <1>3 DEF AreSumsTo
<1>5. f = [s \in SUBSET S |-> Adding(f, s, load)]
  BY <1>4
<1>6. QED
  BY <1>5 DEF AreSums

\* A sum of natural numbers is one, and no less than any of them.
LEMMA SumsBound ==
    ASSUME NEW S, IsFiniteSet(S), NEW load, \A x \in S : load[x] \in Nat,
           NEW f, AreSums(f, S, load), NEW s \in SUBSET S
    PROVE  f[s] \in Nat /\ \A x \in s : load[x] =< f[s]
<1> DEFINE Bounds(q) == f[q] \in Nat /\ \A x \in q : load[x] =< f[q]
           bad == {Cardinality(q) : q \in {p \in SUBSET S : ~Bounds(p)}}
<1>1. \A q \in SUBSET S : IsFiniteSet(q) /\ Cardinality(q) \in Nat
  BY FS_Subset, FS_CardinalityType
<1>2. SUFFICES ASSUME bad # {} PROVE FALSE
  OBVIOUS
<1>3. PICK m \in bad : \A o \in bad : m =< o
  <2>1. bad \in SUBSET Nat
    BY <1>1
  <2> HIDE DEF bad
  <2>2. QED
    BY <1>2, <2>1, LeastNatural
<1>4. PICK q \in SUBSET S : ~Bounds(q) /\ m = Cardinality(q)
  OBVIOUS
<1>5. f[q] = Adding(f, q, load)
  BY DEF AreSums
<1>6. CASE q = {}
  BY <1>4, <1>5, <1>6 DEF Adding
<1>7. CASE q # {}
  <2> DEFINE r == q \ {OneOf(q)}
  <2>1. /\ OneOf(q) \in q /\ r \in SUBSET S
        /\ Cardinality(q) \in Nat /\ Cardinality(r) = Cardinality(q) - 1
    BY <1>1, <1>7, Rest
  <2>2. Cardinality(r) \notin bad
    BY <1>3, <1>4, <2>1
  <2>3. Bounds(r)
    BY <2>1, <2>2
  <2>4. f[q] = load[OneOf(q)] + f[r]
    BY <1>5, <1>7 DEF Adding
  <2>5. load[OneOf(q)] \in Nat
    BY <2>1
  <2>6. \A x \in q : x = OneOf(q) \/ x \in r
    OBVIOUS
  <2> HIDE DEF r
  <2>7. Bounds(q)
    BY <2>3, <2>4, <2>5, <2>6
  <2>8. QED
    BY <1>4, <2>7
<1>8. QED
  BY <1>6, <1>7

LEMMA LoadsBound ==
    ASSUME NEW v \in [start : Int, end : Int], NEW load, \A d \in v.start .. v.end : load[d] \in Nat
    PROVE  /\ Feed!LoadOf(v, load) \in Nat
           /\ \A d \in v.start .. v.end : load[d] =< Feed!LoadOf(v, load)
           /\ v.start = v.end => Feed!LoadOf(v, load) = load[v.start]
<1> DEFINE S == v.start .. v.end
           f == CHOOSE g : AreSums(g, S, load)
<1>1. v.start \in Int /\ v.end \in Int
  OBVIOUS
<1>2. IsFiniteSet(S)
  BY <1>1, FS_Interval
<1>3. Feed!LoadOf(v, load) = f[S]
  BY DEF Feed!LoadOf, Feed!MapThenSumSet, Feed!MapThenFoldSet, Feed!Days, AreSums, Adding, OneOf
<1> HIDE DEF f
<1>4. AreSums(f, S, load)
  BY <1>2, SumsExist DEF f
<1>5. S \in SUBSET S
  OBVIOUS
<1>6. f[S] \in Nat /\ \A d \in S : load[d] =< f[S]
  <2> HIDE DEF S
  <2>1. \A d \in S : load[d] \in Nat
    BY DEF S
  <2>2. QED
    BY <1>2, <1>4, <1>5, <2>1, SumsBound
<1>7. v.start = v.end => f[S] = load[v.start]
  <2> SUFFICES ASSUME v.start = v.end PROVE f[S] = load[v.start]
    OBVIOUS
  <2>1. S = {v.start}
    BY <1>1
  <2> HIDE DEF S
  <2>2. OneOf(S) = v.start /\ S \ {OneOf(S)} = {}
    BY <2>1 DEF OneOf
  <2>3. f[S] = load[v.start] + f[{}] /\ f[{}] = 0
    BY <1>4, <2>1, <2>2 DEF AreSums, Adding
  <2>4. load[v.start] \in Nat
    BY <1>1
  <2>5. QED
    BY <2>3, <2>4
<1>8. QED
  BY <1>3, <1>6, <1>7

\* What the walk leaves of one window, the halves taken from a table by window.
Windows(w) == [start : Feed!Days(w), end : Feed!Days(w)]
Split(f, v, load, cap) ==
    IF Feed!LoadOf(v, load) > cap /\ Feed!Splittable(v)
    THEN f[Feed!Halves(v)[1]] \o f[Feed!Halves(v)[2]]
    ELSE <<v>>
IsWalkTo(f, w, load, cap, n) ==
    /\ f = [v \in Windows(w) |-> f[v]]
    /\ \A v \in Windows(w) : v.end - v.start =< n => f[v] = Split(f, v, load, cap)
IsWalk(f, w, load, cap) == f = [v \in Windows(w) |-> Split(f, v, load, cap)]

LEMMA HalvesAre ==
    ASSUME NEW v \in [start : Int, end : Int], Feed!Splittable(v)
    PROVE  \E mid \in v.start .. v.end - 1 :
              Feed!Halves(v) = <<Feed!Window(v.start, mid), Feed!Window(mid + 1, v.end)>>
<1> DEFINE mid == v.start + (v.end - v.start + 1) \div 2 - 1
<1>1. v.start \in Int /\ v.end \in Int /\ v.end > v.start
  BY DEF Feed!Splittable
<1>2. mid \in v.start .. v.end - 1
  BY <1>1
<1>3. Feed!Halves(v) = <<Feed!Window(v.start, mid), Feed!Window(mid + 1, v.end)>>
  BY DEF Feed!Halves
<1>4. QED
  BY <1>2, <1>3

\* The halves are shorter windows, which lie in the same window.
LEMMA HalvesAreShorter ==
    ASSUME NEW w \in [start : Int, end : Int], NEW v \in Windows(w), Feed!Splittable(v),
           NEW i \in 1 .. 2
    PROVE  /\ Feed!Halves(v)[i] \in Windows(w)
           /\ Feed!Halves(v)[i].end - Feed!Halves(v)[i].start \in 0 .. v.end - v.start - 1
<1>1. v \in [start : Int, end : Int] /\ v.start \in w.start .. w.end /\ v.end \in w.start .. w.end
  BY DEF Windows, Feed!Days
<1>2. PICK mid \in v.start .. v.end - 1 :
          Feed!Halves(v) = <<Feed!Window(v.start, mid), Feed!Window(mid + 1, v.end)>>
  BY <1>1, HalvesAre
<1>3. w.start \in Int /\ w.end \in Int /\ v.start \in Int /\ v.end \in Int
  BY <1>1
<1>4. mid \in w.start .. w.end /\ mid + 1 \in w.start .. w.end
  BY <1>1, <1>3
<1>5. CASE i = 1
  <2>1. Feed!Halves(v)[i] = [start |-> v.start, end |-> mid]
    BY <1>2, <1>5 DEF Feed!Window
  <2>2. QED
    BY <1>1, <1>3, <1>4, <2>1 DEF Windows, Feed!Days
<1>6. CASE i = 2
  <2>1. Feed!Halves(v)[i] = [start |-> mid + 1, end |-> v.end]
    BY <1>2, <1>6 DEF Feed!Window
  <2>2. QED
    BY <1>1, <1>3, <1>4, <2>1 DEF Windows, Feed!Days
<1>7. QED
  BY <1>5, <1>6

LEMMA WalksExistTo ==
    ASSUME NEW w \in [start : Int, end : Int], NEW load, NEW cap, NEW n \in Nat
    PROVE  \E f : IsWalkTo(f, w, load, cap, n)
<1> DEFINE bad == {m \in Nat : ~ \E f : IsWalkTo(f, w, load, cap, m)}
<1>1. SUFFICES ASSUME bad # {} PROVE FALSE
  <2>1. SUFFICES ASSUME ~ \E f : IsWalkTo(f, w, load, cap, n) PROVE bad # {}
    OBVIOUS
  <2>2. n \in bad
    BY <2>1
  <2>3. QED
    BY <2>2
<1>2. PICK m \in bad : \A o \in bad : m =< o
  <2>1. bad \in SUBSET Nat
    OBVIOUS
  <2> HIDE DEF bad
  <2>2. QED
    BY <1>1, <2>1, LeastNatural
<1>3. m \in Nat /\ ~ \E f : IsWalkTo(f, w, load, cap, m)
  OBVIOUS
<1>4. \A v \in Windows(w) : v.start \in Int /\ v.end \in Int
  <2>1. w.start \in Int /\ w.end \in Int
    OBVIOUS
  <2>2. QED
    BY <2>1 DEF Windows, Feed!Days
<1>5. m # 0
  <2> DEFINE whole == [v \in Windows(w) |-> <<v>>]
  <2>1. \A v \in Windows(w) : v.end - v.start =< 0 => whole[v] = Split(whole, v, load, cap)
    <3> SUFFICES ASSUME NEW v \in Windows(w), v.end - v.start =< 0
                 PROVE  whole[v] = Split(whole, v, load, cap)
      OBVIOUS
    <3>1. ~Feed!Splittable(v)
      BY <1>4 DEF Feed!Splittable
    <3>2. QED
      BY <3>1 DEF Split
  <2>2. whole = [v \in Windows(w) |-> whole[v]]
    OBVIOUS
  <2> HIDE DEF whole
  <2>3. IsWalkTo(whole, w, load, cap, 0)
    BY <2>1, <2>2 DEF IsWalkTo
  <2>4. QED
    BY <1>3, <2>3
<1>6. PICK h : IsWalkTo(h, w, load, cap, m - 1)
  <2>1. m - 1 \in Nat /\ ~(m =< m - 1)
    BY <1>3, <1>5
  <2>2. m - 1 \notin bad
    BY <1>2, <2>1
  <2>3. QED
    BY <2>1, <2>2
<1> DEFINE g == [v \in Windows(w) |-> Split(h, v, load, cap)]
<1> HIDE DEF bad
<1>7. ASSUME NEW v \in Windows(w), v.end - v.start =< m PROVE g[v] = Split(g, v, load, cap)
  <2>1. CASE ~Feed!Splittable(v)
    BY <2>1 DEF Split
  <2>2. CASE Feed!Splittable(v)
    <3>1. ASSUME NEW i \in 1 .. 2 PROVE g[Feed!Halves(v)[i]] = h[Feed!Halves(v)[i]]
      <4> DEFINE u == Feed!Halves(v)[i]
      <4>1. u \in Windows(w) /\ u.end - u.start \in 0 .. v.end - v.start - 1
        BY <2>2, HalvesAreShorter
      <4> HIDE DEF u
      <4>2. u.end - u.start =< m - 1
        BY <1>3, <1>4, <1>7, <4>1
      <4>3. h[u] = Split(h, u, load, cap)
        BY <1>6, <4>1, <4>2 DEF IsWalkTo
      <4>4. g[u] = h[u]
        BY <4>1, <4>3
      <4>5. QED
        BY <4>4 DEF u
    <3>2. g[v] = Split(h, v, load, cap)
      OBVIOUS
    <3> HIDE DEF g
    <3>3. g[Feed!Halves(v)[1]] = h[Feed!Halves(v)[1]] /\ g[Feed!Halves(v)[2]] = h[Feed!Halves(v)[2]]
      BY <3>1
    <3>4. QED
      BY <3>2, <3>3 DEF Split
  <2>3. QED
    BY <2>1, <2>2
<1>8. g = [v \in Windows(w) |-> g[v]]
  OBVIOUS
<1> HIDE DEF g
<1>9. IsWalkTo(g, w, load, cap, m)
  BY <1>7, <1>8 DEF IsWalkTo
<1>10. QED
  BY <1>3, <1>9

LEMMA LeavesAreAWalk ==
    ASSUME NEW w \in [start : Int, end : Int], w.start =< w.end, NEW load, NEW cap
    PROVE  \E f : IsWalk(f, w, load, cap) /\ Feed!Leaves(w, load, cap) = f[w]
<1> DEFINE f == CHOOSE g : IsWalk(g, w, load, cap)
<1>1. Feed!Leaves(w, load, cap) = f[w]
  BY DEF Feed!Leaves, IsWalk, Split, Windows
<1>2. w.start \in Int /\ w.end \in Int /\ w.end - w.start \in Nat
  OBVIOUS
<1>3. PICK h : IsWalkTo(h, w, load, cap, w.end - w.start)
  BY <1>2, WalksExistTo
<1>4. \A v \in Windows(w) : v.end - v.start =< w.end - w.start
  BY <1>2 DEF Windows, Feed!Days
<1>5. h = [v \in Windows(w) |-> h[v]] /\ \A v \in Windows(w) : h[v] = Split(h, v, load, cap)
  BY <1>3, <1>4 DEF IsWalkTo
<1>6. IsWalk(h, w, load, cap)
  BY <1>5 DEF IsWalk
<1> HIDE DEF f
<1>7. IsWalk(f, w, load, cap)
  BY <1>6 DEF f
<1>8. QED
  BY <1>1, <1>7

\* The leaves of v in order: they tile it, and each is under the cap or a single day.
Fits(u, load, cap) == Feed!LoadOf(u, load) =< cap \/ ~Feed!Splittable(u)
AreLeaves(vs, v, load, cap) ==
    /\ vs \in Seq([start : Int, end : Int])
    /\ Len(vs) > 0 /\ vs[1].start = v.start /\ vs[Len(vs)].end = v.end
    /\ \A k \in 1 .. Len(vs) : /\ v.start =< vs[k].start /\ vs[k].start =< vs[k].end /\ vs[k].end =< v.end
                               /\ Fits(vs[k], load, cap)
    /\ \A k \in 1 .. Len(vs) - 1 : vs[k + 1].start = vs[k].end + 1
    /\ \A j, k \in 1 .. Len(vs) : j < k => vs[j].end < vs[k].start
    /\ \A d \in v.start .. v.end : \E k \in 1 .. Len(vs) : d \in vs[k].start .. vs[k].end

LEMMA LeafOfItself ==
    ASSUME NEW v \in [start : Int, end : Int], v.start =< v.end, NEW load, NEW cap, Fits(v, load, cap)
    PROVE  AreLeaves(<<v>>, v, load, cap)
<1>1. v.start \in Int /\ v.end \in Int
  OBVIOUS
<1> DEFINE vs == <<v>>
<1>2. vs \in Seq([start : Int, end : Int]) /\ Len(vs) = 1 /\ vs[1] = v
  OBVIOUS
<1> HIDE DEF vs
<1>3. \A k \in 1 .. Len(vs) : k = 1
  BY <1>2
<1>4. \A k \in 1 .. Len(vs) : /\ v.start =< vs[k].start /\ vs[k].start =< vs[k].end /\ vs[k].end =< v.end
                              /\ Fits(vs[k], load, cap)
  BY <1>1, <1>2, <1>3
<1>5. \A d \in v.start .. v.end : \E k \in 1 .. Len(vs) : d \in vs[k].start .. vs[k].end
  BY <1>2
<1>6. AreLeaves(vs, v, load, cap)
  BY <1>2, <1>3, <1>4, <1>5 DEF AreLeaves
<1>7. QED
  BY <1>6 DEF vs

LEMMA LeavesOfHalves ==
    ASSUME NEW v \in [start : Int, end : Int], NEW mid \in v.start .. v.end - 1, NEW load, NEW cap,
           NEW a, NEW b,
           AreLeaves(a, Feed!Window(v.start, mid), load, cap),
           AreLeaves(b, Feed!Window(mid + 1, v.end), load, cap)
    PROVE  AreLeaves(a \o b, v, load, cap)
<1> DEFINE vs == a \o b
           W == [start : Int, end : Int]
<1>1. v.start \in Int /\ v.end \in Int /\ mid \in Int /\ v.start =< mid /\ mid < v.end
  OBVIOUS
<1>2. a \in Seq(W) /\ b \in Seq(W)
  BY DEF AreLeaves
<1>3. Len(a) \in Nat /\ Len(a) > 0 /\ Len(b) \in Nat /\ Len(b) > 0
  <2>1. Len(a) \in Nat /\ Len(b) \in Nat
    BY <1>2
  <2>2. QED
    BY <2>1 DEF AreLeaves
<1>4. a[1].start = v.start /\ a[Len(a)].end = mid /\ b[1].start = mid + 1 /\ b[Len(b)].end = v.end
  BY DEF AreLeaves, Feed!Window
<1>5. \A k \in 1 .. Len(a) : /\ a[k].start \in Int /\ a[k].end \in Int
                             /\ v.start =< a[k].start /\ a[k].start =< a[k].end /\ a[k].end =< mid
                             /\ Fits(a[k], load, cap)
  <2>1. \A k \in 1 .. Len(a) : a[k] \in W
    BY <1>2, Elements
  <2>2. QED
    BY <2>1 DEF AreLeaves, Feed!Window
<1>6. \A k \in 1 .. Len(b) : /\ b[k].start \in Int /\ b[k].end \in Int
                             /\ mid + 1 =< b[k].start /\ b[k].start =< b[k].end /\ b[k].end =< v.end
                             /\ Fits(b[k], load, cap)
  <2>1. \A k \in 1 .. Len(b) : b[k] \in W
    BY <1>2, Elements
  <2>2. QED
    BY <2>1 DEF AreLeaves, Feed!Window
<1>7. /\ vs \in Seq(W) /\ Len(vs) = Len(a) + Len(b)
      /\ \A k \in 1 .. Len(a) : vs[k] = a[k]
      /\ \A k \in 1 .. Len(b) : vs[k + Len(a)] = b[k]
  BY <1>2
<1> HIDE DEF vs
<1>7a. Len(vs) = Len(a) + Len(b) /\ Len(vs) \in Nat
  BY <1>3, <1>7
<1>8. \A k \in 1 .. Len(vs) : \/ k \in 1 .. Len(a) /\ vs[k] = a[k]
                              \/ k > Len(a) /\ k - Len(a) \in 1 .. Len(b) /\ vs[k] = b[k - Len(a)]
  <2> SUFFICES ASSUME NEW k \in 1 .. Len(vs), k > Len(a)
               PROVE  k - Len(a) \in 1 .. Len(b) /\ vs[k] = b[k - Len(a)]
    <3>1. \A k \in 1 .. Len(vs) : k \in 1 .. Len(a) \/ k > Len(a)
      BY <1>3, <1>7a
    <3>2. QED
      BY <1>7, <3>1
  <2>1. k - Len(a) \in 1 .. Len(b) /\ (k - Len(a)) + Len(a) = k
    BY <1>3, <1>7a
  <2>2. QED
    BY <1>7, <2>1
<1>9. vs[1].start = v.start /\ vs[Len(vs)].end = v.end
  <2>1. vs[1] = a[1]
    BY <1>3, <1>7
  <2>2. vs[Len(b) + Len(a)] = b[Len(b)] /\ Len(b) + Len(a) = Len(vs)
    BY <1>3, <1>7
  <2>3. QED
    BY <1>4, <2>1, <2>2
<1>10. \A k \in 1 .. Len(vs) : /\ v.start =< vs[k].start /\ vs[k].start =< vs[k].end /\ vs[k].end =< v.end
                               /\ Fits(vs[k], load, cap)
  <2> SUFFICES ASSUME NEW k \in 1 .. Len(vs)
               PROVE  /\ v.start =< vs[k].start /\ vs[k].start =< vs[k].end /\ vs[k].end =< v.end
                      /\ Fits(vs[k], load, cap)
    OBVIOUS
  <2>1. CASE k \in 1 .. Len(a) /\ vs[k] = a[k]
    BY <1>1, <1>5, <2>1
  <2>2. CASE k - Len(a) \in 1 .. Len(b) /\ vs[k] = b[k - Len(a)]
    BY <1>1, <1>6, <2>2
  <2>3. QED
    BY <1>8, <2>1, <2>2
<1>11. \A j, k \in 1 .. Len(vs) : j < k => vs[j].end < vs[k].start
  <2> SUFFICES ASSUME NEW j \in 1 .. Len(vs), NEW k \in 1 .. Len(vs), j < k
               PROVE  vs[j].end < vs[k].start
    OBVIOUS
  <2>1. CASE k \in 1 .. Len(a) /\ vs[k] = a[k]
    <3>1. j \in 1 .. Len(a)
      BY <1>3, <1>7a, <2>1
    <3>3. vs[j] = a[j]
      BY <1>7, <3>1
    <3>2. QED
      BY <2>1, <3>1, <3>3 DEF AreLeaves
  <2>2. CASE k > Len(a) /\ k - Len(a) \in 1 .. Len(b) /\ vs[k] = b[k - Len(a)]
    <3>1. CASE j \in 1 .. Len(a) /\ vs[j] = a[j]
      BY <1>1, <1>5, <1>6, <2>2, <3>1
    <3>2. CASE j - Len(a) \in 1 .. Len(b) /\ vs[j] = b[j - Len(a)]
      <4>1. j - Len(a) < k - Len(a)
        BY <1>3
      <4>2. QED
        BY <2>2, <3>2, <4>1 DEF AreLeaves
    <3>3. QED
      BY <1>8, <3>1, <3>2
  <2>3. QED
    BY <1>8, <2>1, <2>2
<1>12. \A k \in 1 .. Len(vs) - 1 : vs[k + 1].start = vs[k].end + 1
  <2> SUFFICES ASSUME NEW k \in 1 .. Len(vs) - 1 PROVE vs[k + 1].start = vs[k].end + 1
    OBVIOUS
  <2>1. CASE k < Len(a)
    <3>1. k \in 1 .. Len(a) - 1 /\ k \in 1 .. Len(a) /\ k + 1 \in 1 .. Len(a)
      BY <1>3, <1>7a, <2>1
    <3>2. vs[k] = a[k] /\ vs[k + 1] = a[k + 1]
      BY <1>7, <3>1
    <3>3. QED
      BY <3>1, <3>2 DEF AreLeaves
  <2>2. CASE k = Len(a)
    <3>1. vs[k] = a[Len(a)] /\ vs[1 + Len(a)] = b[1]
      BY <1>3, <1>7, <2>2
    <3>2. QED
      BY <1>1, <1>3, <1>4, <2>2, <3>1
  <2>3. CASE k > Len(a)
    <3> DEFINE i == k - Len(a)
    <3>1. i \in 1 .. Len(b) - 1 /\ i + 1 \in 1 .. Len(b) /\ i \in 1 .. Len(b)
          /\ i + Len(a) = k /\ (i + 1) + Len(a) = k + 1
      BY <1>3, <1>7a, <2>3
    <3> HIDE DEF i
    <3>2. vs[k] = b[i] /\ vs[k + 1] = b[i + 1]
      BY <1>7, <3>1
    <3>3. QED
      BY <3>1, <3>2 DEF AreLeaves
  <2>4. QED
    BY <1>3, <1>7, <2>1, <2>2, <2>3
<1>13. \A d \in v.start .. v.end : \E k \in 1 .. Len(vs) : d \in vs[k].start .. vs[k].end
  <2> SUFFICES ASSUME NEW d \in v.start .. v.end
               PROVE  \E k \in 1 .. Len(vs) : d \in vs[k].start .. vs[k].end
    OBVIOUS
  <2>1. CASE d =< mid
    <3>1. PICK k \in 1 .. Len(a) : d \in a[k].start .. a[k].end
      <4>1. d \in v.start .. mid
        BY <1>1, <2>1
      <4>2. QED
        BY <4>1 DEF AreLeaves, Feed!Window
    <3>2. k \in 1 .. Len(vs)
      BY <1>3, <1>7a
    <3>3. vs[k] = a[k]
      BY <1>7
    <3>4. QED
      BY <3>1, <3>2, <3>3
  <2>2. CASE d > mid
    <3>1. PICK k \in 1 .. Len(b) : d \in b[k].start .. b[k].end
      <4>1. d \in mid + 1 .. v.end
        BY <1>1, <2>2
      <4>2. QED
        BY <4>1 DEF AreLeaves, Feed!Window
    <3>2. k + Len(a) \in 1 .. Len(vs)
      BY <1>3, <1>7a
    <3>3. vs[k + Len(a)] = b[k]
      BY <1>7
    <3>4. QED
      BY <3>1, <3>2, <3>3
  <2>3. QED
    BY <1>1, <2>1, <2>2
<1>14. Len(vs) > 0
  BY <1>3, <1>7
<1>15. AreLeaves(vs, v, load, cap)
  BY <1>7, <1>9, <1>10, <1>11, <1>12, <1>13, <1>14 DEF AreLeaves
<1>16. QED
  BY <1>15 DEF vs

LEMMA LeavesTile ==
    ASSUME NEW w \in [start : Int, end : Int], w.start =< w.end, NEW cap \in Nat,
           NEW load, \A d \in w.start .. w.end : load[d] \in Nat
    PROVE  AreLeaves(Feed!Leaves(w, load, cap), w, load, cap)
<1>1. PICK f : IsWalk(f, w, load, cap) /\ Feed!Leaves(w, load, cap) = f[w]
  BY LeavesAreAWalk
<1> DEFINE wrong == {v \in Windows(w) : v.start =< v.end /\ ~AreLeaves(f[v], v, load, cap)}
           bad == {v.end - v.start : v \in wrong}
<1>2. w.start \in Int /\ w.end \in Int
  OBVIOUS
<1>3. \A v \in Windows(w) : /\ v \in [start : Int, end : Int] /\ v.start \in Int /\ v.end \in Int
                            /\ w.start =< v.start /\ v.end =< w.end
  BY <1>2 DEF Windows, Feed!Days
<1>4. w \in Windows(w)
  BY <1>2 DEF Windows, Feed!Days
<1>5. SUFFICES ASSUME bad # {} PROVE FALSE
  <2>1. SUFFICES ASSUME ~AreLeaves(f[w], w, load, cap) PROVE bad # {}
    BY <1>1
  <2>2. w \in wrong
    BY <1>4, <2>1
  <2> HIDE DEF wrong
  <2>3. QED
    BY <2>2
<1>6. PICK m \in bad : \A o \in bad : m =< o
  <2>1. \A v \in wrong : v.end - v.start \in Nat
    BY <1>3
  <2>2. bad \in SUBSET Nat
    BY <2>1
  <2> HIDE DEF bad
  <2>3. QED
    BY <1>5, <2>2, LeastNatural
<1>7. PICK v \in wrong : m = v.end - v.start
  OBVIOUS
<1>8. v \in Windows(w) /\ v.start =< v.end /\ ~AreLeaves(f[v], v, load, cap)
  OBVIOUS
<1>9. f[v] = Split(f, v, load, cap)
  BY <1>1, <1>8 DEF IsWalk
<1>10. Feed!LoadOf(v, load) \in Nat
  <2>1. \A d \in v.start .. v.end : load[d] \in Nat
    BY <1>2, <1>3, <1>8
  <2>2. QED
    BY <1>3, <1>8, <2>1, LoadsBound
<1>11. CASE Feed!LoadOf(v, load) > cap /\ Feed!Splittable(v)
  <2>1. PICK mid \in v.start .. v.end - 1 :
            Feed!Halves(v) = <<Feed!Window(v.start, mid), Feed!Window(mid + 1, v.end)>>
    BY <1>3, <1>8, <1>11, HalvesAre
  <2>2. ASSUME NEW i \in 1 .. 2 PROVE AreLeaves(f[Feed!Halves(v)[i]], Feed!Halves(v)[i], load, cap)
    <3> DEFINE u == Feed!Halves(v)[i]
    <3>1. u \in Windows(w) /\ u.end - u.start \in 0 .. v.end - v.start - 1
      BY <1>8, <1>11, HalvesAreShorter
    <3> HIDE DEF u
    <3>2. u.start \in Int /\ u.end \in Int
      BY <1>3, <3>1
    <3>3. ~(m =< u.end - u.start) /\ u.start =< u.end
      BY <1>3, <1>7, <1>8, <3>1, <3>2
    <3>4. u.end - u.start \notin bad
      BY <1>6, <3>3
    <3>5. AreLeaves(f[u], u, load, cap)
      BY <3>1, <3>3, <3>4
    <3>6. QED
      BY <3>5 DEF u
  <2>3. f[v] = f[Feed!Halves(v)[1]] \o f[Feed!Halves(v)[2]]
    BY <1>9, <1>11 DEF Split
  <2>4. /\ Feed!Halves(v)[1] = Feed!Window(v.start, mid)
        /\ Feed!Halves(v)[2] = Feed!Window(mid + 1, v.end)
    BY <2>1
  <2>5. /\ AreLeaves(f[Feed!Halves(v)[1]], Feed!Window(v.start, mid), load, cap)
        /\ AreLeaves(f[Feed!Halves(v)[2]], Feed!Window(mid + 1, v.end), load, cap)
    BY <2>2, <2>4
  <2>6. v \in [start : Int, end : Int]
    BY <1>3, <1>8
  <2> HIDE DEF wrong
  <2>7. AreLeaves(f[Feed!Halves(v)[1]] \o f[Feed!Halves(v)[2]], v, load, cap)
    BY <2>5, <2>6, LeavesOfHalves
  <2>8. QED
    BY <1>8, <2>3, <2>7
<1>12. CASE ~(Feed!LoadOf(v, load) > cap /\ Feed!Splittable(v))
  <2>1. f[v] = <<v>>
    BY <1>9, <1>12 DEF Split
  <2>2. Fits(v, load, cap)
    BY <1>10, <1>12 DEF Fits
  <2>3. QED
    BY <1>3, <1>8, <2>1, <2>2, LeafOfItself
<1>13. QED
  BY <1>11, <1>12

\* What a walk from day 0 counts as covered is whole, and ends where a day is over the cap.
LEMMA WalkIsWhole ==
    ASSUME NEW last \in Nat, NEW cap \in Nat, NEW load, \A d \in 0 .. last : load[d] \in Nat
    PROVE  LET w == Feed!Window(0, last)
               vs == Feed!Leaves(w, load, cap)
               through == Feed!CoveredThrough(w, Feed!FirstTruncated(w, load, cap))
           IN  /\ Feed!Tiles(vs, 0, last)
               /\ \A k \in DOMAIN vs : Feed!LoadOf(vs[k], load) =< cap \/ ~Feed!Splittable(vs[k])
               /\ Feed!WholeThrough(w, load, cap, through)
<1> DEFINE w == Feed!Window(0, last)
           vs == Feed!Leaves(w, load, cap)
           cut == {k \in DOMAIN vs : Feed!LoadOf(vs[k], load) > cap}
           first == Feed!FirstTruncated(w, load, cap)
           through == Feed!CoveredThrough(w, first)
<1>1. w \in [start : Int, end : Int] /\ w.start = 0 /\ w.end = last
  BY DEF Feed!Window
<1>2. first = IF cut = {} THEN Feed!None ELSE vs[Feed!Min(cut)].start
  BY DEF Feed!FirstTruncated
<1>3. through = IF first = Feed!None THEN last ELSE IF first > 0 THEN first - 1 ELSE Feed!None
  BY <1>1 DEF Feed!CoveredThrough, Feed!None
<1> HIDE DEF w, first, through
<1>4. AreLeaves(vs, w, load, cap)
  BY <1>1, LeavesTile
<1> HIDE DEF vs
<1>5. vs \in Seq([start : Int, end : Int]) /\ Len(vs) \in Nat /\ DOMAIN vs = 1 .. Len(vs) /\ Len(vs) > 0
  <2>1. vs \in Seq([start : Int, end : Int])
    BY <1>4 DEF AreLeaves
  <2>2. Len(vs) > 0
    BY <1>4 DEF AreLeaves
  <2>3. QED
    BY <2>1, <2>2
<1>6. \A k \in 1 .. Len(vs) : /\ vs[k] \in [start : Int, end : Int]
                              /\ vs[k].start \in Int /\ vs[k].end \in Int
                              /\ 0 =< vs[k].start /\ vs[k].start =< vs[k].end /\ vs[k].end =< last
                              /\ Fits(vs[k], load, cap)
  <2>1. \A k \in 1 .. Len(vs) : vs[k] \in [start : Int, end : Int]
    BY <1>5, Elements
  <2>2. QED
    BY <1>1, <1>4, <2>1 DEF AreLeaves
<1>7. ASSUME NEW k \in 1 .. Len(vs)
      PROVE  /\ Feed!LoadOf(vs[k], load) \in Nat
             /\ \A d \in vs[k].start .. vs[k].end : load[d] \in Nat /\ load[d] =< Feed!LoadOf(vs[k], load)
             /\ vs[k].start = vs[k].end => Feed!LoadOf(vs[k], load) = load[vs[k].start]
  <2> DEFINE v == vs[k]
  <2>1. v \in [start : Int, end : Int]
    BY <1>6
  <2>2. \A d \in v.start .. v.end : load[d] \in Nat
    BY <1>6
  <2> HIDE DEF v
  <2>3. /\ Feed!LoadOf(v, load) \in Nat
        /\ \A d \in v.start .. v.end : load[d] =< Feed!LoadOf(v, load)
        /\ v.start = v.end => Feed!LoadOf(v, load) = load[v.start]
    BY <2>1, <2>2, LoadsBound
  <2>4. QED
    BY <2>2, <2>3 DEF v
<1>8. Feed!Tiles(vs, 0, last)
  <2>1. vs # <<>> /\ Head(vs) = vs[1] /\ Feed!Last(vs) = vs[Len(vs)]
    BY <1>5 DEF Feed!Last
  <2>2. /\ vs[1].start = 0 /\ vs[Len(vs)].end = last
        /\ \A k \in 1 .. Len(vs) - 1 : vs[k + 1].start = vs[k].end + 1
    BY <1>1, <1>4 DEF AreLeaves
  <2>3. \A k \in 1 .. Len(vs) : vs[k].start =< vs[k].end
    BY <1>6
  <2>4. QED
    BY <2>1, <2>2, <2>3 DEF Feed!Tiles
<1>9. \A k \in DOMAIN vs : Feed!LoadOf(vs[k], load) =< cap \/ ~Feed!Splittable(vs[k])
  BY <1>5, <1>6 DEF Fits
\* A day of a leaf that is not cut is not over the cap.
<1>10. ASSUME NEW d \in 0 .. last, NEW k \in 1 .. Len(vs), d \in vs[k].start .. vs[k].end, k \notin cut
       PROVE  load[d] =< cap
  <2>1. ~(Feed!LoadOf(vs[k], load) > cap)
    BY <1>5, <1>10
  <2>2. Feed!LoadOf(vs[k], load) \in Nat /\ load[d] \in Nat /\ load[d] =< Feed!LoadOf(vs[k], load)
    BY <1>7, <1>10
  <2>3. QED
    BY <2>1, <2>2
<1>11. ASSUME NEW d \in 0 .. last PROVE \E k \in 1 .. Len(vs) : d \in vs[k].start .. vs[k].end
  BY <1>1, <1>4 DEF AreLeaves
<1>12. CASE cut = {}
  <2>1. through = last
    BY <1>2, <1>3, <1>12
  <2>2. \A e \in 0 .. last : load[e] =< cap
    BY <1>10, <1>11, <1>12
  <2>3. QED
    BY <1>1, <1>8, <1>9, <2>1, <2>2 DEF Feed!WholeThrough, w, vs, through, first
<1>13. CASE cut # {}
  <2>1. Feed!Min(cut) \in cut /\ \A k \in cut : Feed!Min(cut) =< k
    <3>1. cut \in SUBSET Nat
      BY <1>5
    <3> HIDE DEF cut
    <3>2. \E j \in cut : \A k \in cut : j =< k
      BY <1>13, <3>1, LeastNatural
    <3>3. QED
      BY <3>2 DEF Feed!Min
  <2> DEFINE m == Feed!Min(cut)
  <2>2. m \in 1 .. Len(vs) /\ Feed!LoadOf(vs[m], load) > cap
    BY <1>5, <2>1
  <2>3. first = vs[m].start
    BY <1>2, <1>13
  <2>10. \A k \in cut : m =< k
    BY <2>1
  <2> HIDE DEF m
  <2>4. first = vs[m].end /\ first \in 0 .. last
    <3>1. ~(Feed!LoadOf(vs[m], load) =< cap)
      BY <1>7, <2>2
    <3>2. ~(vs[m].end > vs[m].start)
      BY <1>6, <2>2, <3>1 DEF Fits, Feed!Splittable
    <3>3. QED
      BY <1>6, <2>2, <2>3, <3>2
  <2>5. load[first] > cap
    BY <1>7, <2>2, <2>3, <2>4
  <2>6. ASSUME NEW e \in 0 .. first - 1 PROVE load[e] =< cap
    <3>1. e \in 0 .. last /\ e < first
      BY <2>4
    <3>2. PICK k \in 1 .. Len(vs) : e \in vs[k].start .. vs[k].end
      BY <1>11, <3>1
    <3>3. ~(m < k)
      <4>1. m < k => vs[m].end < vs[k].start
        BY <1>4, <2>2 DEF AreLeaves
      <4>2. QED
        BY <1>6, <2>4, <3>1, <3>2, <4>1
    <3>4. k # m
      <4>1. vs[k].start \in Int /\ vs[k].end \in Int
        BY <1>6
      <4>2. vs[k].start =< e
        BY <3>1, <3>2, <4>1
      <4>3. QED
        BY <2>3, <3>1, <4>1, <4>2
    <3>5. k < m
      BY <1>5, <2>2, <3>3, <3>4
    <3>6. k \notin cut
      <4>1. ~(m =< k)
        BY <2>2, <3>5
      <4>2. QED
        BY <2>10, <4>1
    <3>7. QED
      BY <1>10, <3>1, <3>2, <3>6
  <2>7. through = first - 1
    BY <1>3, <2>4 DEF Feed!None
  <2>8. Feed!WholeThrough(w, load, cap, through)
    <3>1. through \in 0 - 1 .. last /\ through + 1 = first /\ through < last
      BY <2>4, <2>7
    <3>2. QED
      BY <1>1, <2>5, <2>6, <2>7, <3>1 DEF Feed!WholeThrough
  <2>9. QED
    BY <1>8, <1>9, <2>8 DEF w, vs, through, first
<1>14. QED
  BY <1>12, <1>13

-----------------------------------------------------------------------------
(* The split of the cap. *)

LEMMA KindsAre == Quotas!Kinds = {1, 2, 3, 4}
BY DEF Quotas!Kinds

LEMMA SumOfKinds ==
    ASSUME NEW h, \A t \in {1, 2, 3, 4} : h[t] \in Int
    PROVE  Quotas!MapThenSumSet(LAMBDA t : h[t], Quotas!Kinds) = h[1] + h[2] + h[3] + h[4]
<1> DEFINE S == {1, 2, 3, 4}
           f == CHOOSE g : AreSums(g, S, h)
<1>1. Quotas!MapThenSumSet(LAMBDA t : h[t], Quotas!Kinds) = f[S]
  BY KindsAre DEF Quotas!MapThenSumSet, Quotas!MapThenFoldSet, AreSums, Adding, OneOf
<1>2. IsFiniteSet(S)
  <2>1. S = 1 .. 4 /\ 1 \in Int /\ 4 \in Int
    OBVIOUS
  <2> HIDE DEF S
  <2>2. QED
    BY <2>1, FS_Interval
<1> HIDE DEF f
<1>3. AreSums(f, S, h)
  BY <1>2, SumsExist DEF f
<1>4. \A s \in SUBSET S : f[s] = IF s = {} THEN 0 ELSE h[OneOf(s)] + f[s \ {OneOf(s)}]
  BY <1>3 DEF AreSums, Adding
<1>5. \A s : s # {} => OneOf(s) \in s
  BY DEF OneOf
<1>6. f[{}] = 0
  BY <1>4
<1>7. ASSUME NEW a \in S PROVE f[{a}] = h[a]
  <2>1. OneOf({a}) = a /\ {a} \ {a} = {} /\ {a} # {} /\ {a} \in SUBSET S
    BY <1>5
  <2>2. f[{a}] = h[a] + f[{}]
    BY <1>4, <2>1
  <2>3. QED
    BY <1>6, <2>2
<1>8. ASSUME NEW a \in S, NEW b \in S, a # b PROVE f[{a, b}] = h[a] + h[b]
  <2>1. OneOf({a, b}) = a \/ OneOf({a, b}) = b
    BY <1>5
  <2>2. {a, b} \ {a} = {b} /\ {a, b} \ {b} = {a} /\ {a, b} # {} /\ {a, b} \in SUBSET S
    BY <1>8
  <2>3. f[{a, b}] = h[a] + f[{b}] \/ f[{a, b}] = h[b] + f[{a}]
    BY <1>4, <2>1, <2>2
  <2>4. f[{a}] = h[a] /\ f[{b}] = h[b] /\ h[a] \in Int /\ h[b] \in Int
    BY <1>7
  <2>5. QED
    BY <2>3, <2>4
<1>9. ASSUME NEW a \in S, NEW b \in S, NEW c \in S, a # b, a # c, b # c
      PROVE  f[{a, b, c}] = h[a] + h[b] + h[c]
  <2>1. OneOf({a, b, c}) = a \/ OneOf({a, b, c}) = b \/ OneOf({a, b, c}) = c
    BY <1>5
  <2>2. /\ {a, b, c} \ {a} = {b, c} /\ {a, b, c} \ {b} = {a, c} /\ {a, b, c} \ {c} = {a, b}
        /\ {a, b, c} # {} /\ {a, b, c} \in SUBSET S
    BY <1>9
  <2>3. \/ f[{a, b, c}] = h[a] + f[{b, c}]
        \/ f[{a, b, c}] = h[b] + f[{a, c}]
        \/ f[{a, b, c}] = h[c] + f[{a, b}]
    BY <1>4, <2>1, <2>2
  <2>4. f[{b, c}] = h[b] + h[c] /\ f[{a, c}] = h[a] + h[c] /\ f[{a, b}] = h[a] + h[b]
    BY <1>8, <1>9
  <2>5. QED
    BY <2>3, <2>4
<1>10. /\ S \ {1} = {2, 3, 4} /\ S \ {2} = {1, 3, 4}
       /\ S \ {3} = {1, 2, 4} /\ S \ {4} = {1, 2, 3}
  OBVIOUS
<1>11. OneOf(S) \in S /\ S # {} /\ S \in SUBSET S
  BY <1>5
<1>12. f[S] = h[OneOf(S)] + f[S \ {OneOf(S)}]
  BY <1>4, <1>11
<1>13. /\ f[{1, 2, 3}] = h[1] + h[2] + h[3] /\ f[{1, 2, 4}] = h[1] + h[2] + h[4]
       /\ f[{1, 3, 4}] = h[1] + h[3] + h[4] /\ f[{2, 3, 4}] = h[2] + h[3] + h[4]
  BY <1>9
<1>14. f[S] = h[1] + h[2] + h[3] + h[4]
  <2>1. \/ f[S] = h[1] + f[{2, 3, 4}]
        \/ f[S] = h[2] + f[{1, 3, 4}]
        \/ f[S] = h[3] + f[{1, 2, 4}]
        \/ f[S] = h[4] + f[{1, 2, 3}]
    BY <1>10, <1>11, <1>12
  <2>2. QED
    BY <1>13, <2>1
<1>15. QED
  BY <1>1, <1>14

\* One for a member, none for another.
One(p, t) == IF t \in p THEN 1 ELSE 0

LEMMA SizeOfPool ==
    ASSUME NEW p \in SUBSET {1, 2, 3, 4}
    PROVE  Quotas!Cardinality(p) = One(p, 1) + One(p, 2) + One(p, 3) + One(p, 4)
<1>1. Quotas!Cardinality(p) = Cardinality(p)
  BY DEF Quotas!Cardinality, Cardinality
<1>2. ASSUME NEW q, IsFiniteSet(q), Cardinality(q) \in Nat, NEW t, t \notin q
      PROVE  /\ IsFiniteSet(q \cup (p \cap {t}))
             /\ Cardinality(q \cup (p \cap {t})) = Cardinality(q) + One(p, t)
  <2>1. CASE t \in p
    <3>1. q \cup (p \cap {t}) = q \cup {t}
      BY <2>1
    <3>2. IsFiniteSet(q \cup {t}) /\ Cardinality(q \cup {t}) = Cardinality(q) + 1
      BY <1>2, FS_AddElement
    <3>3. QED
      BY <2>1, <3>1, <3>2 DEF One
  <2>2. CASE t \notin p
    <3>1. q \cup (p \cap {t}) = q
      BY <2>2
    <3>2. Cardinality(q) + One(p, t) = Cardinality(q)
      BY <1>2, <2>2 DEF One
    <3>3. QED
      BY <1>2, <3>1, <3>2
  <2>3. QED
    BY <2>1, <2>2
<1> DEFINE a == {} \cup (p \cap {1})
           b == a \cup (p \cap {2})
           c == b \cup (p \cap {3})
           d == c \cup (p \cap {4})
<1>3. One(p, 1) \in Nat /\ One(p, 2) \in Nat /\ One(p, 3) \in Nat /\ One(p, 4) \in Nat
  BY DEF One
<1>4. IsFiniteSet({}) /\ Cardinality({}) = 0
  BY FS_EmptySet
<1>5. IsFiniteSet(a) /\ Cardinality(a) = One(p, 1)
  <2>1. Cardinality({}) \in Nat /\ 1 \notin {}
    BY <1>4
  <2>2. IsFiniteSet(a) /\ Cardinality(a) = Cardinality({}) + One(p, 1)
    BY <1>2, <1>4, <2>1
  <2>3. QED
    BY <1>3, <1>4, <2>2
<1>6. IsFiniteSet(b) /\ Cardinality(b) = One(p, 1) + One(p, 2)
  <2>1. Cardinality(a) \in Nat /\ 2 \notin a
    BY <1>3, <1>5
  <2> HIDE DEF a
  <2>2. QED
    BY <1>2, <1>5, <2>1
<1>7. IsFiniteSet(c) /\ Cardinality(c) = One(p, 1) + One(p, 2) + One(p, 3)
  <2>1. Cardinality(b) \in Nat /\ 3 \notin b
    BY <1>3, <1>6
  <2> HIDE DEF b
  <2>2. QED
    BY <1>2, <1>6, <2>1
<1>8. IsFiniteSet(d) /\ Cardinality(d) = One(p, 1) + One(p, 2) + One(p, 3) + One(p, 4)
  <2>1. Cardinality(c) \in Nat /\ 4 \notin c
    BY <1>3, <1>7
  <2> HIDE DEF c
  <2>2. QED
    BY <1>2, <1>7, <2>1
<1>9. d = p
  OBVIOUS
<1>10. QED
  BY <1>1, <1>8, <1>9

\* A share each is no more than there is; without a share there is less than one each.
LEMMA ShareIs ==
    ASSUME NEW s \in Quotas!Stages, s.pool # {}
    PROVE  /\ Quotas!Share(s) \in Nat
           /\ Quotas!Share(s) = 0 =>
                s.budget < One(s.pool, 1) + One(s.pool, 2) + One(s.pool, 3) + One(s.pool, 4)
           /\ (IF 1 \in s.pool THEN Quotas!Share(s) ELSE 0)
                + (IF 2 \in s.pool THEN Quotas!Share(s) ELSE 0)
                + (IF 3 \in s.pool THEN Quotas!Share(s) ELSE 0)
                + (IF 4 \in s.pool THEN Quotas!Share(s) ELSE 0) =< s.budget
<1> DEFINE b == s.budget
           p == s.pool
           n == One(p, 1) + One(p, 2) + One(p, 3) + One(p, 4)
           h == b \div n
<1>1. b \in Nat /\ p \in SUBSET {1, 2, 3, 4} /\ p # {}
  BY KindsAre DEF Quotas!Stages
<1>2. Quotas!Share(s) = h
  BY <1>1, SizeOfPool DEF Quotas!Share
<1> HIDE DEF b, p
<1>3. n \in {1, 2, 3, 4}
  BY <1>1 DEF One
<1>4. h \in Nat /\ (h = 0 => b < n)
  <2>1. CASE n = 1
    BY <1>1, <2>1
  <2>2. CASE n = 2
    BY <1>1, <2>2
  <2>3. CASE n = 3
    BY <1>1, <2>3
  <2>4. CASE n = 4
    BY <1>1, <2>4
  <2>5. QED
    BY <1>3, <2>1, <2>2, <2>3, <2>4
<1>5. h * n =< b
  <2>1. CASE n = 1
    BY <1>1, <2>1
  <2>2. CASE n = 2
    BY <1>1, <2>2
  <2>3. CASE n = 3
    BY <1>1, <2>3
  <2>4. CASE n = 4
    BY <1>1, <2>4
  <2>5. QED
    BY <1>3, <2>1, <2>2, <2>3, <2>4
<1>6. (IF 1 \in p THEN h ELSE 0) + (IF 2 \in p THEN h ELSE 0)
          + (IF 3 \in p THEN h ELSE 0) + (IF 4 \in p THEN h ELSE 0) = h * n
  <2> DEFINE g == h
  <2>1. g \in Nat
    BY <1>4
  <2> HIDE DEF g
  <2>2. (IF 1 \in p THEN g ELSE 0) + (IF 2 \in p THEN g ELSE 0)
          + (IF 3 \in p THEN g ELSE 0) + (IF 4 \in p THEN g ELSE 0) = g * n
    BY <2>1 DEF One
  <2>3. QED
    BY <2>2 DEF g
<1>7. QED
  BY <1>2, <1>4, <1>5, <1>6 DEF b, p

\* What a round gives to a type: between nothing and a share, never more than it can use.
Take(s, available, t) ==
    IF t \in s.pool THEN Quotas!Least(Quotas!Share(s), Quotas!Most(0, available[t] - s.quotas[t])) ELSE 0

LEMMA RoundIs ==
    ASSUME NEW available \in [{1, 2, 3, 4} -> Nat], NEW s \in Quotas!Stages, s.budget > 0, s.pool # {}
    PROVE  LET r == Quotas!Round(s, available) IN
           /\ r \in Quotas!Stages
           /\ \A t \in {1, 2, 3, 4} : Take(s, available, t) \in Nat
           /\ \A t \in {1, 2, 3, 4} : r.quotas[t] = s.quotas[t] + Take(s, available, t)
           /\ r.budget = s.budget - (Take(s, available, 1) + Take(s, available, 2)
                                      + Take(s, available, 3) + Take(s, available, 4))
           /\ r.pool = {t \in s.pool : Take(s, available, t) < available[t] - s.quotas[t]}
<1> DEFINE r == Quotas!Round(s, available)
           take == [t \in {1, 2, 3, 4} |-> Take(s, available, t)]
<1>1. /\ s.quotas \in [{1, 2, 3, 4} -> Nat] /\ s.budget \in Nat /\ s.pool \in SUBSET {1, 2, 3, 4}
      /\ \A t \in {1, 2, 3, 4} : available[t] \in Nat /\ s.quotas[t] \in Nat
  BY KindsAre DEF Quotas!Stages
<1>2. Quotas!Share(s) \in Nat
  BY ShareIs
<1>3. \A t \in {1, 2, 3, 4} :
         /\ Take(s, available, t) \in Nat
         /\ t \in s.pool => Take(s, available, t) =< Quotas!Share(s)
         /\ t \notin s.pool => Take(s, available, t) = 0
  BY <1>1, <1>2 DEF Take, Quotas!Least, Quotas!Most
<1>4. Take(s, available, 1) + Take(s, available, 2)
        + Take(s, available, 3) + Take(s, available, 4) =< s.budget
  <2> DEFINE part(t) == IF t \in s.pool THEN Quotas!Share(s) ELSE 0
  <2>1. part(1) + part(2) + part(3) + part(4) =< s.budget
    BY ShareIs
  <2>2. \A t \in {1, 2, 3, 4} : part(t) \in Nat /\ Take(s, available, t) =< part(t)
    BY <1>2, <1>3
  <2> HIDE DEF part
  <2>3. QED
    BY <1>1, <1>3, <2>1, <2>2
<1>5. Quotas!MapThenSumSet(LAMBDA t : take[t], Quotas!Kinds)
        = Take(s, available, 1) + Take(s, available, 2)
            + Take(s, available, 3) + Take(s, available, 4)
  <2>1. \A t \in {1, 2, 3, 4} : take[t] \in Int /\ take[t] = Take(s, available, t)
    BY <1>3
  <2> HIDE DEF take
  <2>2. Quotas!MapThenSumSet(LAMBDA t : take[t], Quotas!Kinds) = take[1] + take[2] + take[3] + take[4]
    BY <2>1, SumOfKinds
  <2>3. QED
    BY <2>1, <2>2
<1>6. take = [t \in Quotas!Kinds |->
                 IF t \in s.pool
                 THEN Quotas!Least(Quotas!Share(s), Quotas!Most(0, Quotas!Room(s, available)[t])) ELSE 0]
  BY KindsAre DEF Take, Quotas!Room
<1>7. r = [quotas |-> [t \in {1, 2, 3, 4} |-> s.quotas[t] + take[t]],
           budget |-> s.budget - Quotas!MapThenSumSet(LAMBDA t : take[t], Quotas!Kinds),
           pool |-> {t \in s.pool : take[t] < Quotas!Room(s, available)[t]}]
  <2> HIDE DEF take
  <2>1. QED
    BY <1>6, KindsAre DEF Quotas!Round
<1>8. \A t \in {1, 2, 3, 4} : take[t] = Take(s, available, t)
                           /\ Quotas!Room(s, available)[t] = available[t] - s.quotas[t]
  BY KindsAre DEF Quotas!Room
<1> HIDE DEF r, take
<1>9. r.quotas = [t \in {1, 2, 3, 4} |-> s.quotas[t] + take[t]]
      /\ r.pool = {t \in s.pool : take[t] < Quotas!Room(s, available)[t]}
      /\ r.budget = s.budget - (Take(s, available, 1) + Take(s, available, 2)
                                 + Take(s, available, 3) + Take(s, available, 4))
  BY <1>5, <1>7
<1>10. r.pool = {t \in s.pool : Take(s, available, t) < available[t] - s.quotas[t]}
  BY <1>1, <1>8, <1>9
<1>11. \A t \in {1, 2, 3, 4} : r.quotas[t] = s.quotas[t] + Take(s, available, t)
  BY <1>8, <1>9
<1>12. r.budget \in Nat
  <2> DEFINE a == Take(s, available, 1)
             b == Take(s, available, 2)
             c == Take(s, available, 3)
             d == Take(s, available, 4)
  <2>1. /\ a \in Nat /\ b \in Nat /\ c \in Nat /\ d \in Nat
        /\ a + b + c + d =< s.budget /\ r.budget = s.budget - (a + b + c + d)
    BY <1>3, <1>4, <1>9
  <2> HIDE DEF a, b, c, d
  <2>2. QED
    BY <1>1, <2>1
<1>13. r.quotas \in [{1, 2, 3, 4} -> Nat]
  BY <1>1, <1>3, <1>8, <1>9
<1>14. r \in Quotas!Stages
  <2>1. r = [quotas |-> r.quotas, budget |-> r.budget, pool |-> r.pool]
    BY <1>7
  <2>2. r.pool \in SUBSET {1, 2, 3, 4}
    BY <1>1, <1>10
  <2>3. QED
    BY <1>12, <1>13, <2>1, <2>2, KindsAre DEF Quotas!Stages
<1>15. QED
  BY <1>3, <1>9, <1>10, <1>11, <1>14 DEF r

\* What can still be given, and to how many types.
Depth(s) == s.budget + One(s.pool, 1) + One(s.pool, 2) + One(s.pool, 3) + One(s.pool, 4)

LEMMA RoundsEnd ==
    ASSUME NEW available \in [{1, 2, 3, 4} -> Nat], NEW s \in Quotas!Stages,
           s.budget > 0, s.pool # {}, Quotas!Share(s) # 0
    PROVE  Depth(Quotas!Round(s, available)) < Depth(s)
<1> DEFINE r == Quotas!Round(s, available)
           T(t) == Take(s, available, t)
           X(t) == One(r.pool, t)
           Y(t) == One(s.pool, t)
<1>1. /\ r \in Quotas!Stages
      /\ \A t \in {1, 2, 3, 4} : T(t) \in Nat
      /\ r.budget = s.budget - (T(1) + T(2) + T(3) + T(4))
      /\ r.pool = {t \in s.pool : T(t) < available[t] - s.quotas[t]}
  BY RoundIs
<1>2. /\ s.budget \in Nat /\ s.pool \in SUBSET {1, 2, 3, 4}
      /\ \A t \in {1, 2, 3, 4} : available[t] \in Nat /\ s.quotas[t] \in Nat
  BY KindsAre DEF Quotas!Stages
<1>3. Quotas!Share(s) \in Nat \ {0}
  BY ShareIs
<1>4. ASSUME NEW t \in {1, 2, 3, 4}
      PROVE  /\ X(t) \in Nat /\ Y(t) \in Nat
             /\ X(t) =< Y(t) + T(t)
             /\ t \in s.pool => X(t) < Y(t) + T(t)
  <2>1. X(t) \in {0, 1} /\ Y(t) \in {0, 1}
    BY DEF One
  <2>2. T(t) \in Nat
    BY <1>1
  <2>3. t \in s.pool /\ t \in r.pool => T(t) > 0
    <3> SUFFICES ASSUME t \in s.pool, T(t) < available[t] - s.quotas[t] PROVE T(t) > 0
      BY <1>1
    <3>1. QED
      BY <1>2, <1>3 DEF Take, Quotas!Least, Quotas!Most
  <2>4. t \notin s.pool => t \notin r.pool
    BY <1>1
  <2> HIDE DEF r, T
  <2>5. QED
    BY <2>1, <2>2, <2>3, <2>4 DEF One
<1>5. PICK t \in {1, 2, 3, 4} : X(t) < Y(t) + T(t)
  BY <1>2, <1>4
<1>6. Depth(r) = s.budget - (T(1) + T(2) + T(3) + T(4)) + X(1) + X(2) + X(3) + X(4)
  BY <1>1 DEF Depth
<1>7. Depth(s) = s.budget + Y(1) + Y(2) + Y(3) + Y(4)
  BY DEF Depth
<1> HIDE DEF r, T, X, Y
<1>8. T(1) \in Nat /\ T(2) \in Nat /\ T(3) \in Nat /\ T(4) \in Nat
  BY <1>1
<1>9. /\ X(1) \in Nat /\ X(2) \in Nat /\ X(3) \in Nat /\ X(4) \in Nat
      /\ Y(1) \in Nat /\ Y(2) \in Nat /\ Y(3) \in Nat /\ Y(4) \in Nat
      /\ X(1) =< Y(1) + T(1) /\ X(2) =< Y(2) + T(2) /\ X(3) =< Y(3) + T(3) /\ X(4) =< Y(4) + T(4)
      /\ \/ X(1) < Y(1) + T(1) \/ X(2) < Y(2) + T(2)
         \/ X(3) < Y(3) + T(3) \/ X(4) < Y(4) + T(4)
  BY <1>4, <1>5
<1>10. Depth(r) < Depth(s)
  BY <1>2, <1>6, <1>7, <1>8, <1>9
<1>11. QED
  BY <1>10 DEF r

\* What a stage ends with, the stage after it taken from a table.
Filled(f, s, available) ==
    IF s.budget = 0 \/ s.pool = {} THEN s.quotas
    ELSE IF Quotas!Share(s) = 0 THEN Quotas!OneEach(s, available)
    ELSE f[Quotas!Round(s, available)]
IsFillTo(f, available, n) ==
    /\ f = [s \in Quotas!Stages |-> f[s]]
    /\ \A s \in Quotas!Stages : Depth(s) =< n => f[s] = Filled(f, s, available)
IsFill(f, available) == f = [s \in Quotas!Stages |-> Filled(f, s, available)]

LEMMA DepthIsNatural ==
    ASSUME NEW s \in Quotas!Stages
    PROVE  Depth(s) \in Nat /\ s.budget \in Nat /\ (Depth(s) = 0 => s.budget = 0)
BY DEF Depth, One, Quotas!Stages

LEMMA FillsExistTo ==
    ASSUME NEW available \in [{1, 2, 3, 4} -> Nat], NEW n \in Nat
    PROVE  \E f : IsFillTo(f, available, n)
<1> DEFINE bad == {m \in Nat : ~ \E f : IsFillTo(f, available, m)}
<1>1. SUFFICES ASSUME bad # {} PROVE FALSE
  <2>1. SUFFICES ASSUME ~ \E f : IsFillTo(f, available, n) PROVE bad # {}
    OBVIOUS
  <2>2. n \in bad
    BY <2>1
  <2>3. QED
    BY <2>2
<1>2. PICK m \in bad : \A o \in bad : m =< o
  <2>1. bad \in SUBSET Nat
    OBVIOUS
  <2> HIDE DEF bad
  <2>2. QED
    BY <1>1, <2>1, LeastNatural
<1>3. m \in Nat /\ ~ \E f : IsFillTo(f, available, m)
  OBVIOUS
<1>4. m # 0
  <2> DEFINE now == [s \in Quotas!Stages |-> s.quotas]
  <2>1. \A s \in Quotas!Stages : Depth(s) =< 0 => now[s] = Filled(now, s, available)
    <3> SUFFICES ASSUME NEW s \in Quotas!Stages, Depth(s) =< 0
                 PROVE  now[s] = Filled(now, s, available)
      OBVIOUS
    <3>1. s.budget = 0
      BY DepthIsNatural
    <3>2. QED
      BY <3>1 DEF Filled
  <2>2. now = [s \in Quotas!Stages |-> now[s]]
    OBVIOUS
  <2> HIDE DEF now
  <2>3. IsFillTo(now, available, 0)
    BY <2>1, <2>2 DEF IsFillTo
  <2>4. QED
    BY <1>3, <2>3
<1>5. PICK h : IsFillTo(h, available, m - 1)
  <2>1. m - 1 \in Nat /\ ~(m =< m - 1)
    BY <1>3, <1>4
  <2>2. m - 1 \notin bad
    BY <1>2, <2>1
  <2>3. QED
    BY <2>1, <2>2
<1> DEFINE g == [s \in Quotas!Stages |-> Filled(h, s, available)]
<1> HIDE DEF bad
<1>6. ASSUME NEW s \in Quotas!Stages, Depth(s) =< m PROVE g[s] = Filled(g, s, available)
  <2>1. CASE s.budget = 0 \/ s.pool = {} \/ Quotas!Share(s) = 0
    BY <2>1 DEF Filled
  <2>2. CASE ~(s.budget = 0 \/ s.pool = {} \/ Quotas!Share(s) = 0)
    <3> DEFINE r == Quotas!Round(s, available)
    <3>1. s.budget > 0 /\ s.pool # {} /\ Quotas!Share(s) # 0
      BY <2>2, DepthIsNatural
    <3>2. r \in Quotas!Stages
      BY <3>1, RoundIs
    <3>3. Depth(r) < Depth(s)
      BY <3>1, RoundsEnd
    <3> HIDE DEF r
    <3>4. Depth(r) \in Nat /\ Depth(s) \in Nat
      BY <3>2, DepthIsNatural
    <3>5. Depth(r) =< m - 1
      BY <1>3, <1>6, <3>3, <3>4
    <3>6. h[r] = Filled(h, r, available)
      BY <1>5, <3>2, <3>5 DEF IsFillTo
    <3>7. g[r] = h[r]
      BY <3>2, <3>6
    <3>8. g[s] = h[r]
      BY <2>2 DEF Filled, r
    <3> HIDE DEF g
    <3>9. QED
      BY <2>2, <3>7, <3>8 DEF Filled, r
  <2>3. QED
    BY <2>1, <2>2
<1>7. g = [s \in Quotas!Stages |-> g[s]]
  OBVIOUS
<1> HIDE DEF g
<1>8. IsFillTo(g, available, m)
  BY <1>6, <1>7 DEF IsFillTo
<1>9. QED
  BY <1>3, <1>8

\* Two tables for two bounds agree where both speak, so one table does for every stage.
LEMMA FillsAgree ==
    ASSUME NEW available \in [{1, 2, 3, 4} -> Nat], NEW f, NEW g,
           NEW m \in Nat, NEW n \in Nat, IsFillTo(f, available, m), IsFillTo(g, available, n),
           NEW s \in Quotas!Stages, Depth(s) =< m, Depth(s) =< n
    PROVE  f[s] = g[s]
<1> DEFINE Apart(q) == Depth(q) =< m /\ Depth(q) =< n /\ f[q] # g[q]
           bad == {Depth(q) : q \in {p \in Quotas!Stages : Apart(p)}}
<1>1. SUFFICES ASSUME bad # {} PROVE FALSE
  OBVIOUS
<1>2. PICK o \in bad : \A p \in bad : o =< p
  <2>1. bad \in SUBSET Nat
    BY DepthIsNatural
  <2> HIDE DEF bad
  <2>2. QED
    BY <1>1, <2>1, LeastNatural
<1>3. PICK q \in Quotas!Stages : Apart(q) /\ o = Depth(q)
  OBVIOUS
<1>4. f[q] = Filled(f, q, available) /\ g[q] = Filled(g, q, available)
  BY <1>3 DEF IsFillTo
<1>5. CASE q.budget = 0 \/ q.pool = {} \/ Quotas!Share(q) = 0
  BY <1>3, <1>4, <1>5 DEF Filled
<1>6. CASE ~(q.budget = 0 \/ q.pool = {} \/ Quotas!Share(q) = 0)
  <2> DEFINE r == Quotas!Round(q, available)
  <2>1. q.budget > 0 /\ q.pool # {} /\ Quotas!Share(q) # 0
    BY <1>6, DepthIsNatural
  <2>2. r \in Quotas!Stages
    BY <2>1, RoundIs
  <2>3. Depth(r) < Depth(q)
    BY <2>1, RoundsEnd
  <2>4. f[q] = f[r] /\ g[q] = g[r]
    BY <1>4, <1>6 DEF Filled
  <2> HIDE DEF r
  <2>5. Depth(r) \in Nat /\ Depth(q) \in Nat
    BY <2>2, DepthIsNatural
  <2>6. ~(Depth(q) =< Depth(r)) /\ Depth(r) =< m /\ Depth(r) =< n
    BY <1>3, <2>3, <2>5
  <2>7. Depth(r) \notin bad
    BY <1>2, <1>3, <2>6
  <2>8. f[r] = g[r]
    BY <2>2, <2>6, <2>7
  <2>9. QED
    BY <1>3, <2>4, <2>8
<1>7. QED
  BY <1>5, <1>6

LEMMA FillIs ==
    ASSUME NEW available \in [{1, 2, 3, 4} -> Nat]
    PROVE  IsFill(Quotas!Fill(available), available)
<1> DEFINE upTo(n) == CHOOSE f : IsFillTo(f, available, n)
           g == [s \in Quotas!Stages |-> upTo(Depth(s))[s]]
<1>1. ASSUME NEW n \in Nat PROVE IsFillTo(upTo(n), available, n)
  BY FillsExistTo
<1>2. ASSUME NEW s \in Quotas!Stages PROVE g[s] = Filled(g, s, available)
  <2> DEFINE f == upTo(Depth(s))
  <2>1. Depth(s) \in Nat /\ Depth(s) =< Depth(s)
    BY DepthIsNatural
  <2>2. IsFillTo(f, available, Depth(s))
    BY <1>1, <2>1
  <2>3. g[s] = f[s]
    OBVIOUS
  <2> HIDE DEF f, g
  <2>4. f[s] = Filled(f, s, available)
    BY <2>1, <2>2 DEF IsFillTo
  <2>5. CASE s.budget = 0 \/ s.pool = {} \/ Quotas!Share(s) = 0
    BY <2>3, <2>4, <2>5 DEF Filled
  <2>6. CASE ~(s.budget = 0 \/ s.pool = {} \/ Quotas!Share(s) = 0)
    <3> DEFINE r == Quotas!Round(s, available)
    <3>1. s.budget > 0 /\ s.pool # {} /\ Quotas!Share(s) # 0
      BY <2>6, DepthIsNatural
    <3>2. r \in Quotas!Stages
      BY <3>1, RoundIs
    <3>3. Depth(r) < Depth(s)
      BY <3>1, RoundsEnd
    <3>4. f[s] = f[r]
      BY <2>4, <2>6 DEF Filled
    <3>5. Filled(g, s, available) = g[r]
      BY <2>6 DEF Filled
    <3> HIDE DEF r
    <3>6. Depth(r) \in Nat /\ Depth(r) =< Depth(s) /\ Depth(r) =< Depth(r)
      BY <2>1, <3>2, <3>3, DepthIsNatural
    <3>7. g[r] = upTo(Depth(r))[r]
      BY <3>2 DEF g
    <3>8. IsFillTo(upTo(Depth(r)), available, Depth(r))
      BY <1>1, <3>6
    <3> HIDE DEF upTo
    <3>9. upTo(Depth(r))[r] = f[r]
      BY <2>1, <2>2, <3>2, <3>6, <3>8, FillsAgree
    <3>10. QED
      BY <2>3, <3>4, <3>5, <3>7, <3>9
  <2>7. QED
    BY <2>5, <2>6
<1>3. g = [s \in Quotas!Stages |-> g[s]]
  OBVIOUS
<1> HIDE DEF g
<1>4. IsFill(g, available)
  <2>1. g = [s \in Quotas!Stages |-> Filled(g, s, available)]
    BY <1>2, <1>3
  <2>2. QED
    BY <2>1 DEF IsFill
<1> DEFINE F == CHOOSE f : IsFill(f, available)
<1>5. Quotas!Fill(available) = F
  <2>1. ASSUME NEW f, NEW s \in Quotas!Stages
        PROVE  Filled(f, s, available) =
                 CASE s.budget = 0 \/ s.pool = {} -> s.quotas
                   [] s.budget > 0 /\ s.pool # {} /\ Quotas!Share(s) = 0 -> Quotas!OneEach(s, available)
                   [] OTHER -> f[Quotas!Round(s, available)]
    <3>1. s.budget \in Nat
      BY DepthIsNatural
    <3>2. s.budget > 0 <=> s.budget # 0
      BY <3>1
    <3>3. CASE s.budget = 0 \/ s.pool = {}
      BY <3>2, <3>3 DEF Filled
    <3>4. CASE ~(s.budget = 0 \/ s.pool = {}) /\ Quotas!Share(s) = 0
      BY <3>2, <3>4 DEF Filled
    <3>5. CASE ~(s.budget = 0 \/ s.pool = {}) /\ Quotas!Share(s) # 0
      BY <3>2, <3>5 DEF Filled
    <3>6. QED
      BY <3>3, <3>4, <3>5
  <2>2. \A f : [s \in Quotas!Stages |-> Filled(f, s, available)] =
               [s \in Quotas!Stages |->
                  CASE s.budget = 0 \/ s.pool = {} -> s.quotas
                    [] s.budget > 0 /\ s.pool # {} /\ Quotas!Share(s) = 0 -> Quotas!OneEach(s, available)
                    [] OTHER -> f[Quotas!Round(s, available)]]
    BY <2>1
  <2>3. QED
    BY <2>2 DEF Quotas!Fill, IsFill
<1> HIDE DEF F
<1>6. IsFill(F, available)
  BY <1>4 DEF F
<1>7. QED
  BY <1>5, <1>6

\* What a split promises.
SumOf(h) == h[1] + h[2] + h[3] + h[4]
IsFair(q, cap, available) ==
    /\ SumOf(q) =< cap
    /\ \A t \in {1, 2, 3, 4} : q[t] \in Nat /\ q[t] =< available[t]
    /\ \A t, u \in {1, 2, 3, 4} : q[t] + 1 < q[u] => q[t] = available[t]
    /\ cap < 4 \/ SumOf(q) = SumOf(available) \/ SumOf(q) = cap

\* A stage on the way there: whoever left the pool has all it can use, the others are level,
\* and when less than a unit each is left of a cap that had more, each of them can use one.
OnTheWay(s, cap, available) ==
    /\ s.budget + SumOf(s.quotas) = cap
    /\ \A t \in {1, 2, 3, 4} : s.quotas[t] =< available[t]
    /\ \A t \in {1, 2, 3, 4} : t \notin s.pool => s.quotas[t] = available[t]
    /\ \A t \in s.pool, u \in {1, 2, 3, 4} : s.quotas[u] =< s.quotas[t]
    /\ cap < 4 \/ s.budget >= 4 \/ \A t \in s.pool : s.quotas[t] < available[t]

LEMMA RoundKeepsLevel ==
    ASSUME NEW available \in [{1, 2, 3, 4} -> Nat], NEW cap \in Nat, NEW s \in Quotas!Stages,
           s.budget > 0, s.pool # {}, OnTheWay(s, cap, available)
    PROVE  OnTheWay(Quotas!Round(s, available), cap, available)
<1> DEFINE r == Quotas!Round(s, available)
           T(t) == Take(s, available, t)
           h == Quotas!Share(s)
<1>1. /\ r \in Quotas!Stages
      /\ \A t \in {1, 2, 3, 4} : T(t) \in Nat /\ r.quotas[t] = s.quotas[t] + T(t)
      /\ r.budget = s.budget - (T(1) + T(2) + T(3) + T(4))
      /\ r.pool = {t \in s.pool : T(t) < available[t] - s.quotas[t]}
  BY RoundIs
<1>2. /\ s.budget \in Nat /\ s.pool \in SUBSET {1, 2, 3, 4}
      /\ \A t \in {1, 2, 3, 4} : available[t] \in Nat /\ s.quotas[t] \in Nat
  BY KindsAre DEF Quotas!Stages
<1>3. h \in Nat
  BY ShareIs
<1>4. /\ s.budget + SumOf(s.quotas) = cap
      /\ \A t \in {1, 2, 3, 4} : s.quotas[t] =< available[t]
      /\ \A t \in {1, 2, 3, 4} : t \notin s.pool => s.quotas[t] = available[t]
      /\ \A t \in s.pool, u \in {1, 2, 3, 4} : s.quotas[u] =< s.quotas[t]
  BY DEF OnTheWay
<1>5. ASSUME NEW t \in {1, 2, 3, 4}
      PROVE  /\ t \notin s.pool => T(t) = 0
             /\ t \in s.pool => /\ T(t) =< h /\ T(t) =< available[t] - s.quotas[t]
                                /\ t \in r.pool => T(t) = h
                                /\ t \notin r.pool => T(t) = available[t] - s.quotas[t]
  <2>1. CASE t \notin s.pool
    BY <2>1 DEF Take
  <2>2. CASE t \in s.pool
    <3>1. T(t) = Quotas!Least(h, Quotas!Most(0, available[t] - s.quotas[t]))
      BY <2>2 DEF Take
    <3>2. available[t] - s.quotas[t] \in Nat
      BY <1>2, <1>4
    <3> HIDE DEF T, h, r
    <3>3. T(t) = IF h < available[t] - s.quotas[t] THEN h ELSE available[t] - s.quotas[t]
      BY <1>3, <3>1, <3>2 DEF Quotas!Least, Quotas!Most
    <3>4. t \in r.pool <=> T(t) < available[t] - s.quotas[t]
      BY <1>1, <2>2
    <3>5. QED
      BY <1>3, <2>2, <3>2, <3>3, <3>4
  <2>3. QED
    BY <2>1, <2>2
<1> HIDE DEF r, T, h
<1>6. r.budget + SumOf(r.quotas) = cap
  <2>1. T(1) \in Nat /\ T(2) \in Nat /\ T(3) \in Nat /\ T(4) \in Nat
    BY <1>1
  <2>2. /\ r.quotas[1] = s.quotas[1] + T(1) /\ r.quotas[2] = s.quotas[2] + T(2)
        /\ r.quotas[3] = s.quotas[3] + T(3) /\ r.quotas[4] = s.quotas[4] + T(4)
    BY <1>1
  <2>3. s.quotas[1] \in Nat /\ s.quotas[2] \in Nat /\ s.quotas[3] \in Nat /\ s.quotas[4] \in Nat
    BY <1>2
  <2>4. QED
    BY <1>1, <1>2, <1>4, <2>1, <2>2, <2>3 DEF SumOf
<1>7. ASSUME NEW t \in {1, 2, 3, 4}
      PROVE  /\ r.quotas[t] =< available[t]
             /\ t \notin r.pool => r.quotas[t] = available[t]
  <2>1. CASE t \in s.pool
    <3>1. r.quotas[t] = s.quotas[t] + T(t) /\ T(t) \in Nat
      BY <1>1
    <3>2. /\ T(t) =< available[t] - s.quotas[t]
          /\ t \notin r.pool => T(t) = available[t] - s.quotas[t]
      BY <1>5, <2>1
    <3>3. QED
      BY <1>2, <3>1, <3>2
  <2>2. CASE t \notin s.pool
    <3>1. T(t) = 0 /\ s.quotas[t] = available[t] /\ r.quotas[t] = s.quotas[t] + T(t)
      BY <1>1, <1>4, <1>5, <2>2
    <3>2. QED
      BY <1>2, <3>1
  <2>3. QED
    BY <2>1, <2>2
<1>8. ASSUME NEW t \in r.pool, NEW u \in {1, 2, 3, 4} PROVE r.quotas[u] =< r.quotas[t]
  <2>1. t \in s.pool /\ t \in {1, 2, 3, 4}
    BY <1>1, <1>2
  <2>2. T(t) = h /\ r.quotas[t] = s.quotas[t] + h
    BY <1>1, <1>5, <2>1
  <2>3. s.quotas[u] =< s.quotas[t]
    BY <1>4, <2>1
  <2>4. T(u) =< h
    BY <1>3, <1>5
  <2>5. r.quotas[u] = s.quotas[u] + T(u) /\ T(u) \in Nat
    BY <1>1
  <2>6. QED
    BY <1>2, <1>3, <2>1, <2>2, <2>3, <2>4, <2>5
<1>9. ASSUME NEW t \in r.pool PROVE r.quotas[t] < available[t]
  <2>1. t \in {1, 2, 3, 4} /\ T(t) < available[t] - s.quotas[t]
    BY <1>1, <1>2
  <2>2. r.quotas[t] = s.quotas[t] + T(t) /\ T(t) \in Nat
    BY <1>1, <2>1
  <2>3. QED
    BY <1>2, <2>1, <2>2
<1>10. QED
  BY <1>6, <1>7, <1>8, <1>9 DEF OnTheWay, r

\* Those who can use one come in order, and the first of them get one.
LEMMA OneEachIsFair ==
    ASSUME NEW available \in [{1, 2, 3, 4} -> Nat], NEW cap \in Nat, NEW s \in Quotas!Stages,
           s.budget > 0, s.pool # {}, Quotas!Share(s) = 0, OnTheWay(s, cap, available)
    PROVE  IsFair(Quotas!OneEach(s, available), cap, available)
<1> DEFINE open == {t \in s.pool : Quotas!Room(s, available)[t] > 0}
           ahead(t) == {u \in open : u < t}
           q == Quotas!OneEach(s, available)
           G(t) == IF t \in open /\ Quotas!Cardinality(ahead(t)) < s.budget THEN 1 ELSE 0
           A(t) == One(open, t)
<1>1. /\ s.budget \in Nat /\ s.pool \in SUBSET {1, 2, 3, 4}
      /\ \A t \in {1, 2, 3, 4} : available[t] \in Nat /\ s.quotas[t] \in Nat
  BY KindsAre DEF Quotas!Stages
<1>2. /\ s.budget + SumOf(s.quotas) = cap
      /\ \A t \in {1, 2, 3, 4} : s.quotas[t] =< available[t]
      /\ \A t \in {1, 2, 3, 4} : t \notin s.pool => s.quotas[t] = available[t]
      /\ \A t \in s.pool, u \in {1, 2, 3, 4} : s.quotas[u] =< s.quotas[t]
  BY DEF OnTheWay
<1>3. \A t \in {1, 2, 3, 4} : q[t] = s.quotas[t] + G(t)
  BY KindsAre DEF Quotas!OneEach
<1>4. open \in SUBSET {1, 2, 3, 4}
  BY <1>1
<1>5. \A t \in {1, 2, 3, 4} : t \in open <=> t \in s.pool /\ s.quotas[t] < available[t]
  BY <1>1, KindsAre DEF Quotas!Room
<1>6. s.budget < 4
  <2>1. s.budget < One(s.pool, 1) + One(s.pool, 2) + One(s.pool, 3) + One(s.pool, 4)
    BY ShareIs
  <2>2. QED
    BY <1>1, <2>1 DEF One
<1> HIDE DEF open, q
<1>7. /\ Quotas!Cardinality(ahead(1)) = 0
      /\ Quotas!Cardinality(ahead(2)) = A(1)
      /\ Quotas!Cardinality(ahead(3)) = A(1) + A(2)
      /\ Quotas!Cardinality(ahead(4)) = A(1) + A(2) + A(3)
  <2>1. \A t \in {1, 2, 3, 4} : ahead(t) \in SUBSET {1, 2, 3, 4}
    BY <1>4
  <2>2. \A t, u \in {1, 2, 3, 4} : u \in ahead(t) <=> u \in open /\ u < t
    OBVIOUS
  <2> HIDE DEF ahead
  <2>3. \A t \in {1, 2, 3, 4} : Quotas!Cardinality(ahead(t))
                               = One(ahead(t), 1) + One(ahead(t), 2)
                                   + One(ahead(t), 3) + One(ahead(t), 4)
    BY <2>1, SizeOfPool
  <2>4. \A t, u \in {1, 2, 3, 4} : One(ahead(t), u) = IF u < t THEN A(u) ELSE 0
    BY <2>2 DEF One
  <2>5. A(1) \in Nat /\ A(2) \in Nat /\ A(3) \in Nat
    BY DEF One
  <2>6. QED
    BY <2>3, <2>4, <2>5
<1>8. /\ G(1) = IF 1 \in open /\ 0 < s.budget THEN 1 ELSE 0
      /\ G(2) = IF 2 \in open /\ A(1) < s.budget THEN 1 ELSE 0
      /\ G(3) = IF 3 \in open /\ A(1) + A(2) < s.budget THEN 1 ELSE 0
      /\ G(4) = IF 4 \in open /\ A(1) + A(2) + A(3) < s.budget THEN 1 ELSE 0
  BY <1>7
<1> HIDE DEF ahead, G
<1>9. /\ G(1) \in {0, 1} /\ G(2) \in {0, 1} /\ G(3) \in {0, 1} /\ G(4) \in {0, 1}
      /\ G(1) + G(2) + G(3) + G(4) =< s.budget
      /\ \A t \in {1, 2, 3, 4} : G(t) \in {0, 1} /\ (t \notin open => G(t) = 0)
  BY <1>1, <1>8 DEF One
<1>10. SumOf(q) = SumOf(s.quotas) + (G(1) + G(2) + G(3) + G(4)) /\ SumOf(s.quotas) \in Nat
  <2>1. s.quotas[1] \in Nat /\ s.quotas[2] \in Nat /\ s.quotas[3] \in Nat /\ s.quotas[4] \in Nat
    BY <1>1
  <2>2. /\ q[1] = s.quotas[1] + G(1) /\ q[2] = s.quotas[2] + G(2)
        /\ q[3] = s.quotas[3] + G(3) /\ q[4] = s.quotas[4] + G(4)
    BY <1>3
  <2>3. QED
    BY <1>9, <2>1, <2>2 DEF SumOf
<1>11. SumOf(q) =< cap /\ (cap < 4 \/ SumOf(q) = cap)
  <2>1. SumOf(q) =< cap
    BY <1>1, <1>2, <1>9, <1>10
  <2>2. ASSUME cap >= 4 PROVE G(1) + G(2) + G(3) + G(4) = s.budget
    <3>1. \A t \in s.pool : s.quotas[t] < available[t]
      BY <1>1, <1>6, <2>2 DEF OnTheWay
    <3>2. \A t \in {1, 2, 3, 4} : t \in open <=> t \in s.pool
      BY <1>1, <1>5, <3>1
    <3>3. s.budget < A(1) + A(2) + A(3) + A(4)
      <4>1. s.budget < One(s.pool, 1) + One(s.pool, 2) + One(s.pool, 3) + One(s.pool, 4)
        BY ShareIs
      <4>2. QED
        BY <3>2, <4>1 DEF One
    <3>4. QED
      BY <1>1, <1>8, <3>3 DEF One
  <2>3. QED
    BY <1>1, <1>2, <1>10, <2>1, <2>2
<1>12. ASSUME NEW t \in {1, 2, 3, 4} PROVE q[t] \in Nat /\ q[t] =< available[t]
  BY <1>1, <1>2, <1>3, <1>5, <1>9
<1>13. ASSUME NEW t \in {1, 2, 3, 4}, NEW u \in {1, 2, 3, 4}, q[t] + 1 < q[u] PROVE q[t] = available[t]
  <2>1. CASE t \in s.pool
    <3>1. s.quotas[u] =< s.quotas[t] /\ q[t] = s.quotas[t] + G(t) /\ q[u] = s.quotas[u] + G(u)
      BY <1>2, <1>3, <2>1
    <3>2. QED
      BY <1>1, <1>9, <1>13, <3>1
  <2>2. CASE t \notin s.pool
    BY <1>1, <1>2, <1>3, <1>5, <1>9, <2>2
  <2>3. QED
    BY <2>1, <2>2
<1>14. QED
  BY <1>11, <1>12, <1>13 DEF IsFair, q

LEMMA EndIsFair ==
    ASSUME NEW available \in [{1, 2, 3, 4} -> Nat], NEW cap \in Nat, NEW s \in Quotas!Stages,
           s.budget = 0 \/ s.pool = {}, OnTheWay(s, cap, available)
    PROVE  IsFair(s.quotas, cap, available)
<1>1. /\ s.budget \in Nat /\ s.pool \in SUBSET {1, 2, 3, 4}
      /\ \A t \in {1, 2, 3, 4} : available[t] \in Nat /\ s.quotas[t] \in Nat
  BY KindsAre DEF Quotas!Stages
<1>2. SumOf(s.quotas) \in Nat
  BY <1>1 DEF SumOf
<1>3. SumOf(s.quotas) =< cap
  BY <1>1, <1>2 DEF OnTheWay
<1>4. ASSUME NEW t \in {1, 2, 3, 4}, NEW u \in {1, 2, 3, 4}, s.quotas[t] + 1 < s.quotas[u]
      PROVE  s.quotas[t] = available[t]
  BY <1>1, <1>4 DEF OnTheWay
<1>5. SumOf(s.quotas) = SumOf(available) \/ SumOf(s.quotas) = cap
  <2>1. CASE s.budget = 0
    BY <1>2, <2>1 DEF OnTheWay
  <2>2. CASE s.pool = {}
    BY <2>2 DEF OnTheWay, SumOf
  <2>3. QED
    BY <2>1, <2>2
<1>6. QED
  BY <1>1, <1>3, <1>4, <1>5 DEF IsFair, OnTheWay

LEMMA FillIsFair ==
    ASSUME NEW available \in [{1, 2, 3, 4} -> Nat], NEW cap \in Nat, NEW s \in Quotas!Stages,
           OnTheWay(s, cap, available)
    PROVE  IsFair(Quotas!Fill(available)[s], cap, available)
<1> DEFINE f == Quotas!Fill(available)
           Unfair(q) == OnTheWay(q, cap, available) /\ ~IsFair(f[q], cap, available)
           bad == {Depth(q) : q \in {p \in Quotas!Stages : Unfair(p)}}
<1>1. SUFFICES ASSUME bad # {} PROVE FALSE
  OBVIOUS
<1>2. PICK o \in bad : \A p \in bad : o =< p
  <2>1. bad \in SUBSET Nat
    BY DepthIsNatural
  <2> HIDE DEF bad
  <2>2. QED
    BY <1>1, <2>1, LeastNatural
<1>3. PICK q \in Quotas!Stages : Unfair(q) /\ o = Depth(q)
  OBVIOUS
<1>4. f[q] = Filled(f, q, available)
  BY FillIs DEF IsFill
<1>5. q.budget \in Nat
  BY DepthIsNatural
<1> HIDE DEF f
<1>6. CASE q.budget = 0 \/ q.pool = {}
  <2>1. f[q] = q.quotas
    BY <1>4, <1>6 DEF Filled
  <2>2. QED
    BY <1>3, <1>6, <2>1, EndIsFair
<1>7. CASE ~(q.budget = 0 \/ q.pool = {}) /\ Quotas!Share(q) = 0
  <2>1. f[q] = Quotas!OneEach(q, available) /\ q.budget > 0 /\ q.pool # {}
    BY <1>4, <1>5, <1>7 DEF Filled
  <2>2. QED
    BY <1>3, <1>7, <2>1, OneEachIsFair
<1>8. CASE ~(q.budget = 0 \/ q.pool = {}) /\ Quotas!Share(q) # 0
  <2> DEFINE r == Quotas!Round(q, available)
  <2>1. q.budget > 0 /\ q.pool # {} /\ Quotas!Share(q) # 0
    BY <1>5, <1>8
  <2>2. r \in Quotas!Stages
    BY <2>1, RoundIs
  <2>3. Depth(r) < Depth(q)
    BY <2>1, RoundsEnd
  <2>4. OnTheWay(r, cap, available)
    BY <1>3, <2>1, RoundKeepsLevel
  <2>5. f[q] = f[r]
    BY <1>4, <1>8 DEF Filled
  <2> HIDE DEF r
  <2>6. Depth(r) \in Nat /\ Depth(q) \in Nat
    BY <2>2, DepthIsNatural
  <2>7. Depth(r) \notin bad
    BY <1>2, <1>3, <2>3, <2>6
  <2>8. IsFair(f[r], cap, available)
    BY <2>2, <2>4, <2>7
  <2>9. QED
    BY <1>3, <2>5, <2>8
<1>9. QED
  BY <1>6, <1>7, <1>8

\* allocate_quotas, when no type has a limit of its own.
LEMMA SplitIsFair ==
    ASSUME NEW available \in [{1, 2, 3, 4} -> Nat], NEW cap \in Nat
    PROVE  Quotas!QuotasAreFair(cap, available)
<1> DEFINE none == [t \in Quotas!Kinds |-> Quotas!None]
           zero == [t \in Quotas!Kinds |-> 0]
           first == [quotas |-> zero, budget |-> cap, pool |-> Quotas!Kinds]
           q == Quotas!Fill(available)[first]
<1>1. first \in Quotas!Stages
  BY DEF Quotas!Stages
<1>2. OnTheWay(first, cap, available)
  BY KindsAre DEF OnTheWay, SumOf
<1>3. IsFair(q, cap, available)
  <2> HIDE DEF first
  <2>1. QED
    BY <1>1, <1>2, FillIsFair
<1>4. Quotas!AllocateQuotas(cap, available, none) = q
  <2> DEFINE pinned == {t \in Quotas!Kinds : none[t] # Quotas!None}
             quotas == [t \in Quotas!Kinds |->
                           IF t \in pinned THEN Quotas!Least(none[t], available[t]) ELSE 0]
             sum == Quotas!MapThenSumSet(LAMBDA t : quotas[t], pinned)
  <2>1. pinned = {}
    OBVIOUS
  <2>2. quotas = zero /\ Quotas!Kinds \ pinned = Quotas!Kinds
    BY <2>1
  <2>3. sum = 0
    <3> DEFINE f == CHOOSE g : AreSums(g, pinned, quotas)
    <3> HIDE DEF pinned, quotas
    <3>1. sum = f[pinned]
      BY DEF Quotas!MapThenSumSet, Quotas!MapThenFoldSet, AreSums, Adding, OneOf
    <3> HIDE DEF f
    <3>2. IsFiniteSet(pinned)
      BY <2>1, FS_EmptySet
    <3>3. AreSums(f, pinned, quotas)
      BY <3>2, SumsExist DEF f
    <3>4. f[pinned] = 0
      BY <2>1, <3>3 DEF AreSums, Adding
    <3>5. QED
      BY <3>1, <3>4
  <2>4. Quotas!Most(0, cap - sum) = cap
    BY <2>3 DEF Quotas!Most
  <2>5. Quotas!AllocateQuotas(cap, available, none)
          = Quotas!Fill(available)[[quotas |-> quotas, budget |-> Quotas!Most(0, cap - sum),
                                    pool |-> Quotas!Kinds \ pinned]]
    BY DEF Quotas!AllocateQuotas
  <2> HIDE DEF pinned, quotas, sum
  <2>6. QED
    BY <2>2, <2>4, <2>5
<1> HIDE DEF q
<1>5. Quotas!MapThenSumSet(LAMBDA t : q[t], Quotas!Kinds) = SumOf(q)
  <2>1. \A t \in {1, 2, 3, 4} : q[t] \in Int
    BY <1>3 DEF IsFair
  <2>2. QED
    BY <2>1, SumOfKinds DEF SumOf
<1>6. Quotas!MapThenSumSet(LAMBDA t : available[t], Quotas!Kinds) = SumOf(available)
  <2>1. \A t \in {1, 2, 3, 4} : available[t] \in Int
    OBVIOUS
  <2>2. QED
    BY <2>1, SumOfKinds DEF SumOf
<1>7. Len(<<"MOVIE", "SERIES", "BOOK", "GAME">>) = 4
  OBVIOUS
<1>8. QED
  <2> DEFINE a == Quotas!AllocateQuotas(cap, available, none)
  <2>1. a = q
    BY <1>4
  <2> HIDE DEF none
  <2>2. /\ Quotas!MapThenSumSet(LAMBDA t : a[t], Quotas!Kinds) =< cap
        /\ \A t \in Quotas!Kinds : a[t] =< available[t]
        /\ \A t, u \in Quotas!Kinds : a[t] + 1 < a[u] => a[t] = available[t]
    BY <1>3, <1>5, <2>1, KindsAre DEF IsFair
  <2>3. ASSUME cap >= 4
        PROVE  Quotas!MapThenSumSet(LAMBDA t : a[t], Quotas!Kinds)
                 = Quotas!Least(cap, Quotas!MapThenSumSet(LAMBDA t : available[t], Quotas!Kinds))
    <3>1. \A t \in {1, 2, 3, 4} : q[t] \in Nat /\ available[t] \in Nat /\ q[t] =< available[t]
      BY <1>3 DEF IsFair
    <3>2. SumOf(q) \in Nat /\ SumOf(available) \in Nat /\ SumOf(q) =< SumOf(available)
      <4>1. /\ q[1] \in Nat /\ q[2] \in Nat /\ q[3] \in Nat /\ q[4] \in Nat
            /\ available[1] \in Nat /\ available[2] \in Nat
            /\ available[3] \in Nat /\ available[4] \in Nat
            /\ q[1] =< available[1] /\ q[2] =< available[2]
            /\ q[3] =< available[3] /\ q[4] =< available[4]
        BY <3>1
      <4>2. QED
        BY <4>1 DEF SumOf
    <3>3. SumOf(q) =< cap /\ (SumOf(q) = SumOf(available) \/ SumOf(q) = cap)
      BY <1>3, <2>3 DEF IsFair
    <3>4. SumOf(q) = Quotas!Least(cap, SumOf(available))
      BY <3>2, <3>3 DEF Quotas!Least
    <3>5. QED
      BY <1>5, <1>6, <2>1, <3>4
  <2>4. QED
    BY <1>7, <2>2, <2>3 DEF Quotas!QuotasAreFair, none

-----------------------------------------------------------------------------
(* The genres of a book. *)

\* Where the entry at i of a sequence without its entry at k was before.
Before(k, i) == IF i < k THEN i ELSE i + 1

LEMMA RemovedIs ==
    ASSUME NEW T, NEW s \in Seq(T), NEW k \in 1 .. Len(s)
    PROVE  /\ Genres!RemoveAt(s, k) \in Seq(T)
           /\ Len(Genres!RemoveAt(s, k)) = Len(s) - 1
           /\ \A i \in 1 .. Len(s) - 1 : Genres!RemoveAt(s, k)[i] = s[Before(k, i)]
<1> DEFINE before == SubSeq(s, 1, k - 1)
           after == SubSeq(s, k + 1, Len(s))
<1>1. before \in Seq(T) /\ Len(before) = k - 1 /\ \A i \in 1 .. k - 1 : before[i] = s[i]
  OBVIOUS
<1>2. after \in Seq(T) /\ Len(after) = Len(s) - k /\ \A i \in 1 .. Len(s) - k : after[i] = s[k + i]
  OBVIOUS
<1>3. Genres!RemoveAt(s, k) = before \o after
  BY DEF Genres!RemoveAt
<1> HIDE DEF before, after
<1>4. before \o after \in Seq(T) /\ Len(before \o after) = Len(s) - 1
  <2>1. before \in Seq(T) /\ after \in Seq(T)
    BY <1>1, <1>2
  <2>2. before \o after \in Seq(T) /\ Len(before \o after) = Len(before) + Len(after)
    BY <2>1
  <2>3. (k - 1) + (Len(s) - k) = Len(s) - 1
    OBVIOUS
  <2>4. QED
    BY <1>1, <1>2, <2>2, <2>3
<1>5. ASSUME NEW i \in 1 .. Len(s) - 1 PROVE (before \o after)[i] = s[Before(k, i)]
  <2>1. CASE i < k
    BY <1>1, <1>2, <2>1 DEF Before
  <2>2. CASE ~(i < k)
    <3>1. (before \o after)[i] = after[i - (k - 1)]
      BY <1>1, <1>2, <2>2
    <3>2. i - (k - 1) \in 1 .. Len(s) - k /\ k + (i - (k - 1)) = i + 1
      BY <2>2
    <3>3. QED
      BY <1>2, <2>2, <3>1, <3>2 DEF Before
  <2>3. QED
    BY <2>1, <2>2
<1>6. QED
  BY <1>3, <1>4, <1>5

\* All places but k, in order.
LEMMA BeforeIs ==
    ASSUME NEW n \in Nat, NEW k \in 1 .. n
    PROVE  /\ \A i \in 1 .. n - 1 : Before(k, i) \in (1 .. n) \ {k}
           /\ \A j \in (1 .. n) \ {k} : \E i \in 1 .. n - 1 : j = Before(k, i)
           /\ \A i, j \in 1 .. n - 1 : i =< j <=> Before(k, i) =< Before(k, j)
<1>1. \A i \in 1 .. n - 1 : Before(k, i) \in (1 .. n) \ {k}
  BY DEF Before
<1>2. ASSUME NEW j \in (1 .. n) \ {k} PROVE \E i \in 1 .. n - 1 : j = Before(k, i)
  <2>1. CASE j < k
    <3>1. j \in 1 .. n - 1
      BY <2>1
    <3> WITNESS j \in 1 .. n - 1
    <3>2. QED
      BY <2>1 DEF Before
  <2>2. CASE j > k
    <3>1. j - 1 \in 1 .. n - 1
      BY <2>2
    <3> WITNESS j - 1 \in 1 .. n - 1
    <3>2. QED
      BY <2>2 DEF Before
  <2>3. QED
    BY <2>1, <2>2
<1>3. \A i, j \in 1 .. n - 1 : i =< j <=> Before(k, i) =< Before(k, j)
  BY DEF Before
<1>4. QED
  BY <1>1, <1>2, <1>3

LEMMA LeastIsMin ==
    ASSUME NEW S \in SUBSET Nat, NEW m \in S, \A y \in S : m =< y
    PROVE  Genres!Min(S) = m
<1>1. Genres!Min(S) \in S /\ \A y \in S : Genres!Min(S) =< y
  BY DEF Genres!Min
<1>2. Genres!Min(S) =< m /\ m =< Genres!Min(S)
  BY <1>1
<1>3. Genres!Min(S) \in Nat /\ m \in Nat
  BY <1>1
<1>4. QED
  BY <1>2, <1>3

LEMMA SameCardinality == \A S : Genres!Cardinality(S) = Cardinality(S)
BY DEF Genres!Cardinality, Cardinality

LEMMA VotesAreNaturals ==
    ASSUME NEW T, NEW s \in Seq(T), NEW key
    PROVE  Genres!Votes(s, key) \in 0 .. Len(s)
<1> DEFINE for == {i \in DOMAIN s : Genres!LccKey(s[i]) = key}
<1>1. Genres!Votes(s, key) = Cardinality(for)
  BY SameCardinality DEF Genres!Votes
<1>2. DOMAIN s = 1 .. Len(s) /\ Len(s) \in Nat
  OBVIOUS
<1>3. IsFiniteSet(1 .. Len(s)) /\ Cardinality(1 .. Len(s)) = Len(s)
  BY <1>2, FS_Interval
<1>4. for \subseteq 1 .. Len(s)
  BY <1>2
<1> HIDE DEF for
<1>5. IsFiniteSet(for) /\ Cardinality(for) =< Cardinality(1 .. Len(s))
  BY <1>3, <1>4, FS_Subset
<1>6. Cardinality(for) \in Nat
  BY <1>5, FS_CardinalityType
<1>7. QED
  BY <1>1, <1>2, <1>3, <1>5, <1>6

\* A call number that is taken away takes one vote from its own class and none from another.
LEMMA VotesWithout ==
    ASSUME NEW T, NEW s \in Seq(T), NEW k \in 1 .. Len(s), NEW key
    PROVE  Genres!Votes(Genres!RemoveAt(s, k), key)
             = Genres!Votes(s, key) - (IF Genres!LccKey(s[k]) = key THEN 1 ELSE 0)
<1> DEFINE u == Genres!RemoveAt(s, k)
           for == {i \in DOMAIN s : Genres!LccKey(s[i]) = key}
           left == {i \in DOMAIN u : Genres!LccKey(u[i]) = key}
           f == [j \in for \ {k} |-> IF j < k THEN j ELSE j - 1]
<1>1. Genres!Votes(s, key) = Cardinality(for) /\ Genres!Votes(u, key) = Cardinality(left)
  BY SameCardinality DEF Genres!Votes
<1>2. /\ u \in Seq(T) /\ Len(u) = Len(s) - 1
      /\ \A i \in 1 .. Len(s) - 1 : u[i] = s[Before(k, i)]
  BY RemovedIs
<1>3. DOMAIN s = 1 .. Len(s) /\ Len(s) \in Nat
  OBVIOUS
<1>4. DOMAIN u = 1 .. Len(s) - 1
  BY <1>2, <1>3
<1> HIDE DEF u
<1>5. IsFiniteSet(for) /\ IsFiniteSet(for \ {k})
  <2>1. IsFiniteSet(1 .. Len(s))
    BY <1>3, FS_Interval
  <2>2. QED
    BY <1>3, <2>1, FS_Subset
<1>6. f \in Bijection(for \ {k}, left)
  <2>1. ASSUME NEW j \in for \ {k} PROVE f[j] \in left /\ Before(k, f[j]) = j
    <3>1. j \in (1 .. Len(s)) \ {k} /\ Genres!LccKey(s[j]) = key
      BY <1>3
    <3>2. f[j] \in 1 .. Len(s) - 1 /\ Before(k, f[j]) = j
      BY <3>1 DEF Before
    <3>3. Genres!LccKey(u[f[j]]) = key
      BY <1>2, <3>1, <3>2
    <3> HIDE DEF f
    <3>4. QED
      BY <1>4, <3>2, <3>3
  <2>2. ASSUME NEW i \in left PROVE \E j \in for \ {k} : f[j] = i
    <3>1. i \in 1 .. Len(s) - 1 /\ Genres!LccKey(u[i]) = key
      BY <1>4
    <3>2. Before(k, i) \in (1 .. Len(s)) \ {k}
      BY <1>3, <3>1, BeforeIs
    <3>3. Before(k, i) \in for \ {k}
      BY <1>2, <1>3, <3>1, <3>2
    <3>4. f[Before(k, i)] = i
      BY <3>1, <3>3 DEF Before
    <3> HIDE DEF f, for
    <3>5. QED
      BY <3>3, <3>4
  <2>3. f \in [for \ {k} -> left]
    BY <2>1
  <2> HIDE DEF f, left, for
  <2>4. f \in Injection(for \ {k}, left)
    BY <2>1, <2>3 DEF Injection, IsInjective
  <2>5. f \in Surjection(for \ {k}, left)
    BY <2>2, <2>3 DEF Surjection
  <2>6. QED
    BY <2>4, <2>5 DEF Bijection
<1>7. Cardinality(left) = Cardinality(for \ {k})
  <2> HIDE DEF f, left, for
  <2>1. ExistsBijection(for \ {k}, left)
    BY <1>6 DEF ExistsBijection
  <2>2. QED
    BY <1>5, <2>1, FS_Bijection
<1>8. CASE Genres!LccKey(s[k]) = key
  <2>1. k \in for
    BY <1>3, <1>8
  <2> HIDE DEF for, left
  <2>2. Cardinality(for \ {k}) = Cardinality(for) - 1
    BY <1>5, <2>1, FS_RemoveElement
  <2>3. QED
    BY <1>1, <1>7, <1>8, <2>2 DEF u
<1>9. CASE Genres!LccKey(s[k]) # key
  <2>1. for \ {k} = for
    BY <1>9
  <2> HIDE DEF for, left
  <2>2. Cardinality(for) \in Nat
    BY <1>5, FS_CardinalityType
  <2>3. Genres!Votes(u, key) = Genres!Votes(s, key) /\ Genres!Votes(s, key) \in Nat
    BY <1>1, <1>7, <2>1, <2>2
  <2>4. QED
    BY <1>9, <2>3 DEF u
<1>10. QED
  BY <1>8, <1>9

\* Taking away a call number of a class that another outdoes leaves the leading ones.
LEMMA StrayDoesNotLead ==
    ASSUME NEW T, NEW s \in Seq(T), NEW k \in 1 .. Len(s), NEW j \in Genres!Classed(s),
           Genres!Votes(s, Genres!LccKey(s[j])) > Genres!Votes(s, Genres!LccKey(s[k]))
    PROVE  /\ k \notin Genres!Leading(s)
           /\ \A i \in 1 .. Len(s) - 1 :
                i \in Genres!Leading(Genres!RemoveAt(s, k)) <=> Before(k, i) \in Genres!Leading(s)
<1> DEFINE u == Genres!RemoveAt(s, k)
           Of(i) == Genres!LccKey(s[i])
           V(i) == Genres!Votes(s, Of(i))
           W(i) == Genres!Votes(u, Of(i))
<1>1. /\ \A i \in 1 .. Len(s) - 1 : u[i] = s[Before(k, i)]
      /\ DOMAIN u = 1 .. Len(s) - 1
      /\ DOMAIN s = 1 .. Len(s) /\ Len(s) \in Nat
  BY RemovedIs
<1>2. /\ \A i : V(i) \in Nat
      /\ \A i : W(i) = IF Of(k) = Of(i) THEN V(i) - 1 ELSE V(i)
  BY VotesAreNaturals, VotesWithout
<1>3. \A i \in 1 .. Len(s) :
         i \in Genres!Leading(s) <=>
            /\ Of(i) # <<>>
            /\ \A l \in 1 .. Len(s) : Of(l) # <<>> => V(l) =< V(i)
  BY <1>1 DEF Genres!Leading, Genres!Classed
<1>4. \A i \in 1 .. Len(s) - 1 :
         i \in Genres!Leading(u) <=>
            /\ Of(Before(k, i)) # <<>>
            /\ \A l \in 1 .. Len(s) - 1 : Of(Before(k, l)) # <<>> => W(Before(k, l)) =< W(Before(k, i))
  <2> HIDE DEF u
  <2>1. \A i \in DOMAIN u : u[i] = s[Before(k, i)]
    BY <1>1
  <2>2. \A i \in 1 .. Len(s) - 1 : i \in Genres!Classed(u) <=> Of(Before(k, i)) # <<>>
    BY <1>1 DEF Genres!Classed
  <2>3. Genres!Classed(u) \subseteq 1 .. Len(s) - 1
    BY <1>1 DEF Genres!Classed
  <2>4. ASSUME NEW i \in 1 .. Len(s) - 1
        PROVE  i \in Genres!Leading(u) <=>
                 /\ i \in Genres!Classed(u)
                 /\ \A l \in Genres!Classed(u) : W(Before(k, l)) =< W(Before(k, i))
    BY <1>1, <2>3 DEF Genres!Leading
  <2> HIDE DEF Of, W
  <2>5. QED
    BY <2>2, <2>3, <2>4
<1>5. /\ \A i \in 1 .. Len(s) - 1 : Before(k, i) \in (1 .. Len(s)) \ {k}
      /\ \A l \in (1 .. Len(s)) \ {k} : \E i \in 1 .. Len(s) - 1 : l = Before(k, i)
  BY <1>1, BeforeIs
<1>6. j \in 1 .. Len(s) /\ Of(j) # <<>> /\ V(j) > V(k)
  BY <1>1 DEF Genres!Classed
<1>7. Of(j) # Of(k) /\ j # k
  BY <1>2, <1>6
<1>8. \A i, l : Of(i) = Of(l) => V(i) = V(l)
  OBVIOUS
<1> HIDE DEF u, Of, V, W
<1>9. k \notin Genres!Leading(s)
  BY <1>2, <1>3, <1>6
<1>10. ASSUME NEW i \in 1 .. Len(s) - 1, Before(k, i) \in Genres!Leading(s)
       PROVE  i \in Genres!Leading(u)
  <2>1. Of(Before(k, i)) # <<>> /\ \A l \in 1 .. Len(s) : Of(l) # <<>> => V(l) =< V(Before(k, i))
    BY <1>3, <1>5, <1>10
  <2>2. V(j) =< V(Before(k, i))
    BY <1>6, <2>1
  <2>3. Of(Before(k, i)) # Of(k)
    BY <1>2, <1>6, <1>8, <2>2
  <2>4. W(Before(k, i)) = V(Before(k, i))
    BY <1>2, <2>3
  <2>5. ASSUME NEW l \in 1 .. Len(s) - 1, Of(Before(k, l)) # <<>> PROVE W(Before(k, l)) =< W(Before(k, i))
    <3>1. V(Before(k, l)) =< V(Before(k, i))
      BY <1>5, <2>1, <2>5
    <3>2. W(Before(k, l)) =< V(Before(k, l))
      BY <1>2
    <3>3. QED
      BY <1>2, <2>4, <3>1, <3>2
  <2>6. QED
    BY <1>4, <2>1, <2>5
<1>11. ASSUME NEW i \in 1 .. Len(s) - 1, i \in Genres!Leading(u)
       PROVE  Before(k, i) \in Genres!Leading(s)
  <2>1. /\ Of(Before(k, i)) # <<>>
        /\ \A l \in 1 .. Len(s) - 1 : Of(Before(k, l)) # <<>> => W(Before(k, l)) =< W(Before(k, i))
    BY <1>4, <1>11
  <2>2. \A l \in (1 .. Len(s)) \ {k} : Of(l) # <<>> => W(l) =< W(Before(k, i))
    BY <1>5, <2>1
  <2>3. W(Before(k, i)) =< V(Before(k, i))
    BY <1>2
  <2>4. W(j) =< W(Before(k, i)) /\ W(j) = V(j)
    BY <1>2, <1>6, <1>7, <2>2
  <2>5. ASSUME NEW l \in 1 .. Len(s), Of(l) # <<>> PROVE V(l) =< V(Before(k, i))
    <3>1. CASE Of(l) = Of(k)
      <4>1. V(l) = V(k)
        BY <1>8, <3>1
      <4>2. QED
        BY <1>2, <1>6, <2>3, <2>4, <4>1
    <3>2. CASE Of(l) # Of(k)
      <4>1. l # k /\ W(l) = V(l)
        BY <1>2, <3>2
      <4>2. W(l) =< W(Before(k, i))
        BY <2>2, <2>5, <4>1
      <4>3. QED
        BY <1>2, <2>3, <4>1, <4>2
    <3>3. QED
      BY <3>1, <3>2
  <2>6. QED
    BY <1>3, <1>5, <2>1, <2>5
<1>12. QED
  BY <1>9, <1>10, <1>11 DEF u

\* The class with most votes exists.
LEMMA SomeClassLeads ==
    ASSUME NEW T, NEW s \in Seq(T), Genres!Classed(s) # {}
    PROVE  Genres!Leading(s) # {}
<1> DEFINE V(i) == Genres!Votes(s, Genres!LccKey(s[i]))
           short == {Len(s) - V(i) : i \in Genres!Classed(s)}
<1>1. \A i : V(i) \in 0 .. Len(s)
  BY VotesAreNaturals
<1>2. short \in SUBSET Nat /\ short # {}
  BY <1>1
<1>3. PICK x \in short : \A y \in short : x =< y
  <2> HIDE DEF short
  <2>1. QED
    BY <1>2, LeastNatural
<1>4. PICK i \in Genres!Classed(s) : x = Len(s) - V(i)
  OBVIOUS
<1>5. ASSUME NEW l \in Genres!Classed(s) PROVE V(l) =< V(i)
  <2>1. Len(s) - V(i) =< Len(s) - V(l)
    BY <1>3, <1>4
  <2> HIDE DEF V
  <2>2. QED
    BY <1>1, <2>1
<1>6. i \in Genres!Leading(s)
  BY <1>5 DEF Genres!Leading
<1>7. QED
  BY <1>6

\* So the leading class stays.
LEMMA StrayLeavesGenres ==
    ASSUME NEW T, NEW s \in Seq(T), NEW k \in 1 .. Len(s), NEW j \in Genres!Classed(s),
           Genres!Votes(s, Genres!LccKey(s[j])) > Genres!Votes(s, Genres!LccKey(s[k]))
    PROVE  Genres!LccGenres(Genres!RemoveAt(s, k)) = Genres!LccGenres(s)
<1> DEFINE u == Genres!RemoveAt(s, k)
           L == Genres!Leading(s)
           M == Genres!Leading(u)
<1>1. /\ u \in Seq(T) /\ Len(u) = Len(s) - 1
      /\ \A i \in 1 .. Len(s) - 1 : u[i] = s[Before(k, i)]
  BY RemovedIs
<1>2. /\ L \subseteq 1 .. Len(s) /\ M \subseteq 1 .. Len(s) - 1
      /\ L \in SUBSET Nat /\ M \in SUBSET Nat
  BY <1>1 DEF Genres!Leading, Genres!Classed
<1>3. k \notin L /\ \A i \in 1 .. Len(s) - 1 : i \in M <=> Before(k, i) \in L
  BY StrayDoesNotLead
<1>4. L # {}
  BY SomeClassLeads
<1>5. M \subseteq Genres!Classed(u)
  BY DEF Genres!Leading
<1>6. Len(s) \in Nat
  OBVIOUS
<1> HIDE DEF u, L, M
<1>7. u[Genres!Min(M)] = s[Genres!Min(L)] /\ M # {}
  <2>0. /\ \A l \in (1 .. Len(s)) \ {k} : \E i \in 1 .. Len(s) - 1 : l = Before(k, i)
        /\ \A h, i \in 1 .. Len(s) - 1 : h =< i <=> Before(k, h) =< Before(k, i)
    BY <1>6, BeforeIs
  <2>1. PICK a \in L : TRUE
    BY <1>4
  <2>2. PICK b \in 1 .. Len(s) - 1 : a = Before(k, b)
    BY <1>2, <1>3, <2>0
  <2>3. M # {}
    BY <1>3, <2>2
  <2>4. PICK m \in M : \A y \in M : m =< y
    BY <1>2, <2>3, LeastNatural
  <2>5. Genres!Min(M) = m
    BY <1>2, <2>4, LeastIsMin
  <2>6. Before(k, m) \in L
    BY <1>2, <1>3
  <2>7. ASSUME NEW l \in L PROVE Before(k, m) =< l
    <3>1. PICK i \in 1 .. Len(s) - 1 : l = Before(k, i)
      BY <1>2, <1>3, <2>0
    <3>2. m =< i
      BY <1>3, <2>4, <3>1
    <3>3. QED
      BY <1>2, <2>0, <3>1, <3>2
  <2>8. Genres!Min(L) = Before(k, m)
    BY <1>2, <2>6, <2>7, LeastIsMin
  <2>9. QED
    BY <1>1, <1>2, <2>3, <2>5, <2>8
<1>8. Genres!LccGenres(u) = ClassGenres[Genres!LccKey(u[Genres!Min(M)])]
  BY <1>5, <1>7 DEF Genres!LccGenres, M
<1>9. Genres!LccGenres(s) = ClassGenres[Genres!LccKey(s[Genres!Min(L)])]
  BY DEF Genres!LccGenres, L
<1>10. QED
  BY <1>7, <1>8, <1>9 DEF u

\* One class only speaks for itself.
LEMMA OneClassSpeaks ==
    ASSUME NEW T, NEW s \in Seq(T), NEW key, Genres!Classed(s) # {},
           \A k \in Genres!Classed(s) : Genres!LccKey(s[k]) = key
    PROVE  Genres!LccGenres(s) = ClassGenres[key]
<1> DEFINE L == Genres!Leading(s)
<1>1. L # {} /\ L \subseteq Genres!Classed(s)
  BY SomeClassLeads DEF Genres!Leading
<1>2. L \in SUBSET Nat
  BY <1>1 DEF Genres!Classed
<1>3. Genres!Min(L) \in L
  <2> HIDE DEF L
  <2>1. PICK m \in L : \A y \in L : m =< y
    BY <1>1, <1>2, LeastNatural
  <2>2. Genres!Min(L) = m
    BY <1>2, <2>1, LeastIsMin
  <2>3. QED
    BY <2>2
<1>4. QED
  BY <1>1, <1>3 DEF Genres!LccGenres

\* The properties of one doc.
LEMMA StrayIsSilent ==
    ASSUME NEW T, NEW D, NEW S, NEW doc \in [lcc : Seq(T), ddc : D, subjects : S]
    PROVE  Genres!StraysAreSilent(doc)
<1> DEFINE keys == {Genres!LccKey(doc.lcc[k]) : k \in Genres!Classed(doc.lcc)}
<1>1. doc.lcc \in Seq(T)
  OBVIOUS
<1>2. ASSUME NEW k \in DOMAIN doc.lcc, NEW key \in keys,
             Genres!Votes(doc.lcc, key) > Genres!Votes(doc.lcc, Genres!LccKey(doc.lcc[k]))
      PROVE  Genres!DeriveGenres(doc)
               = Genres!DeriveGenres([doc EXCEPT !.lcc = Genres!RemoveAt(@, k)])
  <2> DEFINE rest == Genres!RemoveAt(doc.lcc, k)
             new == [doc EXCEPT !.lcc = rest]
  <2>1. PICK j \in Genres!Classed(doc.lcc) : key = Genres!LccKey(doc.lcc[j])
    OBVIOUS
  <2>2. k \in 1 .. Len(doc.lcc)
    BY <1>1
  <2>3. Genres!LccGenres(rest) = Genres!LccGenres(doc.lcc)
    BY <1>1, <1>2, <2>1, <2>2, StrayLeavesGenres
  <2>4. new.lcc = rest /\ new.ddc = doc.ddc /\ new.subjects = doc.subjects
    OBVIOUS
  <2> HIDE DEF new, rest
  <2>5. Genres!DeriveGenres(new) = Genres!DeriveGenres(doc)
    BY <2>3, <2>4 DEF Genres!DeriveGenres, Genres!Slugs
  <2>6. QED
    BY <2>5 DEF new, rest
<1>3. ASSUME NEW key \in keys,
             \A k \in Genres!Classed(doc.lcc) : Genres!LccKey(doc.lcc[k]) = key,
             Genres!Vocabulary(ClassGenres[key]) # <<>>,
             "literature" \notin Genres!ToSet(Genres!Vocabulary(ClassGenres[key]))
      PROVE  Genres!DeriveGenres(doc)
               = Genres!DeriveGenres([doc EXCEPT !.ddc = <<>>, !.subjects = <<>>])
  <2> DEFINE new == [doc EXCEPT !.ddc = <<>>, !.subjects = <<>>]
  <2>1. Genres!LccGenres(doc.lcc) = ClassGenres[key]
    BY <1>1, <1>3, OneClassSpeaks
  <2>2. new.lcc = doc.lcc
    OBVIOUS
  <2> HIDE DEF new
  <2>3. \A d : Genres!Refined(Genres!Vocabulary(ClassGenres[key]), d) = Genres!Vocabulary(ClassGenres[key])
    BY <1>3 DEF Genres!Refined
  <2>4. Genres!Slugs(doc) = Genres!Vocabulary(ClassGenres[key])
    BY <1>3, <2>1, <2>3 DEF Genres!Slugs
  <2>5. Genres!Slugs(new) = Genres!Vocabulary(ClassGenres[key])
    BY <1>3, <2>1, <2>2, <2>3 DEF Genres!Slugs
  <2>6. Genres!DeriveGenres(doc) = Genres!DeriveGenres(new)
    BY <2>4, <2>5 DEF Genres!DeriveGenres
  <2>7. QED
    BY <2>6 DEF new
<1>4. QED
  BY <1>2, <1>3 DEF Genres!StraysAreSilent
-----------------------------------------------------------------------------
(* The questions. *)

AreOfTheirKind ==
    /\ Asks("plan") => asked \in Plans
    /\ Asks("walk") => asked \in Walks
    /\ Asks("board") => asked \in Boards
    /\ Asks("supply") => asked \in Supplies
    /\ Asks("doc") => asked \in Docs

LEMMA EachIsOfItsKind ==
    /\ \A p \in Plans : p.kind = "plan"
    /\ \A p \in Walks : p.kind = "walk"
    /\ \A p \in Ballots : p.kind = "ballot"
    /\ \A p \in Supplies : p.kind = "supply"
    /\ \A p \in Boards : p.kind = "board"
    /\ \A p \in Shelves : p.kind = "shelf"
    /\ \A p \in Neighbours : p.kind = "neighbours"
    /\ \A p \in Batches : p.kind = "batch"
    /\ \A p \in Docs : p.kind = "doc"
<1>1. \A p \in Plans : p.kind = "plan"
  BY DEF Plans
<1>2. \A p \in Walks : p.kind = "walk"
  BY DEF Walks
<1>3. \A p \in Ballots : p.kind = "ballot"
  BY DEF Ballots
<1>4. \A p \in Supplies : p.kind = "supply"
  BY DEF Supplies
<1>5. \A p \in Boards : p.kind = "board"
  BY DEF Boards
<1>6. \A p \in Shelves : p.kind = "shelf"
  BY DEF Shelves
<1>7. \A p \in Neighbours : p.kind = "neighbours"
  BY DEF Neighbours
<1>8. \A p \in Batches : p.kind = "batch"
  BY DEF Batches
<1>9. \A p \in Docs : p.kind = "doc"
  BY DEF Docs
<1>10. QED
  BY <1>1, <1>2, <1>3, <1>4, <1>5, <1>6, <1>7, <1>8, <1>9

LEMMA AskedFirst == Init => AreOfTheirKind
BY DEF Init, AreOfTheirKind, Asks, Open, Kinds

LEMMA AskedNext == AreOfTheirKind /\ [Next]_asked => AreOfTheirKind'
<1> SUFFICES ASSUME AreOfTheirKind, Next PROVE AreOfTheirKind'
  BY DEF AreOfTheirKind, Asks, Open
<1>1. \/ asked' \in Plans \/ asked' \in Walks \/ asked' \in Supplies
      \/ asked' \in Boards \/ asked' \in Docs
      \/ asked'.kind \notin {"plan", "walk", "supply", "board", "doc"}
  BY EachIsOfItsKind DEF Next
<1>2. QED
  BY <1>1, EachIsOfItsKind DEF AreOfTheirKind, Asks

\* The deeds of the questions are deeds.
LEMMA BoardsAreLedgers ==
    ASSUME NEW b \in Boards
    PROVE  IsLedger(b.ledger) /\ b.since \in Nat \ {0}
<1>1. Deeds \subseteq Deed
  <2>1. Never \in Deed
    BY DEF Never, Deed
  <2>2. /\ [Never EXCEPT !.rated = 2, !.event = 2] \in Deed
        /\ [Never EXCEPT !.rated = 1, !.event = 2, !.edited = 2] \in Deed
        /\ [Never EXCEPT !.rated = 1, !.event = 1, !.edited = 2] \in Deed
    BY <2>1 DEF Deed
  <2>3. /\ [Never EXCEPT !.rated = 1, !.event = 1, !.edited = 2, !.hidden = TRUE] \in Deed
        /\ [Never EXCEPT !.status = "dropped", !.completed = 2, !.moved = 2] \in Deed
        /\ [Never EXCEPT !.status = "in_progress", !.completed = 1, !.moved = 2, !.rated = 1] \in Deed
    BY <2>1 DEF Deed
  <2>4. QED
    BY <2>1, <2>2, <2>3 DEF Deeds
<1>2. b.ledger \in [{1, 2} \X {1, 2} -> Deeds] /\ b.since \in {1, 2}
  BY DEF Boards
<1>3. b.ledger \in [{1, 2} \X {1, 2} -> Deed]
  BY <1>1, <1>2
<1>4. \E U, I : b.ledger \in [U \X I -> Deed]
  <2> WITNESS {1, 2}, {1, 2}
  <2>1. QED
    BY <1>3
<1>5. b.since \in Nat \ {0}
  BY <1>2
<1>6. QED
  BY <1>4, <1>5 DEF IsLedger

(***************************************************************************)
(* plan_change_windows and change_windows: every day since the one covered *)
(* is requested or reported lost, never both, in windows that tile what is *)
(* requested, however long the range, the window and the retention are.    *)
(***************************************************************************)
THEOREM PlansAreHonest ==
    ASSUME LastDay \in Nat, MaxSpan \in Nat, MaxRetention \in Nat \ {0}
    PROVE  Spec => []PlanAccountsForEveryDay
<1>1. AreOfTheirKind => PlanAccountsForEveryDay
  <2> SUFFICES ASSUME asked \in Plans PROVE PlanAccountsForEveryDay
    BY DEF AreOfTheirKind, PlanAccountsForEveryDay
  <2>1. /\ asked.since \in {Feed!None} \cup Nat /\ asked.until \in Nat
        /\ asked.span \in Nat \ {0} /\ asked.retention \in Nat \ {0}
        /\ asked.until >= asked.retention - 1
    BY DEF Plans
  <2> DEFINE since == asked.since
             until == asked.until
             span == asked.span
             retention == asked.retention
             ws == Feed!PlanWindows(since, until, span, retention)
             requested == UNION {Feed!Days(ws[k]) : k \in DOMAIN ws}
             lost == Feed!Uncovered(since, until, retention)
             horizon == Feed!Horizon(until, retention)
  <2>2. /\ since # Feed!None => (since + 1 .. until) \subseteq requested \cup lost
        /\ requested \cap lost = {}
        /\ \A d \in requested : d >= horizon
        /\ \A k \in DOMAIN ws : ws[k].end - ws[k].start < span
        /\ ws # <<>> => Feed!Tiles(ws, ws[1].start, until)
        /\ since \in horizon .. until => ws # <<>> /\ ws[1].start = since
    <3> HIDE DEF since, until, span, retention
    <3>1. /\ since \in {Feed!None} \cup Nat /\ until \in Nat /\ span \in Nat \ {0}
          /\ retention \in Nat \ {0} /\ until >= retention - 1
      BY <2>1 DEF since, until, span, retention
    <3>2. QED
      BY <3>1, PlanIsHonest
  <2>3. QED
    BY <2>2 DEF PlanAccountsForEveryDay
<1>2. Spec => []AreOfTheirKind
  BY AskedFirst, AskedNext, PTL DEF Spec
<1>3. QED
  BY <1>1, <1>2, PTL

(***************************************************************************)
(* _walk_change_window, split_change_window and fetch_change_ids: halving  *)
(* ends and its windows tile the one that was asked for, it gives up only  *)
(* on single days over the cap, and covered_through is the whole stretch   *)
(* before the first of them, however many entries the days list.           *)
(***************************************************************************)
THEOREM WalksLoseNoDay ==
    ASSUME MaxSpan \in Nat, MaxLoad \in Nat, MaxCap \in Nat
    PROVE  Spec => []WalkGivesUpOnlyOnSaturatedDays
<1>1. AreOfTheirKind => WalkGivesUpOnlyOnSaturatedDays
  <2> SUFFICES ASSUME asked \in Walks PROVE WalkGivesUpOnlyOnSaturatedDays
    BY DEF AreOfTheirKind, WalkGivesUpOnlyOnSaturatedDays
  <2> DEFINE last == asked.end
             load == asked.load
             cap == asked.cap
             w == Feed!Window(0, last)
             vs == Feed!Leaves(w, load, cap)
             through == Feed!CoveredThrough(w, Feed!FirstTruncated(w, load, cap))
  <2>1. PICK e \in 0 .. MaxSpan - 1 :
            asked \in [kind : {"walk"}, end : {e}, load : [0 .. e -> 0 .. MaxLoad], cap : 1 .. MaxCap]
    BY DEF Walks
  <2>2. last \in Nat /\ cap \in Nat /\ \A d \in 0 .. last : load[d] \in Nat
    BY <2>1
  <2>3. /\ Feed!Tiles(vs, 0, last)
        /\ \A k \in DOMAIN vs : Feed!LoadOf(vs[k], load) =< cap \/ ~Feed!Splittable(vs[k])
        /\ Feed!WholeThrough(w, load, cap, through)
    <3> HIDE DEF last, load, cap
    <3>1. QED
      BY <2>2, WalkIsWhole
  <2>4. QED
    BY <2>3 DEF WalkGivesUpOnlyOnSaturatedDays
<1>2. Spec => []AreOfTheirKind
  BY AskedFirst, AskedNext, PTL DEF Spec
<1>3. QED
  BY <1>1, <1>2, PTL

(***************************************************************************)
(* activity_events, library_entries and user_ratings of trending: the list *)
(* and its thresholds are those of a ledger in which the banned did        *)
(* nothing, and no gesture is counted twice over.                          *)
(***************************************************************************)
THEOREM BoardsAreFair == Spec => []LeaderboardIsFair
<1>1. AreOfTheirKind => LeaderboardIsFair
  <2> SUFFICES ASSUME asked \in Boards, Asks("board") PROVE LeaderboardIsFair
    BY DEF AreOfTheirKind, LeaderboardIsFair
  <2>1. IsLedger(asked.ledger) /\ asked.since \in Nat \ {0}
    BY BoardsAreLedgers
  <2>2. [k \in DOMAIN asked.ledger |-> IF k[1] \in asked.banned THEN Never ELSE asked.ledger[k]]
          = Without(asked.ledger, asked.banned)
    BY DEF Without
  <2>3. \A m \in {1, 2} :
           Discovery!LocalActivity(asked.ledger, asked.banned, asked.since, 2, m, m)
             = Discovery!LocalActivity(Without(asked.ledger, asked.banned), {}, asked.since, 2, m, m)
    BY <2>1, BannedLeaveNoTrace
  <2>4. \A g, h \in Discovery!Gestures(asked.ledger, asked.banned, asked.since) :
           g # h /\ g.user = h.user /\ g.item = h.item =>
              /\ g.kind = "rerated" /\ h.kind = "rating_created" => h.at < g.at
              /\ g.kind = "status_completed" => h.kind \notin {"want", "in_progress", "dropped"}
    <3>1. asked.since \in Nat
      BY <2>1
    <3>2. QED
      BY <2>1, <3>1, GesturesCountOnce
  <2>5. QED
    BY <2>2, <2>3, <2>4 DEF LeaderboardIsFair
<1>2. QED
  BY AskedFirst, AskedNext, <1>1, PTL DEF Spec

(***************************************************************************)
(* _derive_genres: an edition whose class another class outdoes does not   *)
(* speak for the work, and the Dewey numbers and subjects of a work that a *)
(* single class other than literature claims change nothing, however many  *)
(* call numbers it has.                                                    *)
(***************************************************************************)
THEOREM StraysStaySilent == Spec => []StraysAreSilent
<1>1. AreOfTheirKind => StraysAreSilent
  <2> SUFFICES ASSUME asked \in Docs PROVE StraysAreSilent
    BY DEF AreOfTheirKind, StraysAreSilent
  <2> DEFINE lists == UNION {[1 .. n -> Entries] : n \in 0 .. MaxEntries}
             doc == [lcc |-> asked.lcc, ddc |-> asked.ddc, subjects |-> asked.subjects]
  <2>1. lists \subseteq Seq(Entries)
    OBVIOUS
  <2>2. asked.lcc \in lists
    BY DEF Docs
  <2>3. asked.lcc \in Seq(Entries)
    <3> HIDE DEF lists
    <3>1. QED
      BY <2>1, <2>2
  <2>4. doc \in [lcc : Seq(Entries), ddc : {asked.ddc}, subjects : {asked.subjects}]
    BY <2>3
  <2>5. Genres!StraysAreSilent(doc)
    <3> HIDE DEF doc
    <3>1. QED
      BY <2>4, StrayIsSilent
  <2>6. QED
    BY <2>5 DEF StraysAreSilent
<1>2. QED
  BY <1>1, AskedFirst, AskedNext, PTL DEF Spec

(***************************************************************************)
(* allocate_quotas: the split never spends more than the cap, gives no     *)
(* type more than it has or than a share of the larger ones, and, but for  *)
(* caps below four, spends all of the cap or gives every type all it can   *)
(* use, however large the cap and the catalogs are.                        *)
(***************************************************************************)
THEOREM SplitsAreFair ==
    ASSUME MaxItems \in Nat
    PROVE  Spec => [](Asks("supply") => Quotas!QuotasAreFair(asked.cap, asked.available))
<1> DEFINE Fair == Asks("supply") => Quotas!QuotasAreFair(asked.cap, asked.available)
<1>1. AreOfTheirKind => Fair
  <2> SUFFICES ASSUME asked \in Supplies PROVE Fair
    BY DEF AreOfTheirKind
  <2>1. asked.cap \in Nat /\ asked.available \in [{1, 2, 3, 4} -> Nat]
    <3>1. asked.cap \in 0 .. 2 * MaxItems /\ asked.available \in [1 .. 4 -> 0 .. MaxItems]
      BY DEF Supplies
    <3>2. 1 .. 4 = {1, 2, 3, 4}
      OBVIOUS
    <3>3. QED
      BY <3>1, <3>2
  <2>2. QED
    BY <2>1, SplitIsFair
<1>2. Spec => []AreOfTheirKind
  BY AskedFirst, AskedNext, PTL DEF Spec
<1> HIDE DEF Fair
<1>3. Spec => []Fair
  BY <1>1, <1>2, PTL
<1>4. QED
  BY <1>3 DEF Fair
=============================================================================
