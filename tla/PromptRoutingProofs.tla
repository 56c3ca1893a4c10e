-------------------------- MODULE PromptRoutingProofs --------------------------
(***************************************************************************)
(* For any windows, tabs, keys and requests, and any limits: what waits    *)
(* for an answer is prompted for, and the prompt in front is about the tab *)
(* in front.                                                               *)
(***************************************************************************)
EXTENDS PromptRouting, PendingTrackerProofs, WellFoundedInduction, SequenceTheorems

----------------------------------------------------------------------------
(***************************************************************************)
(* The prompt state between two calls of a handler.  Requests are numbered *)
(* by distinct, bounded places.                                            *)
(***************************************************************************)
IsRequest(r) ==
  r \in [place: Nat, key: {r.key}, anchor: Views, affected: {r.affected}, sources: {r.sources}]

Placed(requests) ==
  /\ \A r \in requests : r.place \in Nat \ {0}
  /\ \A r, x \in requests : r.place = x.place => r = x
  /\ \E b \in Nat : \A r \in requests : r.place <= b

Numbered(requests) == Placed(requests) /\ \A r \in requests : IsRequest(r)

IsUi(u) ==
  u \in [pending: {u.pending}, refused: {u.refused}, routes: {u.routes}, current: {u.current},
         active: {u.active}, queue: {u.queue}]

OfWindows(f) == f = [w \in Windows |-> f[w]]

UiOK(u) ==
  /\ IsUi(u)
  /\ u.pending.sources \subseteq Keys \X Sources
  /\ OfWindows(u.current) /\ OfWindows(u.active) /\ OfWindows(u.queue)
  /\ \A w \in Windows : Numbered(u.queue[w]) /\ (u.active[w] = NoRequest \/ IsRequest(u.active[w]))
  /\ \A w \in Windows : u.active[w] # NoRequest => u.active[w].place = 0

\* The parts of PromptFollowsTab, for one window; "alive" is what Alive says of a view.
Follows(u, w) == u.active[w] # NoRequest => u.active[w].anchor = u.current[w]

Asked(u, st, w) ==
  u.active[w] = NoRequest => \A r \in u.queue[w] : r.anchor = u.current[w] => st[r.anchor] = "gone"

\* PendingIsPrompted, but for the pairs known to be asked about otherwise.
About(r, pair) == r.key = pair[1] /\ pair[2] \in r.sources

Asks(u, pair) == \E w \in Windows : \E r \in RequestsOf(u, w) : About(r, pair)

Covered(u, pairs) == \A pair \in u.pending.sources : pair \in pairs \/ Asks(u, pair) \/ pair \in u.refused

(***************************************************************************)
(* All of it, while the pairs are in hand and showNext is still to be      *)
(* called for some windows.                                                *)
(***************************************************************************)
Sound(u, st, pairs, due) ==
  /\ UiOK(u)
  /\ \A w \in Windows : Follows(u, w)
  /\ \A w \in Windows \ due : Asked(u, st, w)
  /\ Covered(u, pairs)

LEMMA LeastNumber ==
  ASSUME NEW S, S \subseteq Nat, S # {}
  PROVE  \E x \in S : \A y \in S : x <= y
<1>1. PICK x \in S : \A y \in S : ~ (<<y, x>> \in OpToRel(<, Nat))
  BY NatLessThanWellFounded, WFMin
<1>2. ASSUME NEW y \in S PROVE x <= y
  <2>1. y \in Nat /\ x \in Nat
    OBVIOUS
  <2>2. y < x => <<y, x>> \in OpToRel(<, Nat)
    BY <2>1 DEF OpToRel
  <2>3. ~ (y < x)
    BY <1>1, <2>2, Zenon
  <2> QED BY <2>1, <2>3
<1> QED BY <1>2

\* A finite set has subsets of each smaller size.
LEMMA SubsetOfSize ==
  ASSUME NEW S, IsFiniteSet(S), NEW n \in Nat, n <= Cardinality(S)
  PROVE  \E T \in SUBSET S : Cardinality(T) = n
<1> DEFINE sizes == { m \in Nat : n <= m /\ \E T \in SUBSET S : Cardinality(T) = m }
<1>1. Cardinality(S) \in sizes
  BY FS_CardinalityType
<1>2. PICK m \in sizes : \A k \in sizes : m <= k
  <2>1. sizes \subseteq Nat /\ sizes # {}
    BY <1>1
  <2> HIDE DEF sizes
  <2> QED BY <2>1, LeastNumber
<1>3. PICK T \in SUBSET S : Cardinality(T) = m
  OBVIOUS
<1>4. ASSUME n < m PROVE FALSE
  <2>1. IsFiniteSet(T)
    BY FS_Subset
  <2>2. T # {}
    BY <1>3, <1>4, FS_EmptySet
  <2>3. PICK e \in T : TRUE
    BY <2>2
  <2>4. Cardinality(T \ {e}) = m - 1
    BY <1>3, <2>1, <2>3, FS_RemoveElement
  <2>5. m - 1 \in sizes
    BY <1>4, <2>4
  <2> QED BY <1>2, <2>5
<1> QED BY <1>3, <1>4

LEMMA FirstIsLeast ==
  ASSUME NEW R, R # {}, \A r \in R : r.place \in Nat
  PROVE  First(R) \in R /\ \A x \in R : First(R).place <= x.place
<1>1. PICK n \in { r.place : r \in R } : \A m \in { r.place : r \in R } : n <= m
  BY LeastNumber
<1>2. PICK r \in R : r.place = n
  BY <1>1
<1>3. \E x \in R : \A y \in R : x.place <= y.place
  BY <1>1, <1>2
<1> QED BY <1>3 DEF First

LEMMA MaxOfBounded ==
  ASSUME NEW S \in SUBSET Nat, S # {}, NEW b \in Nat, \A n \in S : n <= b
  PROVE  Max(S) \in S /\ \A n \in S : n <= Max(S)
<1>1. b \in { c \in Nat : \A n \in S : n <= c }
  OBVIOUS
<1>2. PICK c \in { d \in Nat : \A n \in S : n <= d } :
             \A d \in { e \in Nat : \A n \in S : n <= e } : c <= d
  BY <1>1, LeastNumber
<1>3. c \in S
  <2>1. SUFFICES ASSUME c \notin S PROVE FALSE
    OBVIOUS
  <2>2. PICK n \in S : TRUE
    OBVIOUS
  <2>3. c - 1 \in Nat /\ \A m \in S : m <= c - 1
    BY <1>2, <2>1, <2>2
  <2> QED BY <1>2, <2>3
<1>4. \E x \in S : \A y \in S : x >= y
  BY <1>2, <1>3
<1> QED BY <1>4 DEF Max

LEMMA LastPlaceIsLast ==
  ASSUME NEW R, Placed(R)
  PROVE  LastPlace(R) \in Nat /\ \A r \in R : r.place <= LastPlace(R)
<1> DEFINE places == {0} \union { r.place : r \in R }
<1>1. PICK b \in Nat : \A r \in R : r.place <= b
  BY DEF Placed
<1>2. places \in SUBSET Nat /\ places # {} /\ \A n \in places : n <= b
  BY <1>1 DEF Placed
<1>3. Max(places) \in places /\ \A n \in places : n <= Max(places)
  <2> HIDE DEF places
  <2> QED BY <1>2, MaxOfBounded
<1> QED BY <1>2, <1>3 DEF LastPlace

LEMMA IsNoRequest ==
  ASSUME NEW r, IsRequest(r)
  PROVE  r # NoRequest
BY DEF IsRequest, NoRequest

LEMMA OfWindowsPut ==
  ASSUME NEW f, OfWindows(f), NEW w \in Windows, NEW e, NEW g, g = [f EXCEPT ![w] = e]
  PROVE  OfWindows(g) /\ g[w] = e /\ \A o \in Windows \ {w} : g[o] = f[o]
BY DEF OfWindows

LEMMA OfWindowsSame ==
  ASSUME NEW f, OfWindows(f), NEW w \in Windows
  PROVE  f = [f EXCEPT ![w] = f[w]]
BY DEF OfWindows

(***************************************************************************)
(* What a handler does to one window: its current view, its active and its *)
(* queued requests are replaced, with the shared parts of the state.       *)
(***************************************************************************)
Replaces(x, u, w, pending, refused, c, r, R) ==
  /\ IsUi(x) /\ x.pending = pending /\ x.refused = refused
  /\ x.current = [u.current EXCEPT ![w] = c]
  /\ x.active = [u.active EXCEPT ![w] = r]
  /\ x.queue = [u.queue EXCEPT ![w] = R]

ReplacedFields(x, u, w, pending, refused, c, r, R) ==
  /\ x.pending = pending /\ x.refused = refused
  /\ x.current[w] = c /\ x.active[w] = r /\ x.queue[w] = R
  /\ \A o \in Windows \ {w} :
       x.current[o] = u.current[o] /\ x.active[o] = u.active[o] /\ x.queue[o] = u.queue[o]

\* The requests of one window are well formed.
WindowOK(r, R) == Numbered(R) /\ (r = NoRequest \/ (IsRequest(r) /\ r.place = 0))

LEMMA ReplacedOK ==
  ASSUME NEW u, UiOK(u), NEW w \in Windows, NEW pending, NEW refused, NEW c, NEW r, NEW R,
         pending.sources \subseteq Keys \X Sources, WindowOK(r, R),
         NEW x, Replaces(x, u, w, pending, refused, c, r, R)
  PROVE  UiOK(x) /\ ReplacedFields(x, u, w, pending, refused, c, r, R)
<1>1. OfWindows(u.current) /\ OfWindows(u.active) /\ OfWindows(u.queue)
  BY DEF UiOK
<1>2. OfWindows(x.current) /\ x.current[w] = c /\ \A o \in Windows \ {w} : x.current[o] = u.current[o]
  <2>1. x.current = [u.current EXCEPT ![w] = c]
    BY DEF Replaces
  <2> QED BY <1>1, <2>1 DEF OfWindows
<1>3. OfWindows(x.active) /\ x.active[w] = r /\ \A o \in Windows \ {w} : x.active[o] = u.active[o]
  <2>1. x.active = [u.active EXCEPT ![w] = r]
    BY DEF Replaces
  <2> QED BY <1>1, <2>1 DEF OfWindows
<1>4. OfWindows(x.queue) /\ x.queue[w] = R /\ \A o \in Windows \ {w} : x.queue[o] = u.queue[o]
  <2>1. x.queue = [u.queue EXCEPT ![w] = R]
    BY DEF Replaces
  <2> QED BY <1>1, <2>1 DEF OfWindows
<1>5. IsUi(x) /\ x.pending = pending /\ x.refused = refused
  BY DEF Replaces
<1>7. UiOK(x)
  BY <1>2, <1>3, <1>4, <1>5 DEF UiOK, WindowOK
<1> QED BY <1>2, <1>3, <1>4, <1>5, <1>7 DEF ReplacedFields

\* The prompt in front of the window is about the tab in front; if showNext is not due, a tab in front
\* that has requests has one in front.
WindowFollows(st, c, r, R, due) ==
  /\ r # NoRequest => r.anchor = c
  /\ r = NoRequest /\ ~ due => \A q \in R : q.anchor = c => st[q.anchor] = "gone"

\* What is pending and was in hand or asked about by the window still is, or was refused.
StillAsked(u, w, old, pairs, pending, refused, r, R) ==
  /\ pending.sources \subseteq u.pending.sources
  /\ u.refused \subseteq refused
  /\ \A pair \in pending.sources :
       pair \in old \/ (\E q \in RequestsOf(u, w) : About(q, pair)) =>
         \/ pair \in pairs \/ pair \in refused
         \/ \E q \in R \union ({r} \ {NoRequest}) : About(q, pair)

LEMMA ReplacedSound ==
  ASSUME NEW u, NEW st, NEW old, NEW due, NEW pairs, NEW left, Sound(u, st, old, due),
         NEW w \in Windows, due \subseteq left \union {w},
         NEW pending, NEW refused, NEW c, NEW r, NEW R,
         WindowOK(r, R), WindowFollows(st, c, r, R, w \in left),
         StillAsked(u, w, old, pairs, pending, refused, r, R),
         NEW x, Replaces(x, u, w, pending, refused, c, r, R)
  PROVE  Sound(x, st, pairs, left)
<1>1. UiOK(u) /\ pending.sources \subseteq Keys \X Sources
  BY DEF Sound, UiOK, StillAsked
<1>2. UiOK(x) /\ ReplacedFields(x, u, w, pending, refused, c, r, R)
  BY <1>1, ReplacedOK
<1>3. \A o \in Windows : Follows(x, o)
  BY <1>2 DEF Sound, Follows, ReplacedFields, WindowFollows
<1>4. \A o \in Windows \ left : Asked(x, st, o)
  BY <1>2 DEF Sound, Asked, ReplacedFields, WindowFollows
<1>5. Covered(x, pairs)
  <2> SUFFICES ASSUME NEW pair \in pending.sources, pair \notin pairs, pair \notin refused
               PROVE  Asks(x, pair)
    BY <1>2 DEF Covered, ReplacedFields
  <2>1. pair \in old \/ Asks(u, pair)
    BY DEF Sound, Covered, StillAsked
  <2>2. \A o \in Windows \ {w} : RequestsOf(x, o) = RequestsOf(u, o)
    BY <1>2 DEF RequestsOf, ReplacedFields
  <2>3. RequestsOf(x, w) = R \union ({r} \ {NoRequest})
    BY <1>2 DEF RequestsOf, ReplacedFields
  <2>4. CASE pair \in old \/ \E q \in RequestsOf(u, w) : About(q, pair)
    BY <2>3, <2>4 DEF Asks, StillAsked
  <2>5. CASE \E o \in Windows \ {w} : \E q \in RequestsOf(u, o) : About(q, pair)
    BY <2>2, <2>5 DEF Asks
  <2> QED BY <2>1, <2>4, <2>5 DEF Asks
<1> QED BY <1>2, <1>3, <1>4, <1>5 DEF Sound

----------------------------------------------------------------------------
(***************************************************************************)
(* Requests, prompts and routes are well formed: a request has some and at *)
(* most the maximum of sources; a window has one request of a key at most, *)
(* an unregistered window none; and a route leads to a window that has a   *)
(* request of its key -- but for the pairs of window and key in "away",    *)
(* whose request is on its way.                                            *)
(***************************************************************************)
Few(sources) ==
  sources \in (SUBSET Sources) \ {{}} /\ IsFiniteSet(sources) /\ Cardinality(sources) <= MaxSourcesPerRequest

Askable(r) == r.key \in Keys /\ Few(r.sources)

KeysDiffer(requests) == \A q, r \in requests : q.key = r.key => q = r

Tidied(requests) == KeysDiffer(requests) /\ \A r \in requests : Askable(r)

Has(u, w, key) == \E r \in RequestsOf(u, w) : r.key = key

RoutesOK(u, away) ==
  \A k \in DOMAIN u.routes :
    /\ k \in Keys /\ u.routes[k] \in [window: Windows, anchor: Views]
    /\ <<u.routes[k].window, k>> \in away \/ Has(u, u.routes[k].window, k)

Tidy(u, away) ==
  /\ TrackerOK(u.pending)
  /\ \A w \in Windows : Tidied(RequestsOf(u, w)) /\ (w \notin Registered => RequestsOf(u, w) = {})
  /\ RoutesOK(u, away)

(***************************************************************************)
(* What becomes of the pairs asked about, and of those in hand: some are   *)
(* gone from the pending ones, some are lost as a full prompt refused      *)
(* them, and all the others are still asked about, or left in hand.        *)
(***************************************************************************)
PairsOf(requests) == UNION { SourcePairs(r) : r \in requests }

Held(u) == PairsOf(AllRequests(u))

FullIn(asked, pair) ==
  \E others \in SUBSET { p \in asked : p[1] = pair[1] } :
    pair \notin others /\ Cardinality(others) = MaxSourcesPerRequest

Flows(u, hand, x, left, gone, lost) ==
  /\ gone \subseteq Held(u) \union hand /\ lost \subseteq Held(u) \union hand
  /\ x.pending.sources = u.pending.sources \ gone
  /\ x.refused = u.refused \union lost
  /\ (Held(u) \union hand) \ (gone \union lost) \subseteq Held(x) \union left
  /\ Held(x) \union left \subseteq Held(u) \union hand
  /\ \A pair \in lost : FullIn(Held(u) \union hand, pair)

Flow(u, hand, x, left) == \E gone, lost : Flows(u, hand, x, left, gone, lost)

(***************************************************************************)
(* The requests of a key are anchored to tabs of their windows, and the    *)
(* key's route leads to them; a key in hand has none.                      *)
(***************************************************************************)
Led(u, key, keys) ==
  \A w \in Windows : \A r \in RequestsOf(u, w) :
    r.key = key =>
      /\ key \notin keys /\ r.anchor \in tabs[w]
      /\ key \in DOMAIN u.routes /\ u.routes[key] = [window |-> w, anchor |-> r.anchor]

\* Both together, for a handler that takes x from u.
Keeps(u, hand, keys, x, left, rest) ==
  Flow(u, hand, x, left) /\ \A key : Led(u, key, keys) => Led(x, key, rest)

LEMMA FullInMore ==
  ASSUME NEW asked, NEW more, asked \subseteq more, NEW pair, FullIn(asked, pair)
  PROVE  FullIn(more, pair)
BY DEF FullIn

LEMMA FlowsThen ==
  ASSUME NEW u, NEW hand, NEW x, NEW between, NEW y, NEW left,
         NEW gone1, NEW lost1, Flows(u, hand, x, between, gone1, lost1),
         NEW gone2, NEW lost2, Flows(x, between, y, left, gone2, lost2)
  PROVE  Flows(u, hand, y, left, gone1 \union gone2, lost1 \union lost2)
<1> DEFINE gone == gone1 \union gone2
           lost == lost1 \union lost2
           U == Held(u) \union hand
           X == Held(x) \union between
           Y == Held(y) \union left
<1>3. /\ gone1 \subseteq U /\ lost1 \subseteq U /\ U \ (gone1 \union lost1) \subseteq X /\ X \subseteq U
      /\ x.pending.sources = u.pending.sources \ gone1 /\ x.refused = u.refused \union lost1
      /\ \A pair \in lost1 : FullIn(U, pair)
  BY DEF Flows
<1>4. /\ gone2 \subseteq X /\ lost2 \subseteq X /\ X \ (gone2 \union lost2) \subseteq Y /\ Y \subseteq X
      /\ y.pending.sources = x.pending.sources \ gone2 /\ y.refused = x.refused \union lost2
      /\ \A pair \in lost2 : FullIn(X, pair)
  BY DEF Flows
<1> HIDE DEF U, X, Y
<1>5. \A pair \in lost : FullIn(U, pair)
  BY <1>3, <1>4, FullInMore
<1>6. /\ gone \subseteq U /\ lost \subseteq U /\ U \ (gone \union lost) \subseteq Y /\ Y \subseteq U
      /\ y.pending.sources = u.pending.sources \ gone /\ y.refused = u.refused \union lost
  BY <1>3, <1>4
<1> QED BY <1>5, <1>6 DEF Flows, U, Y

LEMMA FlowThen ==
  ASSUME NEW u, NEW hand, NEW x, NEW between, NEW y, NEW left,
         Flow(u, hand, x, between), Flow(x, between, y, left)
  PROVE  Flow(u, hand, y, left)
<1>1. PICK gone1, lost1 : Flows(u, hand, x, between, gone1, lost1)
  BY DEF Flow
<1>2. PICK gone2, lost2 : Flows(x, between, y, left, gone2, lost2)
  BY DEF Flow
<1>3. Flows(u, hand, y, left, gone1 \union gone2, lost1 \union lost2)
  BY <1>1, <1>2, FlowsThen
<1> QED BY <1>3 DEF Flow

\* What is in hand throughout changes nothing.
LEMMA FlowBeside ==
  ASSUME NEW u, NEW hand, NEW x, NEW left, Flow(u, hand, x, left), NEW more
  PROVE  Flow(u, hand \union more, x, left \union more)
<1>1. PICK gone, lost : Flows(u, hand, x, left, gone, lost)
  BY DEF Flow
<1> DEFINE U == Held(u) \union hand
           V == Held(u) \union (hand \union more)
           X == Held(x) \union left
           Y == Held(x) \union (left \union more)
<1>2. /\ gone \subseteq U /\ lost \subseteq U /\ U \ (gone \union lost) \subseteq X /\ X \subseteq U
      /\ x.pending.sources = u.pending.sources \ gone /\ x.refused = u.refused \union lost
      /\ \A pair \in lost : FullIn(U, pair)
  BY <1>1 DEF Flows
<1>3. V = U \union more /\ Y = X \union more
  OBVIOUS
<1> HIDE DEF U, V, X, Y
<1>4. \A pair \in lost : FullIn(V, pair)
  BY <1>2, <1>3, FullInMore
<1>5. /\ gone \subseteq V /\ lost \subseteq V /\ V \ (gone \union lost) \subseteq Y /\ Y \subseteq V
      /\ x.pending.sources = u.pending.sources \ gone /\ x.refused = u.refused \union lost
  BY <1>2, <1>3
<1>6. Flows(u, hand \union more, x, left \union more, gone, lost)
  BY <1>4, <1>5 DEF Flows, V, Y
<1> QED BY <1>6 DEF Flow

LEMMA NothingFlows ==
  ASSUME NEW u, NEW hand, NEW x, x.pending.sources = u.pending.sources, x.refused = u.refused,
         \A w \in Windows : RequestsOf(x, w) = RequestsOf(u, w)
  PROVE  Flows(u, hand, x, hand, {}, {})
<1>1. Held(x) = Held(u)
  BY DEF Held, AllRequests
<1> DEFINE U == Held(u) \union hand
           X == Held(x) \union hand
           pending == u.pending.sources
           refused == u.refused
<1>2. U \subseteq X /\ X \subseteq U
  BY <1>1
<1> HIDE DEF U, X
<1>3. /\ {} \subseteq U /\ x.pending.sources = pending \ {} /\ x.refused = refused \union {}
      /\ U \ ({} \union {}) \subseteq X /\ X \subseteq U /\ \A pair \in {} : FullIn(U, pair)
  BY <1>2
<1> QED BY <1>3 DEF Flows, U, X

(***************************************************************************)
(* A handler that replaces the requests of one window.                     *)
(***************************************************************************)
Now(r, R) == R \union ({r} \ {NoRequest})

LEMMA ReplacedRequests ==
  ASSUME NEW u, NEW w \in Windows, NEW pending, NEW refused, NEW c, NEW r, NEW R,
         NEW x, ReplacedFields(x, u, w, pending, refused, c, r, R)
  PROVE  /\ RequestsOf(x, w) = Now(r, R)
         /\ \A o \in Windows \ {w} : RequestsOf(x, o) = RequestsOf(u, o)
BY DEF ReplacedFields, RequestsOf, Now

LEMMA ReplacedTidy ==
  ASSUME NEW u, NEW away, NEW left, Tidy(u, away), NEW w \in Windows,
         NEW pending, TrackerOK(pending), NEW refused, NEW c, NEW r, NEW R,
         Tidied(Now(r, R)), w \in Registered \/ Now(r, R) = {},
         NEW x, ReplacedFields(x, u, w, pending, refused, c, r, R),
         \A o \in Windows, k \in Keys : <<o, k>> \in away => o = w \/ <<o, k>> \in left,
         \A k \in DOMAIN x.routes :
           /\ k \in DOMAIN u.routes /\ x.routes[k] = u.routes[k]
           /\ x.routes[k].window = w => <<w, k>> \in left \/ \E q \in Now(r, R) : q.key = k
  PROVE  Tidy(x, left)
<1>1. /\ RequestsOf(x, w) = Now(r, R)
      /\ \A o \in Windows \ {w} : RequestsOf(x, o) = RequestsOf(u, o)
  BY ReplacedRequests
<1>2. TrackerOK(x.pending)
  BY DEF ReplacedFields
<1>3. ASSUME NEW o \in Windows
      PROVE  Tidied(RequestsOf(x, o)) /\ (o \notin Registered => RequestsOf(x, o) = {})
  BY <1>1 DEF Tidy
<1>4. RoutesOK(x, left)
  <2> SUFFICES ASSUME NEW k \in DOMAIN x.routes
               PROVE  /\ k \in Keys /\ x.routes[k] \in [window: Windows, anchor: Views]
                      /\ <<x.routes[k].window, k>> \in left \/ Has(x, x.routes[k].window, k)
    BY DEF RoutesOK
  <2> DEFINE o == u.routes[k].window
  <2>1. k \in DOMAIN u.routes /\ x.routes[k] = u.routes[k]
    OBVIOUS
  <2>2. /\ k \in Keys /\ u.routes[k] \in [window: Windows, anchor: Views]
        /\ <<o, k>> \in away \/ Has(u, o, k)
    BY <2>1 DEF Tidy, RoutesOK
  <2>3. <<o, k>> \in left \/ Has(x, o, k)
    <3>1. CASE o = w
      BY <1>1, <2>1, <3>1 DEF Has
    <3>2. CASE o # w
      BY <1>1, <2>2, <3>2 DEF Has
    <3> QED BY <3>1, <3>2
  <2> QED BY <2>1, <2>2, <2>3
<1> QED BY <1>2, <1>3, <1>4 DEF Tidy

LEMMA ReplacedFlows ==
  ASSUME NEW u, NEW hand, NEW left, NEW gone, NEW lost, NEW w \in Windows,
         NEW pending, pending.sources = u.pending.sources \ gone,
         NEW refused, refused = u.refused \union lost, NEW c, NEW r, NEW R,
         NEW x, ReplacedFields(x, u, w, pending, refused, c, r, R),
         gone \union lost \subseteq PairsOf(RequestsOf(u, w)) \union hand,
         (PairsOf(RequestsOf(u, w)) \union hand) \ (gone \union lost) \subseteq PairsOf(Now(r, R)) \union left,
         PairsOf(Now(r, R)) \union left \subseteq PairsOf(RequestsOf(u, w)) \union hand,
         \A pair \in lost : FullIn(PairsOf(RequestsOf(u, w)) \union hand, pair)
  PROVE  Flows(u, hand, x, left, gone, lost)
<1> DEFINE rest == UNION { PairsOf(RequestsOf(u, o)) : o \in Windows \ {w} }
           here == PairsOf(RequestsOf(u, w))
           then == PairsOf(Now(r, R))
<1>1. /\ RequestsOf(x, w) = Now(r, R)
      /\ \A o \in Windows \ {w} : RequestsOf(x, o) = RequestsOf(u, o)
  BY ReplacedRequests
<1>2. Held(u) = rest \union here
  BY DEF Held, AllRequests, PairsOf
<1>3. Held(x) = rest \union then
  <2>1. AllRequests(x) = Now(r, R) \union UNION { RequestsOf(u, o) : o \in Windows \ {w} }
    BY <1>1 DEF AllRequests
  <2> QED BY <2>1 DEF Held, PairsOf
<1>4. x.pending.sources = u.pending.sources \ gone /\ x.refused = u.refused \union lost
  BY DEF ReplacedFields
<1> HIDE DEF rest, here, then
<1>5. \A pair \in lost : FullIn(Held(u) \union hand, pair)
  <2>1. here \union hand \subseteq Held(u) \union hand
    BY <1>2
  <2>2. \A pair \in lost : FullIn(here \union hand, pair)
    BY DEF here
  <2> QED BY <2>1, <2>2, FullInMore
<1>6. /\ gone \union lost \subseteq here \union hand
      /\ (here \union hand) \ (gone \union lost) \subseteq then \union left
      /\ then \union left \subseteq here \union hand
  BY DEF here, then
<1>7. /\ gone \subseteq Held(u) \union hand /\ lost \subseteq Held(u) \union hand
      /\ (Held(u) \union hand) \ (gone \union lost) \subseteq Held(x) \union left
      /\ Held(x) \union left \subseteq Held(u) \union hand
  BY <1>2, <1>3, <1>6
<1> QED BY <1>4, <1>5, <1>7 DEF Flows

LEMMA ReplacedLed ==
  ASSUME NEW u, NEW key, NEW before, NEW after, Led(u, key, before), NEW w \in Windows,
         NEW pending, NEW refused, NEW c, NEW r, NEW R,
         NEW x, ReplacedFields(x, u, w, pending, refused, c, r, R),
         \A q \in Now(r, R) : \E p \in RequestsOf(u, w) : q.key = p.key /\ q.anchor = p.anchor,
         \A k \in DOMAIN u.routes :
           u.routes[k].window # w \/ (\E q \in Now(r, R) : q.key = k) =>
             k \in DOMAIN x.routes /\ x.routes[k] = u.routes[k],
         key \in after => key \in before \/ (Has(u, w, key) /\ \A q \in Now(r, R) : q.key # key)
  PROVE  Led(x, key, after)
<1>1. /\ RequestsOf(x, w) = Now(r, R)
      /\ \A o \in Windows \ {w} : RequestsOf(x, o) = RequestsOf(u, o)
  BY ReplacedRequests
<1> SUFFICES ASSUME NEW o \in Windows, NEW q \in RequestsOf(x, o), q.key = key
             PROVE  /\ key \notin after /\ q.anchor \in tabs[o]
                    /\ key \in DOMAIN x.routes /\ x.routes[key] = [window |-> o, anchor |-> q.anchor]
  BY DEF Led
<1>2. PICK p \in RequestsOf(u, o) : p.key = key /\ p.anchor = q.anchor
  BY <1>1
<1>3. /\ key \notin before /\ p.anchor \in tabs[o]
      /\ key \in DOMAIN u.routes /\ u.routes[key] = [window |-> o, anchor |-> p.anchor]
  BY <1>2 DEF Led
<1>4. u.routes[key].window = o
  BY <1>3
<1>5. key \in DOMAIN x.routes /\ x.routes[key] = u.routes[key]
  BY <1>1, <1>3, <1>4
<1>6. key \notin after
  <2> SUFFICES ASSUME key \in after PROVE FALSE
    OBVIOUS
  <2>1. Has(u, w, key) /\ \A y \in Now(r, R) : y.key # key
    BY <1>3
  <2>2. o # w
    BY <1>1, <2>1
  <2>3. u.routes[key].window = w
    <3>1. PICK y \in RequestsOf(u, w) : y.key = key
      BY <2>1 DEF Has
    <3>2. u.routes[key] = [window |-> w, anchor |-> y.anchor]
      BY <3>1 DEF Led
    <3> QED BY <3>2
  <2> QED BY <1>4, <2>2, <2>3
<1> QED BY <1>2, <1>3, <1>5, <1>6

----------------------------------------------------------------------------
(***************************************************************************)
(* dismiss and showNext.                                                   *)
(***************************************************************************)
LEMMA PairsAreAbout ==
  ASSUME NEW requests, NEW pair \in Keys \X Sources
  PROVE  pair \in PairsOf(requests) <=> \E r \in requests : About(r, pair)
<1>1. pair = <<pair[1], pair[2]>>
  OBVIOUS
<1>2. \A r \in requests : pair \in SourcePairs(r) <=> About(r, pair)
  BY <1>1 DEF SourcePairs, About
<1> QED BY <1>2 DEF PairsOf

KeysOf(requests) == { r.key : r \in requests }

\* The routes when requests of the window are finished.
RoutesWithout(x, u, w, keys) ==
  /\ \A k \in DOMAIN x.routes :
       k \in DOMAIN u.routes /\ x.routes[k] = u.routes[k] /\ ~ (k \in keys /\ u.routes[k].window = w)
  /\ \A k \in DOMAIN u.routes :
       k \notin keys \/ u.routes[k].window # w => k \in DOMAIN x.routes /\ x.routes[k] = u.routes[k]

LEMMA DismissFields ==
  ASSUME NEW u, IsUi(u), NEW w, NEW requests, NEW x, x = DismissRequests(u, w, requests)
  PROVE  /\ IsUi(x) /\ x.refused = u.refused
         /\ x.current = u.current /\ x.active = u.active /\ x.queue = u.queue
         /\ x.pending = Forget(u.pending, PairsOf(requests))
         /\ x.pending.sources = u.pending.sources \ PairsOf(requests)
         /\ RoutesWithout(x, u, w, KeysOf(requests))
<1> DEFINE pending == Forget(u.pending, PairsOf(requests))
           keys == KeysOf(requests)
           forgotten == [u EXCEPT !.pending = pending]
           left == { k \in DOMAIN forgotten.routes : k \in keys => forgotten.routes[k].window # w }
           routes == [k \in left |-> forgotten.routes[k]]
<1>1. x = [forgotten EXCEPT !.routes = routes]
  BY DEF DismissRequests, PairsOf, FinishRoutes, Restrict, KeysOf
<1>2. pending.sources = u.pending.sources \ PairsOf(requests)
  BY DEF Forget
<1>3. /\ \A k \in DOMAIN routes :
           /\ k \in DOMAIN forgotten.routes /\ routes[k] = forgotten.routes[k]
           /\ ~ (k \in keys /\ forgotten.routes[k].window = w)
      /\ \A k \in DOMAIN forgotten.routes :
           k \notin keys \/ forgotten.routes[k].window # w => k \in DOMAIN routes /\ routes[k] = forgotten.routes[k]
  <2> DEFINE old == forgotten.routes
  <2> HIDE DEF keys, forgotten
  <2> QED OBVIOUS
<1> HIDE DEF pending, routes, left, keys
<1>4. /\ IsUi(forgotten) /\ forgotten.pending = pending /\ forgotten.refused = u.refused
      /\ forgotten.current = u.current /\ forgotten.active = u.active /\ forgotten.queue = u.queue
      /\ forgotten.routes = u.routes
  BY DEF IsUi
<1> HIDE DEF forgotten
<1>5. /\ IsUi(x) /\ x.pending = forgotten.pending /\ x.refused = forgotten.refused
      /\ x.current = forgotten.current /\ x.active = forgotten.active /\ x.queue = forgotten.queue
      /\ x.routes = routes
  BY <1>1, <1>4 DEF IsUi
<1>6. RoutesWithout(x, u, w, keys)
  BY <1>3, <1>4, <1>5 DEF RoutesWithout
<1> QED BY <1>2, <1>4, <1>5, <1>6 DEF pending, keys

LEMMA DismissSound ==
  ASSUME NEW u, NEW st, NEW pairs, NEW due, NEW w, NEW requests,
         Sound(u, st, pairs \union PairsOf(requests), due),
         NEW x, x = DismissRequests(u, w, requests)
  PROVE  Sound(x, st, pairs, due)
<1>1. UiOK(u) /\ IsUi(u)
  BY DEF Sound, UiOK
<1>2. /\ IsUi(x) /\ x.refused = u.refused
      /\ x.current = u.current /\ x.active = u.active /\ x.queue = u.queue
      /\ x.pending.sources = u.pending.sources \ PairsOf(requests)
  BY <1>1, DismissFields
<1>4. UiOK(x)
  BY <1>1, <1>2 DEF UiOK
<1>5. \A o \in Windows : Follows(x, o)
  BY <1>2 DEF Sound, Follows
<1>6. \A o \in Windows \ due : Asked(x, st, o)
  BY <1>2 DEF Sound, Asked
<1>7. Covered(x, pairs)
  <2>1. \A o \in Windows : RequestsOf(x, o) = RequestsOf(u, o)
    BY <1>2 DEF RequestsOf
  <2> QED BY <1>2, <2>1 DEF Sound, Covered, Asks
<1> QED BY <1>4, <1>5, <1>6, <1>7 DEF Sound

LEMMA DismissKept ==
  ASSUME NEW u, IsUi(u), NEW w, NEW requests, NEW x, x = DismissRequests(u, w, requests),
         NEW away, Tidy(u, away \union ({w} \X KeysOf(requests))), NEW hand, NEW keys
  PROVE  /\ Tidy(x, away)
         /\ Keeps(u, hand \union PairsOf(requests), keys \union KeysOf(requests), x, hand, keys)
<1> DEFINE finished == KeysOf(requests)
<1>1. /\ x.refused = u.refused /\ x.active = u.active /\ x.queue = u.queue
      /\ x.pending = Forget(u.pending, PairsOf(requests))
      /\ x.pending.sources = u.pending.sources \ PairsOf(requests)
      /\ RoutesWithout(x, u, w, finished)
  BY DismissFields
<1>2. \A o \in Windows : RequestsOf(x, o) = RequestsOf(u, o)
  BY <1>1 DEF RequestsOf
<1>3. Tidy(x, away)
  <2>1. TrackerOK(x.pending)
    <3>1. TrackerOK(u.pending)
      BY DEF Tidy
    <3> QED BY <1>1, <3>1, ForgetOK
  <2>2. RoutesOK(x, away)
    <3> HIDE DEF finished
    <3> SUFFICES ASSUME NEW k \in DOMAIN x.routes
                 PROVE  /\ k \in Keys /\ x.routes[k] \in [window: Windows, anchor: Views]
                        /\ <<x.routes[k].window, k>> \in away \/ Has(x, x.routes[k].window, k)
      BY DEF RoutesOK
    <3>1. k \in DOMAIN u.routes /\ x.routes[k] = u.routes[k] /\ ~ (k \in finished /\ u.routes[k].window = w)
      BY <1>1 DEF RoutesWithout
    <3>2. /\ k \in Keys /\ u.routes[k] \in [window: Windows, anchor: Views]
          /\ <<u.routes[k].window, k>> \in away \union ({w} \X finished) \/ Has(u, u.routes[k].window, k)
      BY <3>1 DEF Tidy, RoutesOK, finished
    <3>3. <<u.routes[k].window, k>> \notin {w} \X finished
      BY <3>1
    <3> QED BY <1>2, <3>1, <3>2, <3>3 DEF Has
  <2> QED BY <1>2, <2>1, <2>2 DEF Tidy
<1>4. Flow(u, hand \union PairsOf(requests), x, hand)
  <2>1. Held(x) = Held(u)
    BY <1>2 DEF Held, AllRequests
  <2> DEFINE gone == PairsOf(requests)
             U == Held(u) \union (hand \union gone)
             X == Held(x) \union hand
  <2>2. U = X \union gone
    BY <2>1
  <2>3. x.pending.sources = u.pending.sources \ gone /\ x.refused = u.refused \union {}
    BY <1>1
  <2> HIDE DEF gone, U, X
  <2>4. /\ gone \subseteq U /\ {} \subseteq U /\ U \ (gone \union {}) \subseteq X /\ X \subseteq U
        /\ \A pair \in {} : FullIn(U, pair)
    BY <2>2
  <2>5. Flows(u, hand \union gone, x, hand, gone, {})
    BY <2>3, <2>4 DEF Flows, U, X
  <2> QED BY <2>5 DEF Flow, gone
<1>5. ASSUME NEW key, Led(u, key, keys \union finished) PROVE Led(x, key, keys)
  <2> HIDE DEF finished
  <2> SUFFICES ASSUME NEW o \in Windows, NEW r \in RequestsOf(u, o), r.key = key
               PROVE  /\ key \notin keys /\ r.anchor \in tabs[o]
                      /\ key \in DOMAIN x.routes /\ x.routes[key] = [window |-> o, anchor |-> r.anchor]
    BY <1>2 DEF Led
  <2>1. /\ key \notin keys \union finished /\ r.anchor \in tabs[o]
        /\ key \in DOMAIN u.routes /\ u.routes[key] = [window |-> o, anchor |-> r.anchor]
    BY <1>5 DEF Led
  <2> QED BY <1>1, <2>1 DEF RoutesWithout
<1> QED BY <1>3, <1>4, <1>5 DEF Keeps

(***************************************************************************)
(* What showNext does where no request is active: of the queued requests   *)
(* some are dropped, one may be shown, and the rest is left.               *)
(***************************************************************************)
Alike(q, r) == q.key = r.key /\ q.anchor = r.anchor /\ q.sources = r.sources

Shows(x, u, w, dropped, shown, rest) ==
  /\ x.pending = Forget(u.pending, PairsOf(dropped))
  /\ x.pending.sources = u.pending.sources \ PairsOf(dropped)
  /\ RoutesWithout(x, u, w, KeysOf(dropped))
  /\ Replaces(x, u, w, x.pending, u.refused, u.current[w], shown, rest)
  /\ WindowOK(shown, rest) /\ WindowFollows(status, u.current[w], shown, rest, FALSE)
  /\ dropped \subseteq u.queue[w] /\ rest \subseteq u.queue[w] \ dropped
  /\ \A q \in u.queue[w] \ dropped : q \in rest \/ (shown # NoRequest /\ Alike(shown, q))
  /\ shown # NoRequest => \E q \in u.queue[w] \ dropped : Alike(shown, q) /\ q \notin rest

LEMMA ShowNextFields ==
  ASSUME NEW u, UiOK(u), NEW w \in Windows, u.active[w] = NoRequest, NEW x, x = ShowNext(u, w)
  PROVE  \E dropped, shown, rest : Shows(x, u, w, dropped, shown, rest)
<1> DEFINE here == { r \in u.queue[w] : r.anchor = u.current[w] /\ Alive(r.anchor) }
           next == IF here = {} THEN NoRequest ELSE First(here)
           dropped == { r \in u.queue[w] : ~ Alive(r.anchor) /\ (here # {} => r.place < next.place) }
           shown == IF here = {} THEN NoRequest ELSE [next EXCEPT !.place = 0]
           rest == u.queue[w] \ (dropped \union {next})
           dismissed == DismissRequests(u, w, dropped)
<1>1. IsUi(u) /\ Numbered(u.queue[w])
  BY DEF UiOK
<1>2. x = [dismissed EXCEPT !.queue[w] = @ \ (dropped \union {next}), !.active[w] = shown]
  <2>1. ~ (u.active[w] # NoRequest)
    OBVIOUS
  <2> QED BY <2>1, Zenon DEF ShowNext
<1>3. /\ IsUi(dismissed) /\ dismissed.refused = u.refused
      /\ dismissed.current = u.current /\ dismissed.active = u.active /\ dismissed.queue = u.queue
      /\ dismissed.pending = Forget(u.pending, PairsOf(dropped))
      /\ dismissed.pending.sources = u.pending.sources \ PairsOf(dropped)
      /\ RoutesWithout(dismissed, u, w, KeysOf(dropped))
  <2> HIDE DEF dropped
  <2> QED BY <1>1, DismissFields
<1>4. here # {} => next \in here
  BY <1>1, FirstIsLeast DEF Numbered, Placed
<1>5. here # {} => IsRequest(shown) /\ shown.place = 0 /\ Alike(shown, next) /\ shown # NoRequest
  <2> SUFFICES ASSUME here # {} PROVE IsRequest(shown) /\ shown.place = 0 /\ Alike(shown, next) /\ shown # NoRequest
    OBVIOUS
  <2>1. IsRequest(next)
    BY <1>1, <1>4 DEF Numbered
  <2>2. shown = [next EXCEPT !.place = 0]
    OBVIOUS
  <2> HIDE DEF shown, next
  <2>3. /\ IsRequest(shown) /\ shown.place = 0 /\ shown.key = next.key
        /\ shown.anchor = next.anchor /\ shown.sources = next.sources
    BY <2>1, <2>2 DEF IsRequest
  <2> QED BY <2>3, IsNoRequest DEF Alike
<1>6. dropped \subseteq u.queue[w] /\ rest \subseteq u.queue[w] \ dropped
  OBVIOUS
<1>7. here # {} => next \in u.queue[w] \ dropped /\ next \notin rest
  BY <1>4
<1> HIDE DEF dropped, shown, next, dismissed
<1>8. /\ x.pending = dismissed.pending /\ x.routes = dismissed.routes
      /\ Replaces(x, u, w, dismissed.pending, u.refused, u.current[w], shown, rest)
  <2>1. x = [dismissed EXCEPT !.queue[w] = rest, !.active[w] = shown]
    BY <1>2, <1>3
  <2> HIDE DEF rest, here
  <2>2. /\ IsUi(x) /\ x.pending = dismissed.pending /\ x.refused = dismissed.refused
        /\ x.routes = dismissed.routes /\ x.current = dismissed.current
        /\ x.active = [dismissed.active EXCEPT ![w] = shown] /\ x.queue = [dismissed.queue EXCEPT ![w] = rest]
    BY <1>3, <2>1 DEF IsUi
  <2>3. u.current = [u.current EXCEPT ![w] = u.current[w]]
    BY OfWindowsSame DEF UiOK
  <2> QED BY <1>3, <2>2, <2>3 DEF Replaces
<1>9. WindowOK(shown, rest)
  <2>1. Numbered(rest)
    BY <1>1, <1>6 DEF Numbered, Placed
  <2>2. shown = NoRequest \/ (IsRequest(shown) /\ shown.place = 0)
    BY <1>5 DEF shown
  <2> QED BY <2>1, <2>2 DEF WindowOK
<1>10. WindowFollows(status, u.current[w], shown, rest, FALSE)
  <2>1. shown # NoRequest => here # {}
    BY DEF shown
  <2>2. shown = NoRequest => here = {}
    BY <1>5
  <2> QED BY <1>4, <1>5, <2>1, <2>2 DEF WindowFollows, Alive, Alike
<1>11. \A q \in u.queue[w] \ dropped : q \in rest \/ (shown # NoRequest /\ Alike(shown, q))
  <2> SUFFICES ASSUME NEW q \in u.queue[w] \ dropped, q \notin rest PROVE shown # NoRequest /\ Alike(shown, q)
    OBVIOUS
  <2>1. q = next
    OBVIOUS
  <2>2. here # {}
    BY <1>1, <2>1, IsNoRequest DEF next, Numbered
  <2> QED BY <1>5, <2>1, <2>2
<1>12. shown # NoRequest => \E q \in u.queue[w] \ dropped : Alike(shown, q) /\ q \notin rest
  <2>1. shown # NoRequest => here # {}
    BY DEF shown
  <2> QED BY <1>5, <1>7, <2>1
<1> HIDE DEF rest, here
<1>13. RoutesWithout(x, u, w, KeysOf(dropped))
  BY <1>3, <1>8 DEF RoutesWithout
<1>14. Shows(x, u, w, dropped, shown, rest)
  BY <1>3, <1>6, <1>8, <1>9, <1>10, <1>11, <1>12, <1>13 DEF Shows
<1> QED BY <1>14

LEMMA ShowNextSound ==
  ASSUME NEW u, NEW pairs, NEW due, NEW left, NEW w \in Windows, Sound(u, status, pairs, due),
         due \subseteq left \union {w},
         NEW x, x = ShowNext(u, w)
  PROVE  Sound(x, status, pairs, left)
<1>1. CASE u.active[w] # NoRequest
  <2>1. x = u
    BY <1>1 DEF ShowNext
  <2>2. \A o \in Windows \ left : Asked(u, status, o)
    BY <1>1 DEF Sound, Asked
  <2> QED BY <2>1, <2>2 DEF Sound
<1>2. CASE u.active[w] = NoRequest
  <2>1. UiOK(u)
    BY DEF Sound
  <2>2. PICK dropped, shown, rest : Shows(x, u, w, dropped, shown, rest)
    BY <1>2, <2>1, ShowNextFields
  <2> DEFINE pending == x.pending
  <2>3. Replaces(x, u, w, pending, u.refused, u.current[w], shown, rest) /\ WindowOK(shown, rest)
    BY <2>2 DEF Shows
  <2>4. StillAsked(u, w, pairs, pairs, pending, u.refused, shown, rest)
    <3> SUFFICES ASSUME NEW pair \in pending.sources, NEW q \in RequestsOf(u, w), About(q, pair)
                 PROVE  \E r \in rest \union ({shown} \ {NoRequest}) : About(r, pair)
      BY <2>2 DEF StillAsked, Shows
    <3>1. q \in u.queue[w] /\ pair \in Keys \X Sources /\ pair \notin PairsOf(dropped)
      BY <1>2, <2>1, <2>2 DEF RequestsOf, UiOK, Shows
    <3>2. q \notin dropped
      BY <3>1, PairsAreAbout
    <3>3. q \in rest \/ (shown # NoRequest /\ Alike(shown, q))
      BY <2>2, <3>1, <3>2 DEF Shows
    <3> QED BY <3>3 DEF Alike, About
  <2>5. WindowFollows(status, u.current[w], shown, rest, w \in left)
    BY <2>2 DEF Shows, WindowFollows
  <2> HIDE DEF pending
  <2> QED BY <2>3, <2>4, <2>5, ReplacedSound
<1> QED BY <1>1, <1>2

LEMMA ShowNextKept ==
  ASSUME NEW u, UiOK(u), NEW w \in Windows, NEW x, x = ShowNext(u, w),
         NEW away, Tidy(u, away), NEW hand
  PROVE  /\ Tidy(x, away)
         /\ \E gone : Flows(u, hand, x, hand, gone, {})
         /\ \A key, keys : Led(u, key, keys) => Led(x, key, keys)
<1>1. CASE u.active[w] # NoRequest
  <2>1. x = u
    BY <1>1 DEF ShowNext
  <2>2. Flows(u, hand, x, hand, {}, {})
    BY <2>1, NothingFlows
  <2> QED BY <2>1, <2>2
<1>2. CASE u.active[w] = NoRequest
  <2>1. PICK dropped, shown, rest : Shows(x, u, w, dropped, shown, rest)
    BY <1>2, ShowNextFields
  <2> DEFINE pending == x.pending
             c == u.current[w]
             queue == u.queue[w]
             now == Now(shown, rest)
  <2>2. ReplacedFields(x, u, w, pending, u.refused, c, shown, rest)
    <3>1. pending.sources \subseteq Keys \X Sources
      BY <2>1 DEF Shows, UiOK
    <3> HIDE DEF pending, c
    <3>2. Replaces(x, u, w, pending, u.refused, c, shown, rest) /\ WindowOK(shown, rest)
      BY <2>1 DEF Shows, pending, c
    <3> QED BY <3>1, <3>2, ReplacedOK
  <2>3. RequestsOf(u, w) = queue
    BY <1>2 DEF RequestsOf
  <2>4. /\ \A q \in now : \E p \in queue \ dropped : Alike(q, p) /\ (q = p \/ (q = shown /\ p \notin rest))
        /\ \A p \in queue \ dropped : \E q \in now : Alike(q, p)
        /\ dropped \subseteq queue
    BY <2>1 DEF Shows, Now, Alike
  <2>5. Tidied(queue) /\ (w \notin Registered => queue = {})
    BY <2>3 DEF Tidy
  <2> HIDE DEF pending, c, queue, now
  <2>6. Tidied(now)
    <3>1. \A q \in now : Askable(q)
      BY <2>4, <2>5 DEF Tidied, Askable, Alike
    <3>2. ASSUME NEW q \in now, NEW r \in now, q.key = r.key PROVE q = r
      <4>1. PICK p \in queue \ dropped : Alike(q, p) /\ (q = p \/ (q = shown /\ p \notin rest))
        BY <2>4
      <4>2. PICK o \in queue \ dropped : Alike(r, o) /\ (r = o \/ (r = shown /\ o \notin rest))
        BY <2>4
      <4>3. p = o
        BY <2>5, <3>2, <4>1, <4>2 DEF Tidied, KeysDiffer, Alike
      <4>4. q \in rest \/ q = shown
        BY DEF now, Now
      <4>5. r \in rest \/ r = shown
        BY DEF now, Now
      <4> QED BY <4>1, <4>2, <4>3, <4>4, <4>5
    <3> QED BY <3>1, <3>2 DEF Tidied, KeysDiffer
  <2>7. RoutesWithout(x, u, w, KeysOf(dropped))
    BY <2>1 DEF Shows
  <2>8. Tidy(x, away)
    <3>1. TrackerOK(pending)
      <4>1. TrackerOK(u.pending) /\ pending = Forget(u.pending, PairsOf(dropped))
        BY <2>1 DEF Tidy, Shows, pending
      <4> QED BY <4>1, ForgetOK
    <3>2. ASSUME NEW k \in DOMAIN x.routes
          PROVE  /\ k \in DOMAIN u.routes /\ x.routes[k] = u.routes[k]
                 /\ x.routes[k].window = w => <<w, k>> \in away \/ \E q \in now : q.key = k
      <4>1. /\ k \in DOMAIN u.routes /\ x.routes[k] = u.routes[k]
            /\ ~ (k \in KeysOf(dropped) /\ u.routes[k].window = w)
        BY <2>7 DEF RoutesWithout
      <4>2. ASSUME x.routes[k].window = w, <<w, k>> \notin away PROVE \E q \in now : q.key = k
        <5>1. PICK p \in queue : p.key = k
          BY <2>3, <4>1, <4>2 DEF Tidy, RoutesOK, Has
        <5>2. p \notin dropped
          BY <4>1, <4>2, <5>1 DEF KeysOf
        <5> QED BY <2>4, <5>1, <5>2 DEF Alike
      <4> QED BY <4>1, <4>2
    <3>3. w \in Registered \/ now = {}
      BY <2>4, <2>5
    <3>4. \A o \in Windows, k \in Keys : <<o, k>> \in away => o = w \/ <<o, k>> \in away
      OBVIOUS
    <3> DEFINE refused == u.refused
    <3>5. ReplacedFields(x, u, w, pending, refused, c, shown, rest)
      BY <2>2
    <3> HIDE DEF refused
    <3> QED BY <2>6, <3>1, <3>2, <3>3, <3>4, <3>5, ReplacedTidy DEF now
  <2>9. Flows(u, hand, x, hand, PairsOf(dropped), {})
    <3> DEFINE gone == PairsOf(dropped)
               refused == u.refused
               lost == {}
               here == PairsOf(queue)
               then == PairsOf(now)
    <3>1. pending.sources = u.pending.sources \ gone /\ refused = u.refused \union lost
      BY <2>1 DEF Shows, pending
    <3>2. gone \subseteq here /\ here \ gone \subseteq then /\ then \subseteq here
      <4>1. \A q, p : Alike(q, p) => SourcePairs(q) = SourcePairs(p)
        BY DEF Alike, SourcePairs
      <4>2. here \ gone \subseteq then
        BY <2>4, <4>1 DEF PairsOf
      <4>3. then \subseteq here
        BY <2>4, <4>1 DEF PairsOf
      <4> QED BY <2>4, <4>2, <4>3 DEF PairsOf
    <3>3. /\ RequestsOf(u, w) = queue /\ now = Now(shown, rest)
          /\ ReplacedFields(x, u, w, pending, refused, c, shown, rest)
      BY <2>2, <2>3 DEF now
    <3> HIDE DEF gone, refused, lost, now, queue
    <3>4. /\ gone \union lost \subseteq here \union hand
          /\ (here \union hand) \ (gone \union lost) \subseteq then \union hand
          /\ then \union hand \subseteq here \union hand
          /\ \A pair \in lost : FullIn(here \union hand, pair)
      <4> HIDE DEF here, then
      <4> QED BY <3>2 DEF lost
    <3>5. /\ gone \union lost \subseteq PairsOf(RequestsOf(u, w)) \union hand
          /\ (PairsOf(RequestsOf(u, w)) \union hand) \ (gone \union lost) \subseteq PairsOf(Now(shown, rest)) \union hand
          /\ PairsOf(Now(shown, rest)) \union hand \subseteq PairsOf(RequestsOf(u, w)) \union hand
          /\ \A pair \in lost : FullIn(PairsOf(RequestsOf(u, w)) \union hand, pair)
      BY <3>3, <3>4
    <3>6. Flows(u, hand, x, hand, gone, lost)
      BY <3>1, <3>3, <3>5, ReplacedFlows
    <3> QED BY <3>6 DEF gone, lost
  <2>10. ASSUME NEW key, NEW keys, Led(u, key, keys) PROVE Led(x, key, keys)
    <3>1. \A q \in now : \E p \in RequestsOf(u, w) : q.key = p.key /\ q.anchor = p.anchor
      BY <2>3, <2>4 DEF Alike
    <3>2. ASSUME NEW k \in DOMAIN u.routes, u.routes[k].window # w \/ (\E q \in now : q.key = k)
          PROVE  k \in DOMAIN x.routes /\ x.routes[k] = u.routes[k]
      <4>1. k \notin KeysOf(dropped) \/ u.routes[k].window # w
        BY <2>4, <2>5, <3>2 DEF KeysOf, Tidied, KeysDiffer, Alike
      <4> QED BY <2>7, <4>1 DEF RoutesWithout
    <3> DEFINE refused == u.refused
    <3>3. ReplacedFields(x, u, w, pending, refused, c, shown, rest)
      BY <2>2
    <3> HIDE DEF refused
    <3> QED BY <2>10, <3>1, <3>2, <3>3, ReplacedLed DEF now
  <2> QED BY <2>8, <2>9, <2>10
<1> QED BY <1>1, <1>2

----------------------------------------------------------------------------
(***************************************************************************)
(* request, currentViewChanged and a reanchored request.                   *)
(***************************************************************************)
LEMMA ViewsMerged ==
  ASSUME NEW r, IsRequest(r), NEW affected
  PROVE  LET y == MergeViews(r, affected)
         IN  IsRequest(y) /\ y.place = r.place /\ y.key = r.key /\ y.anchor = r.anchor /\ y.sources = r.sources
<1> DEFINE merged == MergeViews(r, affected)
<1>1. PICK some : merged = [r EXCEPT !.affected = some]
  BY Zenon DEF MergeViews
<1> HIDE DEF merged
<1>2. /\ IsRequest(merged) /\ merged.place = r.place /\ merged.key = r.key
      /\ merged.anchor = r.anchor /\ merged.sources = r.sources
  BY <1>1 DEF IsRequest
<1> QED BY <1>2 DEF merged

LEMMA MergedFields ==
  ASSUME NEW r, IsRequest(r), NEW affected, NEW sources,
         NEW z, z = MergeSources(MergeViews(r, affected), sources)
  PROVE  /\ IsRequest(z) /\ z.place = r.place /\ z.key = r.key /\ z.anchor = r.anchor
         /\ r.sources \subseteq z.sources
<1> DEFINE y == MergeViews(r, affected)
<1>1. IsRequest(y) /\ y.place = r.place /\ y.key = r.key /\ y.anchor = r.anchor /\ y.sources = r.sources
  BY ViewsMerged
<1>2. PICK taken : z = [y EXCEPT !.sources = @ \union taken]
  BY DEF MergeSources
<1> HIDE DEF y
<1>4. /\ IsRequest(z) /\ z.place = y.place /\ z.key = y.key /\ z.anchor = y.anchor
      /\ z.sources = y.sources \union taken
  BY <1>1, <1>2 DEF IsRequest
<1> QED BY <1>1, <1>4

\* Sources a request may hold.
Enough(sources) ==
  sources \in SUBSET Sources /\ IsFiniteSet(sources) /\ Cardinality(sources) <= MaxSourcesPerRequest

(***************************************************************************)
(* A request takes sources while it has room: it takes them all, or it is  *)
(* full afterwards.                                                        *)
(***************************************************************************)
LEMMA MergedSources ==
  ASSUME NEW r, IsRequest(r), Enough(r.sources), NEW affected, NEW sources, Enough(sources),
         NEW z, z = MergeSources(MergeViews(r, affected), sources)
  PROVE  /\ Enough(z.sources) /\ r.sources \subseteq z.sources /\ z.sources \subseteq r.sources \union sources
         /\ sources \subseteq z.sources \/ Cardinality(z.sources) = MaxSourcesPerRequest
<1> DEFINE y == MergeViews(r, affected)
           new == sources \ r.sources
           room == MaxSourcesPerRequest - Cardinality(r.sources)
           taken == IF Cardinality(new) <= room THEN new
                    ELSE CHOOSE some \in SUBSET new : Cardinality(some) = room
<1>2. IsRequest(y) /\ y.sources = r.sources
  BY ViewsMerged
<1> HIDE DEF y
<1>3. z = [y EXCEPT !.sources = r.sources \union taken]
  <2>1. z = [y EXCEPT !.sources = y.sources \union
               (IF Cardinality(sources \ y.sources) <= MaxSourcesPerRequest - Cardinality(y.sources)
                THEN sources \ y.sources
                ELSE CHOOSE some \in SUBSET (sources \ y.sources) :
                       Cardinality(some) = MaxSourcesPerRequest - Cardinality(y.sources))]
    BY Zenon DEF MergeSources, y
  <2> QED BY <1>2, <2>1
<1>4. IsFiniteSet(new) /\ Cardinality(new) \in Nat /\ room \in Nat
  <2>1. IsFiniteSet(new)
    BY FS_Difference DEF Enough
  <2> QED BY <2>1, FS_CardinalityType, TrackerAssumption DEF Enough
<1>5. /\ taken \in SUBSET new /\ Cardinality(taken) <= room
      /\ taken = new \/ Cardinality(taken) = room
  <2>1. CASE Cardinality(new) <= room
    BY <2>1
  <2>2. CASE ~ (Cardinality(new) <= room)
    <3>1. \E some \in SUBSET new : Cardinality(some) = room
      <4> HIDE DEF new, room
      <4> QED BY <1>4, <2>2, SubsetOfSize
    <3>2. taken \in SUBSET new /\ Cardinality(taken) = room
      <4> HIDE DEF new, room
      <4> QED BY <2>2, <3>1
    <3> QED BY <1>4, <3>2
  <2> QED BY <2>1, <2>2
<1> HIDE DEF taken
<1>6. z.sources = r.sources \union taken
  BY <1>2, <1>3 DEF IsRequest
<1>7. IsFiniteSet(taken) /\ Cardinality(taken) \in Nat
  BY <1>4, <1>5, FS_Subset, FS_CardinalityType
<1>8. /\ IsFiniteSet(z.sources) /\ Cardinality(z.sources) = Cardinality(r.sources) + Cardinality(taken)
  <2>1. r.sources \intersect taken = {}
    BY <1>5
  <2>2. Cardinality(r.sources) \in Nat /\ IsFiniteSet(r.sources)
    BY FS_CardinalityType DEF Enough
  <2>3. Cardinality(r.sources \union taken) = Cardinality(r.sources) + Cardinality(taken) - Cardinality(r.sources \intersect taken)
    BY <1>7, <2>2, FS_Union
  <2>4. IsFiniteSet(r.sources \union taken)
    BY <1>7, <2>2, FS_Union
  <2>5. Cardinality(r.sources \intersect taken) = 0
    BY <2>1, FS_EmptySet
  <2> QED BY <1>6, <1>7, <2>2, <2>3, <2>4, <2>5
<1>9. Cardinality(r.sources) \in Nat /\ MaxSourcesPerRequest \in Nat
  BY FS_CardinalityType, TrackerAssumption DEF Enough
<1>10. z.sources \in SUBSET Sources
  BY <1>5, <1>6 DEF Enough
<1>11. Cardinality(z.sources) <= MaxSourcesPerRequest
  BY <1>5, <1>7, <1>8, <1>9
<1>12. sources \subseteq z.sources \/ Cardinality(z.sources) = MaxSourcesPerRequest
  BY <1>5, <1>6, <1>7, <1>8, <1>9
<1> QED BY <1>5, <1>6, <1>8, <1>10, <1>11, <1>12 DEF Enough

LEMMA SourcePairsMany ==
  ASSUME NEW r, IsFiniteSet(r.sources)
  PROVE  Cardinality(SourcePairs(r)) = Cardinality(r.sources)
<1> DEFINE f == [s \in r.sources |-> <<r.key, s>>]
<1>1. f \in Bijection(r.sources, SourcePairs(r))
  <2>1. \A s, t \in r.sources : f[s] = f[t] => s = t
    OBVIOUS
  <2>2. f \in [r.sources -> SourcePairs(r)] /\ \A p \in SourcePairs(r) : \E s \in r.sources : f[s] = p
    BY DEF SourcePairs
  <2> HIDE DEF f
  <2> QED BY <2>1, <2>2 DEF Bijection, Injection, Surjection, IsInjective
<1>2. ExistsBijection(r.sources, SourcePairs(r))
  BY <1>1 DEF ExistsBijection
<1> QED BY <1>2, FS_Bijection

\* The sources of a key, which are asked about next.
Given(key, sources) == { <<key, s>> : s \in sources }

(***************************************************************************)
(* A request of the window gets the sources, or is a new one with them:    *)
(* what it does not take is refused.                                       *)
(***************************************************************************)
LEMMA MergedIsAsked ==
  ASSUME NEW u, IsUi(u), NEW pending, pending = u.pending, pending.sources \subseteq Keys \X Sources,
         NEW w, NEW pairs, NEW key, NEW sources,
         NEW z, z.key = key, NEW refused, refused = u.refused \union Given(key, sources \ z.sources),
         NEW r, NEW R, z \in R \union ({r} \ {NoRequest}),
         \A q \in RequestsOf(u, w) :
           \/ q \in R \union ({r} \ {NoRequest})
           \/ q.key = key /\ q.sources \subseteq z.sources
  PROVE  StillAsked(u, w, pairs \union Given(key, sources), pairs, pending, refused, r, R)
<1> SUFFICES ASSUME NEW pair \in pending.sources, pair \notin pairs, pair \notin refused,
                    pair \in Given(key, sources) \/ \E q \in RequestsOf(u, w) : About(q, pair)
             PROVE  \E q \in R \union ({r} \ {NoRequest}) : About(q, pair)
  BY DEF StillAsked
<1>1. CASE pair \in Given(key, sources)
  <2>1. PICK s \in sources : pair = <<key, s>>
    BY <1>1 DEF Given
  <2>2. s \in z.sources
    BY <2>1 DEF Given
  <2>3. About(z, pair)
    BY <2>1, <2>2 DEF About
  <2> QED BY <2>3
<1>2. CASE \E q \in RequestsOf(u, w) : About(q, pair)
  BY <1>2 DEF About
<1> QED BY <1>1, <1>2

(***************************************************************************)
(* What request does: it merges the sources into a request of the window,  *)
(* or queues a new one and shows the next.                                 *)
(***************************************************************************)
Takes(r, z, sources) ==
  Enough(r.sources) /\ Enough(sources) =>
    /\ Enough(z.sources) /\ z.sources \subseteq r.sources \union sources
    /\ sources \subseteq z.sources \/ Cardinality(z.sources) = MaxSourcesPerRequest

Merges(x, u, w, key, sources, r, z, c, R) ==
  /\ r \in RequestsOf(u, w) /\ r.key = key
  /\ z.key = key /\ z.anchor = r.anchor /\ r.sources \subseteq z.sources /\ Takes(r, z, sources)
  /\ Replaces(x, u, w, u.pending, u.refused \union Given(key, sources \ z.sources), u.current[w], c, R)
  /\ x.routes = u.routes
  /\ WindowOK(c, R) /\ Now(c, R) = (RequestsOf(u, w) \ {r}) \union {z}
  /\ c = NoRequest <=> u.active[w] = NoRequest
  /\ c # NoRequest => c.anchor = u.active[w].anchor
  /\ \A q \in R : \E p \in u.queue[w] : q.anchor = p.anchor

Adds(x, u, w, anchor, key, sources, z, R) ==
  /\ \A q \in RequestsOf(u, w) : q.key # key
  /\ z.key = key /\ z.anchor = anchor /\ (Enough(sources) => z.sources = sources)
  /\ Replaces(x, u, w, u.pending, u.refused \union Given(key, sources \ z.sources),
              u.current[w], u.active[w], R)
  /\ x.routes = u.routes
  /\ WindowOK(u.active[w], R) /\ R = u.queue[w] \union {z}

LEMMA RequestParts ==
  ASSUME NEW u, UiOK(u), NEW w \in Windows, NEW anchor \in Views, NEW affected, NEW sources, NEW key,
         NEW x, x = Request(u, w, anchor, affected, sources, key)
  PROVE  \/ \E r, z, c, R : Merges(x, u, w, key, sources, r, z, c, R)
         \/ \E added, z, R : Adds(added, u, w, anchor, key, sources, z, R) /\ x = ShowNext(added, w)
<1> DEFINE all == IF \E i \in DOMAIN affected : affected[i].view = anchor THEN affected
                  ELSE << [view |-> anchor, url |-> url[anchor]] >> \o affected
           Merged(r) == MergeSources(MergeViews(r, all), sources)
           Refused(r) == u.refused \union Given(key, sources \ Merged(r).sources)
           same == { r \in u.queue[w] : r.key = key }
           queued == First(same)
           fresh == [place |-> LastPlace(u.queue[w]) + 1, key |-> key, anchor |-> anchor,
                     affected |-> << >>, sources |-> {}]
           added == [u EXCEPT !.queue[w] = @ \union {Merged(fresh)}, !.refused = Refused(fresh)]
           a == u.active[w]
           Q == u.queue[w]
<1>1. /\ IsUi(u) /\ Numbered(Q) /\ (a = NoRequest \/ (IsRequest(a) /\ a.place = 0))
      /\ u.current = [u.current EXCEPT ![w] = u.current[w]]
      /\ u.active = [u.active EXCEPT ![w] = a] /\ u.queue = [u.queue EXCEPT ![w] = Q]
  BY OfWindowsSame DEF UiOK
<1>2. x = IF a # NoRequest /\ a.key = key
          THEN [u EXCEPT !.active[w] = Merged(@), !.refused = Refused(a)]
          ELSE IF same # {}
          THEN [u EXCEPT !.queue[w] = (@ \ {queued}) \union {Merged(queued)}, !.refused = Refused(queued)]
          ELSE ShowNext(added, w)
  BY DEF Request, Given
<1>3. ASSUME NEW r, IsRequest(r)
      PROVE  /\ IsRequest(Merged(r)) /\ Merged(r) # NoRequest /\ Merged(r).place = r.place
             /\ Merged(r).key = r.key /\ Merged(r).anchor = r.anchor /\ r.sources \subseteq Merged(r).sources
             /\ Takes(r, Merged(r), sources)
  <2> HIDE DEF all
  <2>1. Takes(r, Merged(r), sources)
    BY <1>3, MergedSources DEF Takes
  <2> QED BY <1>3, <2>1, MergedFields, IsNoRequest
<1>0. a \notin Q
  BY <1>1, IsNoRequest DEF Numbered, Placed
<1> HIDE DEF all
<1>4. CASE a # NoRequest /\ a.key = key
  <2> DEFINE z == Merged(a)
             refused == Refused(a)
  <2>1. /\ IsRequest(z) /\ z # NoRequest /\ z.place = 0 /\ z.key = key /\ z.anchor = a.anchor
        /\ a.sources \subseteq z.sources /\ Takes(a, z, sources)
        /\ refused = u.refused \union Given(key, sources \ z.sources)
    BY <1>1, <1>3, <1>4
  <2>2. x = [u EXCEPT !.active[w] = z, !.refused = refused]
    BY <1>2, <1>4
  <2> HIDE DEF z, refused, Merged, Refused
  <2>3. Replaces(x, u, w, u.pending, refused, u.current[w], z, Q) /\ x.routes = u.routes
    <3>1. /\ IsUi(x) /\ x.pending = u.pending /\ x.refused = refused /\ x.current = u.current
          /\ x.active = [u.active EXCEPT ![w] = z] /\ x.queue = u.queue /\ x.routes = u.routes
      BY <1>1, <2>2 DEF IsUi
    <3> QED BY <1>1, <3>1 DEF Replaces
  <2>4. WindowOK(z, Q) /\ Now(z, Q) = (RequestsOf(u, w) \ {a}) \union {z} /\ a \in RequestsOf(u, w)
    BY <1>0, <1>1, <1>4, <2>1 DEF WindowOK, Now, RequestsOf
  <2>5. Merges(x, u, w, key, sources, a, z, z, Q)
    BY <1>4, <2>1, <2>3, <2>4 DEF Merges
  <2> QED BY <2>5
<1>5. CASE ~ (a # NoRequest /\ a.key = key) /\ same # {}
  <2> DEFINE z == Merged(queued)
             refused == Refused(queued)
             R == (Q \ {queued}) \union {z}
  <2>1. queued \in Q /\ queued.key = key /\ IsRequest(queued)
    <3>1. \A q \in same : q.place \in Nat
      BY <1>1 DEF Numbered, Placed
    <3>2. queued \in same
      BY <1>5, <3>1, FirstIsLeast
    <3> QED BY <1>1, <3>2 DEF Numbered
  <2>2. /\ IsRequest(z) /\ z # NoRequest /\ z.place = queued.place /\ z.key = key /\ z.anchor = queued.anchor
        /\ queued.sources \subseteq z.sources /\ Takes(queued, z, sources)
        /\ refused = u.refused \union Given(key, sources \ z.sources)
    <3> HIDE DEF queued
    <3> QED BY <1>3, <2>1
  <2>3. x = [u EXCEPT !.queue[w] = R, !.refused = refused]
    BY <1>2, <1>5
  <2> HIDE DEF z, refused, Merged, Refused, queued, same
  <2>4. Replaces(x, u, w, u.pending, refused, u.current[w], a, R) /\ x.routes = u.routes
    <3> HIDE DEF R
    <3>1. /\ IsUi(x) /\ x.pending = u.pending /\ x.refused = refused /\ x.current = u.current
          /\ x.active = u.active /\ x.queue = [u.queue EXCEPT ![w] = R] /\ x.routes = u.routes
      BY <1>1, <2>3 DEF IsUi
    <3> QED BY <1>1, <3>1 DEF Replaces
  <2>5. WindowOK(a, R)
    <3>1. Numbered(R)
      BY <1>1, <2>1, <2>2 DEF Numbered, Placed
    <3> QED BY <1>1, <3>1 DEF WindowOK
  <2>6. Now(a, R) = (RequestsOf(u, w) \ {queued}) \union {z} /\ queued \in RequestsOf(u, w)
    BY <1>0, <2>1 DEF Now, RequestsOf
  <2>7. \A q \in R : \E p \in Q : q.anchor = p.anchor
    BY <2>1, <2>2
  <2> HIDE DEF R
  <2>8. Merges(x, u, w, key, sources, queued, z, a, R)
    BY <2>1, <2>2, <2>4, <2>5, <2>6, <2>7 DEF Merges
  <2> QED BY <2>8
<1>6. CASE ~ (a # NoRequest /\ a.key = key) /\ same = {}
  <2> DEFINE z == Merged(fresh)
             refused == Refused(fresh)
             R == Q \union {z}
  <2>1. LastPlace(Q) \in Nat /\ \A q \in Q : q.place <= LastPlace(Q)
    BY <1>1, LastPlaceIsLast DEF Numbered
  <2>2. IsRequest(fresh) /\ fresh.place = LastPlace(Q) + 1 /\ fresh.key = key /\ fresh.anchor = anchor
        /\ fresh.sources = {}
    BY <2>1 DEF IsRequest
  <2>3. /\ IsRequest(z) /\ z.place = LastPlace(Q) + 1 /\ z.key = key /\ z.anchor = anchor
        /\ Takes(fresh, z, sources) /\ refused = u.refused \union Given(key, sources \ z.sources)
    <3> HIDE DEF fresh
    <3> QED BY <1>3, <2>2
  <2>4. x = ShowNext(added, w) /\ added = [u EXCEPT !.queue[w] = R, !.refused = refused]
    BY <1>2, <1>6
  <2>5. \A q \in RequestsOf(u, w) : q.key # key
    BY <1>6 DEF RequestsOf
  <2>6. Enough(sources) => z.sources = sources
    <3> HIDE DEF fresh, z
    <3> SUFFICES ASSUME Enough(sources) PROVE z.sources = sources
      OBVIOUS
    <3>1. Enough({})
      BY FS_EmptySet, TrackerAssumption DEF Enough
    <3>2. /\ Enough(z.sources) /\ z.sources \subseteq sources
          /\ sources \subseteq z.sources \/ Cardinality(z.sources) = MaxSourcesPerRequest
      BY <2>2, <2>3, <3>1 DEF Takes
    <3>3. Cardinality(z.sources) <= Cardinality(sources) /\ (Cardinality(sources) = Cardinality(z.sources) => sources = z.sources)
      BY <3>2, FS_Subset DEF Enough
    <3>4. Cardinality(sources) \in Nat /\ Cardinality(z.sources) \in Nat /\ MaxSourcesPerRequest \in Nat
      BY <3>2, FS_CardinalityType, TrackerAssumption DEF Enough
    <3>5. Cardinality(sources) <= MaxSourcesPerRequest
      BY DEF Enough
    <3>6. Cardinality(z.sources) = MaxSourcesPerRequest => Cardinality(sources) = Cardinality(z.sources)
      BY <3>3, <3>4, <3>5
    <3>7. sources \subseteq z.sources => z.sources = sources
      BY <3>2
    <3> QED BY <3>2, <3>3, <3>6, <3>7
  <2> HIDE DEF z, refused, Merged, Refused, fresh, same, added
  <2>7. Replaces(added, u, w, u.pending, refused, u.current[w], a, R) /\ added.routes = u.routes
    <3> HIDE DEF R
    <3>1. /\ IsUi(added) /\ added.pending = u.pending /\ added.refused = refused /\ added.current = u.current
          /\ added.active = u.active /\ added.queue = [u.queue EXCEPT ![w] = R] /\ added.routes = u.routes
      BY <1>1, <2>4 DEF IsUi
    <3> QED BY <1>1, <3>1 DEF Replaces
  <2>8. WindowOK(a, R)
    <3>1. Placed(R)
      BY <1>1, <2>1, <2>3 DEF Numbered, Placed
    <3>2. Numbered(R)
      BY <1>1, <2>3, <3>1 DEF Numbered
    <3> QED BY <1>1, <3>2 DEF WindowOK
  <2>9. Adds(added, u, w, anchor, key, sources, z, R)
    BY <2>3, <2>5, <2>6, <2>7, <2>8 DEF Adds
  <2> QED BY <2>4, <2>9
<1> QED BY <1>4, <1>5, <1>6

LEMMA RequestSound ==
  ASSUME NEW u, NEW pairs, NEW due, NEW w \in Windows, NEW anchor \in Views, NEW affected, NEW sources, NEW key,
         Sound(u, status, pairs \union Given(key, sources), due),
         NEW x, x = Request(u, w, anchor, affected, sources, key)
  PROVE  Sound(x, status, pairs, due)
<1>1. /\ UiOK(u) /\ IsUi(u) /\ u.pending.sources \subseteq Keys \X Sources
  BY DEF Sound, UiOK
<1>2. CASE \E r, z, c, R : Merges(x, u, w, key, sources, r, z, c, R)
  <2>1. PICK r, z, c, R : Merges(x, u, w, key, sources, r, z, c, R)
    BY <1>2
  <2> DEFINE refused == u.refused \union Given(key, sources \ z.sources)
  <2>2. Replaces(x, u, w, u.pending, refused, u.current[w], c, R) /\ WindowOK(c, R)
    BY <2>1 DEF Merges
  <2>3. WindowFollows(status, u.current[w], c, R, w \in due)
    BY <2>1 DEF Merges, WindowFollows, Sound, Follows, Asked
  <2>4. StillAsked(u, w, pairs \union Given(key, sources), pairs, u.pending, refused, c, R)
    <3>1. z.key = key /\ z \in R \union ({c} \ {NoRequest})
      BY <2>1 DEF Merges, Now
    <3>2. \A q \in RequestsOf(u, w) :
            \/ q \in R \union ({c} \ {NoRequest})
            \/ q.key = key /\ q.sources \subseteq z.sources
      BY <2>1 DEF Merges, Now
    <3> QED BY <1>1, <3>1, <3>2, MergedIsAsked
  <2> HIDE DEF refused
  <2> QED BY <2>2, <2>3, <2>4, ReplacedSound
<1>3. CASE \E added, z, R : Adds(added, u, w, anchor, key, sources, z, R) /\ x = ShowNext(added, w)
  <2>1. PICK added, z, R : Adds(added, u, w, anchor, key, sources, z, R) /\ x = ShowNext(added, w)
    BY <1>3
  <2> DEFINE refused == u.refused \union Given(key, sources \ z.sources)
             a == u.active[w]
  <2>2. Replaces(added, u, w, u.pending, refused, u.current[w], a, R) /\ WindowOK(a, R)
    BY <2>1 DEF Adds
  <2>3. WindowFollows(status, u.current[w], a, R, w \in due \union {w})
    BY DEF WindowFollows, Sound, Follows
  <2>4. StillAsked(u, w, pairs \union Given(key, sources), pairs, u.pending, refused, a, R)
    <3>1. z.key = key /\ z \in R \union ({a} \ {NoRequest})
      BY <2>1 DEF Adds
    <3>2. \A q \in RequestsOf(u, w) :
            \/ q \in R \union ({a} \ {NoRequest})
            \/ q.key = key /\ q.sources \subseteq z.sources
      BY <2>1 DEF Adds, RequestsOf
    <3> HIDE DEF a
    <3> QED BY <1>1, <3>1, <3>2, MergedIsAsked
  <2> HIDE DEF refused, a
  <2>5. Sound(added, status, pairs, due \union {w})
    BY <2>2, <2>3, <2>4, ReplacedSound
  <2> QED BY <2>1, <2>5, ShowNextSound
<1> QED BY <1>1, <1>2, <1>3, RequestParts

(***************************************************************************)
(* What becomes of the sources a request is given: its prompt has them, or *)
(* is full without them.                                                   *)
(***************************************************************************)
Joins(u, given, x, gone, lost) ==
  /\ Flows(u, given, x, {}, gone, lost)
  /\ lost \subseteq given
  /\ lost # {} => gone = {}
  /\ lost # {} /\ given \subseteq lost => Held(x) = Held(u) /\ \A pair \in lost : FullIn(Held(u), pair)

LEMMA FullPrompt ==
  ASSUME NEW r, Enough(r.sources), Cardinality(r.sources) = MaxSourcesPerRequest,
         NEW asked, SourcePairs(r) \subseteq asked, NEW s, s \notin r.sources
  PROVE  FullIn(asked, <<r.key, s>>)
<1>1. Cardinality(SourcePairs(r)) = MaxSourcesPerRequest
  BY SourcePairsMany DEF Enough
<1>2. SourcePairs(r) \subseteq { p \in asked : p[1] = r.key }
  BY DEF SourcePairs
<1>3. <<r.key, s>> \notin SourcePairs(r)
  BY DEF SourcePairs
<1>4. <<r.key, s>>[1] = r.key
  OBVIOUS
<1> QED BY <1>1, <1>2, <1>3, <1>4 DEF FullIn

LEMMA MergesKept ==
  ASSUME NEW u, UiOK(u), NEW w \in Windows, w \in Registered, NEW key \in Keys,
         NEW sources, Few(sources), NEW away, Tidy(u, away \union {<<w, key>>}),
         NEW x, NEW r, NEW z, NEW c, NEW R, Merges(x, u, w, key, sources, r, z, c, R)
  PROVE  /\ Tidy(x, away)
         /\ \E lost : Joins(u, Given(key, sources), x, {}, lost)
         /\ \A k, keys : Led(u, k, keys) => Led(x, k, keys)
<1> DEFINE lost == Given(key, sources \ z.sources)
           given == Given(key, sources)
           refused == u.refused \union lost
           pending == u.pending
           current == u.current[w]
           old == RequestsOf(u, w)
           now == Now(c, R)
           here == PairsOf(old)
           then == PairsOf(now)
<1>1. ReplacedFields(x, u, w, pending, refused, current, c, R)
  <2>1. pending.sources \subseteq Keys \X Sources
    BY DEF UiOK
  <2>2. Replaces(x, u, w, pending, refused, current, c, R) /\ WindowOK(c, R)
    BY DEF Merges
  <2> HIDE DEF pending, refused, current
  <2> QED BY <2>1, <2>2, ReplacedOK
<1>2. /\ r \in old /\ r.key = key /\ z.key = key /\ z.anchor = r.anchor /\ r.sources \subseteq z.sources
      /\ now = (old \ {r}) \union {z} /\ x.routes = u.routes /\ Takes(r, z, sources)
  BY DEF Merges
<1>3. Tidied(old) /\ Askable(r)
  BY <1>2 DEF Tidy, Tidied
<1>4. /\ Enough(r.sources) /\ r.sources # {} /\ Enough(z.sources) /\ z.sources \subseteq r.sources \union sources
      /\ sources \subseteq z.sources \/ Cardinality(z.sources) = MaxSourcesPerRequest
  <2>1. Enough(r.sources) /\ r.sources # {} /\ Enough(sources)
    BY <1>3 DEF Askable, Few, Enough
  <2> QED BY <1>2, <2>1 DEF Takes
<1>5. Tidied(now)
  <2>1. Askable(z)
    BY <1>2, <1>4 DEF Askable, Few, Enough
  <2> HIDE DEF now, old
  <2> QED BY <1>2, <1>3, <2>1 DEF Tidied, KeysDiffer
<1>6. /\ SourcePairs(z) = SourcePairs(r) \union (given \ lost)
      /\ \A pair \in lost : pair \in given /\ \E s \in sources \ z.sources : pair = <<key, s>>
  BY <1>2, <1>4 DEF SourcePairs, Given
<1>7. here = PairsOf(old \ {r}) \union SourcePairs(r) /\ then = PairsOf(old \ {r}) \union SourcePairs(z)
  <2>1. old = (old \ {r}) \union {r}
    BY <1>2
  <2> HIDE DEF old, now
  <2>2. here = PairsOf(old \ {r}) \union SourcePairs(r)
    BY <2>1 DEF PairsOf
  <2>3. then = PairsOf(old \ {r}) \union SourcePairs(z)
    BY <1>2 DEF PairsOf
  <2> QED BY <2>2, <2>3
<1> HIDE DEF now, old, pending, refused, current
<1>8. Tidy(x, away)
  <2> DEFINE before == away \union {<<w, key>>}
  <2>1. TrackerOK(pending) /\ Tidy(u, before)
    BY DEF Tidy, pending
  <2>2. ASSUME NEW k \in DOMAIN x.routes
        PROVE  /\ k \in DOMAIN u.routes /\ x.routes[k] = u.routes[k]
               /\ x.routes[k].window = w => <<w, k>> \in away \/ \E q \in now : q.key = k
    <3>1. k \in DOMAIN u.routes /\ x.routes[k] = u.routes[k]
      BY <1>2, <2>2
    <3>2. ASSUME u.routes[k].window = w, <<w, k>> \notin away PROVE \E q \in now : q.key = k
      <4>1. k = key \/ \E q \in old : q.key = k
        BY <3>1, <3>2 DEF Tidy, RoutesOK, Has, old
      <4> QED BY <1>2, <4>1
    <3> QED BY <3>1, <3>2
  <2>3. \A o \in Windows, k \in Keys : <<o, k>> \in before => o = w \/ <<o, k>> \in away
    OBVIOUS
  <2> HIDE DEF before
  <2> QED BY <1>1, <1>5, <2>1, <2>2, <2>3, ReplacedTidy DEF now
<1>9. Flows(u, given, x, {}, {}, lost)
  <2> DEFINE none == {}
  <2>1. pending.sources = u.pending.sources \ none /\ refused = u.refused \union lost
    BY DEF pending, refused
  <2>2. \A pair \in lost : FullIn(here \union given, pair)
    <3> SUFFICES ASSUME NEW pair \in lost PROVE FullIn(here \union given, pair)
      OBVIOUS
    <3>1. PICK s \in sources \ z.sources : pair = <<key, s>>
      BY <1>6
    <3>2. Cardinality(z.sources) = MaxSourcesPerRequest
      BY <1>4
    <3>3. SourcePairs(z) \subseteq here \union given
      BY <1>6, <1>7
    <3> HIDE DEF here, given, lost
    <3> QED BY <1>2, <1>4, <3>1, <3>2, <3>3, FullPrompt
  <2> HIDE DEF here, then, given, lost
  <2>3. /\ none \union lost \subseteq here \union given
        /\ (here \union given) \ (none \union lost) \subseteq then \union none
        /\ then \union none \subseteq here \union given
    BY <1>6, <1>7
  <2>4. /\ none \union lost \subseteq PairsOf(RequestsOf(u, w)) \union given
        /\ (PairsOf(RequestsOf(u, w)) \union given) \ (none \union lost) \subseteq PairsOf(Now(c, R)) \union none
        /\ PairsOf(Now(c, R)) \union none \subseteq PairsOf(RequestsOf(u, w)) \union given
        /\ \A pair \in lost : FullIn(PairsOf(RequestsOf(u, w)) \union given, pair)
    BY <2>2, <2>3 DEF here, then, old, now
  <2> HIDE DEF none
  <2>5. Flows(u, given, x, none, none, lost)
    BY <1>1, <2>1, <2>4, ReplacedFlows
  <2> QED BY <2>5 DEF none
<1>10. ASSUME lost # {}, given \subseteq lost
       PROVE  Held(x) = Held(u) /\ \A pair \in lost : FullIn(Held(u), pair)
  <2>1. SourcePairs(z) = SourcePairs(r)
    BY <1>6, <1>10
  <2>2. Held(x) = Held(u)
    <3>1. RequestsOf(x, w) = now /\ \A o \in Windows \ {w} : RequestsOf(x, o) = RequestsOf(u, o)
      BY <1>1, ReplacedRequests DEF now
    <3>2. PairsOf(now) = PairsOf(old)
      BY <1>7, <2>1
    <3>3. \A o \in Windows : PairsOf(RequestsOf(x, o)) = PairsOf(RequestsOf(u, o))
      BY <3>1, <3>2 DEF old
    <3>4. \A y : Held(y) = UNION { PairsOf(RequestsOf(y, o)) : o \in Windows }
      BY DEF Held, AllRequests, PairsOf
    <3> QED BY <3>3, <3>4
  <2>3. ASSUME NEW pair \in lost PROVE FullIn(Held(u), pair)
    <3>1. PICK s \in sources \ z.sources : pair = <<key, s>>
      BY <1>6
    <3>2. Cardinality(z.sources) = MaxSourcesPerRequest
      BY <1>4, <3>1
    <3>3. SourcePairs(z) \subseteq Held(u)
      BY <1>2, <2>1 DEF old, Held, AllRequests, PairsOf
    <3> QED BY <1>2, <1>4, <3>1, <3>2, <3>3, FullPrompt
  <2> QED BY <2>2, <2>3
<1>11. ASSUME NEW k, NEW keys, Led(u, k, keys) PROVE Led(x, k, keys)
  <2>1. \A q \in now : \E p \in RequestsOf(u, w) : q.key = p.key /\ q.anchor = p.anchor
    BY <1>2 DEF old
  <2>2. \A j \in DOMAIN u.routes :
          u.routes[j].window # w \/ (\E q \in now : q.key = j) => j \in DOMAIN x.routes /\ x.routes[j] = u.routes[j]
    BY <1>2
  <2> QED BY <1>1, <1>11, <2>1, <2>2, ReplacedLed DEF now
<1>12. Joins(u, given, x, {}, lost)
  <2>1. lost \subseteq given
    BY DEF Given
  <2> HIDE DEF given, lost
  <2> QED BY <1>9, <1>10, <2>1 DEF Joins
<1> QED BY <1>8, <1>11, <1>12

LEMMA AddsKept ==
  ASSUME NEW u, UiOK(u), NEW w \in Windows, w \in Registered, NEW key \in Keys, NEW anchor,
         NEW sources, Few(sources), NEW away, Tidy(u, away \union {<<w, key>>}),
         NEW x, NEW z, NEW R, Adds(x, u, w, anchor, key, sources, z, R)
  PROVE  /\ UiOK(x) /\ Tidy(x, away)
         /\ Flows(u, Given(key, sources), x, {}, {}, {})
         /\ anchor \in tabs[w] /\ key \in DOMAIN u.routes /\ u.routes[key] = [window |-> w, anchor |-> anchor] =>
              \A k, keys : key \notin keys /\ Led(u, k, keys) => Led(x, k, keys)
<1> DEFINE given == Given(key, sources)
           refused == u.refused \union Given(key, sources \ z.sources)
           pending == u.pending
           current == u.current[w]
           a == u.active[w]
           old == RequestsOf(u, w)
           now == Now(a, R)
           here == PairsOf(old)
           then == PairsOf(now)
<1>1. UiOK(x) /\ ReplacedFields(x, u, w, pending, refused, current, a, R)
  <2>1. pending.sources \subseteq Keys \X Sources
    BY DEF UiOK
  <2>2. Replaces(x, u, w, pending, refused, current, a, R) /\ WindowOK(a, R)
    BY DEF Adds
  <2> HIDE DEF pending, refused, current, a
  <2> QED BY <2>1, <2>2, ReplacedOK
<1>2. /\ \A q \in old : q.key # key
      /\ z.key = key /\ z.anchor = anchor /\ z.sources = sources
      /\ now = old \union {z} /\ x.routes = u.routes
  <2>1. Enough(sources)
    BY DEF Few, Enough
  <2> QED BY <2>1 DEF Adds, Now, RequestsOf
<1>3. Tidied(old)
  BY DEF Tidy
<1>4. Tidied(now)
  <2>1. Askable(z)
    BY <1>2 DEF Askable
  <2> HIDE DEF now, old
  <2> QED BY <1>2, <1>3, <2>1 DEF Tidied, KeysDiffer
<1>5. SourcePairs(z) = given /\ refused = u.refused
  BY <1>2 DEF SourcePairs, Given
<1> HIDE DEF now, old, pending, refused, current, a, given
<1>6. then = here \union given
  BY <1>2, <1>5 DEF PairsOf
<1>7. Tidy(x, away)
  <2> DEFINE before == away \union {<<w, key>>}
  <2>1. TrackerOK(pending) /\ Tidy(u, before)
    BY DEF Tidy, pending
  <2>2. ASSUME NEW k \in DOMAIN x.routes
        PROVE  /\ k \in DOMAIN u.routes /\ x.routes[k] = u.routes[k]
               /\ x.routes[k].window = w => <<w, k>> \in away \/ \E q \in now : q.key = k
    <3>1. k \in DOMAIN u.routes /\ x.routes[k] = u.routes[k]
      BY <1>2, <2>2
    <3>2. ASSUME u.routes[k].window = w, <<w, k>> \notin away PROVE \E q \in now : q.key = k
      <4>1. k = key \/ \E q \in old : q.key = k
        BY <3>1, <3>2 DEF Tidy, RoutesOK, Has, old
      <4> QED BY <1>2, <4>1
    <3> QED BY <3>1, <3>2
  <2>3. \A o \in Windows, k \in Keys : <<o, k>> \in before => o = w \/ <<o, k>> \in away
    OBVIOUS
  <2> HIDE DEF before
  <2> QED BY <1>1, <1>4, <2>1, <2>2, <2>3, ReplacedTidy DEF now
<1>8. Flows(u, given, x, {}, {}, {})
  <2> DEFINE none == {}
  <2>1. pending.sources = u.pending.sources \ none /\ refused = u.refused \union none
    BY <1>5 DEF pending
  <2>2. \A pair \in none : FullIn(here \union given, pair)
    OBVIOUS
  <2> HIDE DEF here, then
  <2>3. /\ none \union none \subseteq here \union given
        /\ (here \union given) \ (none \union none) \subseteq then \union none
        /\ then \union none \subseteq here \union given
    BY <1>6
  <2>4. /\ none \union none \subseteq PairsOf(RequestsOf(u, w)) \union given
        /\ (PairsOf(RequestsOf(u, w)) \union given) \ (none \union none) \subseteq PairsOf(Now(a, R)) \union none
        /\ PairsOf(Now(a, R)) \union none \subseteq PairsOf(RequestsOf(u, w)) \union given
        /\ \A pair \in none : FullIn(PairsOf(RequestsOf(u, w)) \union given, pair)
    BY <2>2, <2>3 DEF here, then, old, now
  <2> HIDE DEF none
  <2>5. Flows(u, given, x, none, none, none)
    BY <1>1, <2>1, <2>4, ReplacedFlows
  <2> QED BY <2>5 DEF none
<1>9. ASSUME anchor \in tabs[w], key \in DOMAIN u.routes, u.routes[key] = [window |-> w, anchor |-> anchor],
             NEW k, NEW keys, key \notin keys, Led(u, k, keys)
      PROVE  Led(x, k, keys)
  <2>1. RequestsOf(x, w) = now /\ \A o \in Windows \ {w} : RequestsOf(x, o) = RequestsOf(u, o)
    BY <1>1, ReplacedRequests DEF now
  <2> SUFFICES ASSUME NEW o \in Windows, NEW q \in RequestsOf(x, o), q.key = k
               PROVE  /\ k \notin keys /\ q.anchor \in tabs[o]
                      /\ k \in DOMAIN x.routes /\ x.routes[k] = [window |-> o, anchor |-> q.anchor]
    BY DEF Led
  <2>2. CASE q \in RequestsOf(u, o)
    BY <1>2, <1>9, <2>2 DEF Led
  <2>3. CASE q = z /\ o = w
    BY <1>2, <1>9, <2>3
  <2> QED BY <1>2, <2>1, <2>2, <2>3 DEF old
<1> QED BY <1>1, <1>7, <1>8, <1>9 DEF given

LEMMA RequestKept ==
  ASSUME NEW u, UiOK(u), NEW w \in Windows, w \in Registered, NEW anchor \in Views, NEW affected,
         NEW sources, Few(sources), NEW key \in Keys, NEW away, Tidy(u, away \union {<<w, key>>}),
         NEW x, x = Request(u, w, anchor, affected, sources, key)
  PROVE  /\ Tidy(x, away)
         /\ \E gone, lost : Joins(u, Given(key, sources), x, gone, lost)
         /\ anchor \in tabs[w] /\ key \in DOMAIN u.routes /\ u.routes[key] = [window |-> w, anchor |-> anchor] =>
              \A k, keys : key \notin keys /\ Led(u, k, keys) => Led(x, k, keys)
<1>1. CASE \E r, z, c, R : Merges(x, u, w, key, sources, r, z, c, R)
  <2>1. PICK r, z, c, R : Merges(x, u, w, key, sources, r, z, c, R)
    BY <1>1
  <2>2. /\ Tidy(x, away) /\ \E lost : Joins(u, Given(key, sources), x, {}, lost)
        /\ \A k, keys : Led(u, k, keys) => Led(x, k, keys)
    BY <2>1, MergesKept
  <2> QED BY <2>2
<1>2. CASE \E added, z, R : Adds(added, u, w, anchor, key, sources, z, R) /\ x = ShowNext(added, w)
  <2>1. PICK added, z, R : Adds(added, u, w, anchor, key, sources, z, R) /\ x = ShowNext(added, w)
    BY <1>2
  <2>2. /\ UiOK(added) /\ Tidy(added, away) /\ Flows(u, Given(key, sources), added, {}, {}, {})
        /\ anchor \in tabs[w] /\ key \in DOMAIN u.routes /\ u.routes[key] = [window |-> w, anchor |-> anchor] =>
              \A k, keys : key \notin keys /\ Led(u, k, keys) => Led(added, k, keys)
    BY <2>1, AddsKept
  <2> DEFINE none == {}
  <2>3. /\ Tidy(x, away) /\ \E gone : Flows(added, none, x, none, gone, none)
        /\ \A k, keys : Led(added, k, keys) => Led(x, k, keys)
    <3> HIDE DEF none
    <3>1. \E gone : Flows(added, none, x, none, gone, {})
      BY <2>1, <2>2, ShowNextKept
    <3> QED BY <2>1, <2>2, <3>1, ShowNextKept DEF none
  <2>4. PICK gone : Flows(added, {}, x, {}, gone, {})
    BY <2>3
  <2>5. Flows(u, Given(key, sources), x, {}, {} \union gone, {} \union {})
    BY <2>2, <2>4, FlowsThen
  <2>6. Joins(u, Given(key, sources), x, gone, {})
    BY <2>5 DEF Joins
  <2> QED BY <2>2, <2>3, <2>6
<1> QED BY <1>1, <1>2, RequestParts

(***************************************************************************)
(* What currentViewChanged does before it shows the next: the same         *)
(* requests are there, and one in front is about the view.                 *)
(***************************************************************************)
Turns(x, u, w, v, c, R) ==
  /\ Replaces(x, u, w, u.pending, u.refused, v, c, R) /\ x.routes = u.routes
  /\ WindowOK(c, R) /\ (c # NoRequest => c.anchor = v)
  /\ \A q \in Now(c, R) : \E p \in RequestsOf(u, w) : Alike(q, p)
  /\ \A p \in RequestsOf(u, w) : \E q \in Now(c, R) : Alike(q, p)
  /\ Tidied(RequestsOf(u, w)) => Tidied(Now(c, R))

LEMMA CurrentViewParts ==
  ASSUME NEW u, UiOK(u), NEW w \in Windows,
         NEW v, v \in Views \/ (u.active[w] # NoRequest => Alive(u.active[w].anchor)),
         NEW x, x = CurrentViewChanged(u, w, v)
  PROVE  \E turned, c, R : Turns(turned, u, w, v, c, R) /\ x = ShowNext(turned, w)
<1> DEFINE r == u.active[w]
           now == [u EXCEPT !.current[w] = v]
           stale == r # NoRequest /\ (IF Alive(r.anchor) THEN r.anchor ELSE NoView) # v
           first == [r EXCEPT !.place = 1]
           Later(q) == [q EXCEPT !.place = @ + 1]
           behind == { Later(q) : q \in u.queue[w] }
           R == {first} \union behind
           back == [now EXCEPT !.queue[w] = R, !.active[w] = NoRequest]
           then == IF stale THEN back ELSE now
<1>1. /\ IsUi(u)
      /\ Numbered(u.queue[w]) /\ (r = NoRequest \/ (IsRequest(r) /\ r.place = 0))
      /\ u.current = [u.current EXCEPT ![w] = u.current[w]]
      /\ u.active = [u.active EXCEPT ![w] = r]
      /\ u.queue = [u.queue EXCEPT ![w] = u.queue[w]]
  BY OfWindowsSame DEF UiOK
<1>2. x = ShowNext(then, w)
  BY DEF CurrentViewChanged
<1>3. CASE stale
  <2>1. IsRequest(r)
    BY <1>1, <1>3
  <2>2. IsRequest(first) /\ first.place = 1 /\ Alike(first, r)
    <3> HIDE DEF r
    <3> QED BY <2>1 DEF IsRequest, Alike
  <2>3. ASSUME NEW q, IsRequest(q)
        PROVE  IsRequest(Later(q)) /\ Later(q).place = q.place + 1 /\ Alike(Later(q), q)
    BY <2>3 DEF IsRequest, Alike
  <2> HIDE DEF Later
  <2>4. /\ \A b \in behind : \E q \in u.queue[w] :
               IsRequest(b) /\ b.place = q.place + 1 /\ Alike(b, q) /\ b = Later(q)
        /\ \A q \in u.queue[w] : \E b \in behind : Alike(b, q)
    <3>1. \A q \in u.queue[w] : IsRequest(q)
      BY <1>1 DEF Numbered
    <3> QED BY <2>3, <3>1
  <2> HIDE DEF behind, first
  <2>5. Numbered(R)
    <3>1. PICK bound \in Nat : \A q \in u.queue[w] : q.place <= bound
      BY <1>1 DEF Numbered, Placed
    <3>0. \A q \in u.queue[w] : q.place \in Nat \ {0}
      BY <1>1 DEF Numbered, Placed
    <3>2. \A b \in R : b.place <= bound + 1
      <4>1. \A b \in behind : b.place <= bound + 1
        BY <2>4, <3>1, <3>0
      <4> QED BY <2>2, <4>1
    <3>3. \A b \in R : IsRequest(b) /\ b.place \in Nat \ {0}
      <4>1. \A b \in behind : IsRequest(b) /\ b.place \in Nat \ {0}
        BY <2>4, <3>0
      <4> QED BY <2>2, <4>1
    <3>4. \A b \in behind : b.place \in Nat /\ b.place > 1
      BY <2>4, <3>0
    <3>5. \A b, c \in behind : b.place = c.place => b = c
      <4>1. \A p, q \in u.queue[w] : p.place = q.place => p = q
        BY <1>1 DEF Numbered, Placed
      <4>2. ASSUME NEW b \in behind, NEW c \in behind, b.place = c.place PROVE b = c
        <5>1. PICK p \in u.queue[w] : b.place = p.place + 1 /\ b = Later(p)
          BY <2>4
        <5>2. PICK q \in u.queue[w] : c.place = q.place + 1 /\ c = Later(q)
          BY <2>4
        <5>3. p.place \in Nat /\ q.place \in Nat
          BY <3>0
        <5>4. p = q
          <6>1. p.place + 1 = q.place + 1
            BY <4>2, <5>1, <5>2
          <6>2. p.place = q.place
            BY <5>3, <6>1
          <6> QED BY <4>1, <6>2
        <5> QED BY <5>1, <5>2, <5>4
      <4> QED BY <4>2
    <3>6. \A b, c \in R : b.place = c.place => b = c
      BY <2>2, <3>4, <3>5
    <3> QED BY <3>1, <3>2, <3>3, <3>6 DEF Numbered, Placed
  <2>6. Replaces(back, u, w, u.pending, u.refused, v, NoRequest, R) /\ back.routes = u.routes
    <3> HIDE DEF R
    <3>1. /\ IsUi(now) /\ now.pending = u.pending /\ now.refused = u.refused
          /\ now.current = [u.current EXCEPT ![w] = v] /\ now.active = u.active /\ now.queue = u.queue
          /\ now.routes = u.routes
      BY <1>1 DEF IsUi
    <3> HIDE DEF now
    <3>2. /\ IsUi(back) /\ back.pending = now.pending /\ back.refused = now.refused /\ back.current = now.current
          /\ back.routes = now.routes
          /\ back.active = [now.active EXCEPT ![w] = NoRequest] /\ back.queue = [now.queue EXCEPT ![w] = R]
      BY <3>1 DEF IsUi
    <3> QED BY <3>1, <3>2 DEF Replaces
  <2>7. RequestsOf(u, w) = u.queue[w] \union {r} /\ Now(NoRequest, R) = R /\ r \notin u.queue[w]
    BY <1>1, <1>3 DEF RequestsOf, Now, Numbered, Placed
  <2>8. /\ \A q \in R : \E p \in RequestsOf(u, w) : Alike(q, p)
        /\ \A p \in RequestsOf(u, w) : \E q \in R : Alike(q, p)
    BY <2>2, <2>4, <2>7
  <2>9. ASSUME Tidied(RequestsOf(u, w)) PROVE Tidied(R)
    <3>1. \A q \in R : Askable(q)
      BY <2>8, <2>9 DEF Tidied, Askable, Alike
    <3>2. ASSUME NEW q \in R, NEW b \in R, q.key = b.key PROVE q = b
      <4>1. PICK p \in RequestsOf(u, w) : /\ Alike(q, p)
                                        /\ \/ q = first /\ p = r
                                           \/ q = Later(p) /\ p \in u.queue[w]
        BY <2>2, <2>4, <2>7
      <4>2. PICK o \in RequestsOf(u, w) : /\ Alike(b, o)
                                        /\ \/ b = first /\ o = r
                                           \/ b = Later(o) /\ o \in u.queue[w]
        BY <2>2, <2>4, <2>7
      <4>3. p = o
        BY <2>9, <3>2, <4>1, <4>2 DEF Tidied, KeysDiffer, Alike
      <4> QED BY <2>7, <4>1, <4>2, <4>3
    <3> QED BY <3>1, <3>2 DEF Tidied, KeysDiffer
  <2>10. WindowOK(NoRequest, R)
    BY <2>5 DEF WindowOK
  <2> HIDE DEF R, now, back
  <2>11. Turns(back, u, w, v, NoRequest, R)
    BY <2>6, <2>7, <2>8, <2>9, <2>10 DEF Turns
  <2>12. then = back
    BY <1>3
  <2> QED BY <1>2, <2>11, <2>12
<1>4. CASE ~ stale
  <2>1. r # NoRequest => r.anchor = v
    BY <1>1, <1>4, RoutingAssumption DEF IsRequest
  <2>2. Replaces(now, u, w, u.pending, u.refused, v, r, u.queue[w]) /\ now.routes = u.routes
    <3>1. /\ IsUi(now) /\ now.pending = u.pending /\ now.refused = u.refused
          /\ now.current = [u.current EXCEPT ![w] = v] /\ now.active = u.active /\ now.queue = u.queue
          /\ now.routes = u.routes
      BY <1>1 DEF IsUi
    <3> QED BY <1>1, <3>1 DEF Replaces
  <2>3. Now(r, u.queue[w]) = RequestsOf(u, w)
    BY DEF Now, RequestsOf
  <2>4. WindowOK(r, u.queue[w])
    BY <1>1 DEF WindowOK
  <2>5. then = now
    BY <1>4
  <2> HIDE DEF r, now, then
  <2>6. Turns(now, u, w, v, r, u.queue[w])
    BY <2>1, <2>2, <2>3, <2>4 DEF Turns, Alike
  <2> QED BY <1>2, <2>5, <2>6
<1> QED BY <1>3, <1>4

LEMMA CurrentViewChangedSound ==
  ASSUME NEW u, NEW pairs, NEW due, NEW w \in Windows, Sound(u, status, pairs, due),
         NEW v, v \in Views \/ (u.active[w] # NoRequest => Alive(u.active[w].anchor)),
         NEW x, x = CurrentViewChanged(u, w, v)
  PROVE  Sound(x, status, pairs, due)
<1>1. UiOK(u)
  BY DEF Sound
<1>2. PICK turned, c, R : Turns(turned, u, w, v, c, R) /\ x = ShowNext(turned, w)
  BY <1>1, CurrentViewParts
<1>3. Replaces(turned, u, w, u.pending, u.refused, v, c, R) /\ WindowOK(c, R)
  BY <1>2 DEF Turns
<1>4. WindowFollows(status, v, c, R, w \in due \union {w})
  BY <1>2 DEF Turns, WindowFollows
<1>5. StillAsked(u, w, pairs, pairs, u.pending, u.refused, c, R)
  BY <1>2 DEF Turns, StillAsked, Now, Alike, About
<1>6. Sound(turned, status, pairs, due \union {w})
  BY <1>3, <1>4, <1>5, ReplacedSound
<1> QED BY <1>2, <1>6, ShowNextSound

LEMMA CurrentViewChangedKept ==
  ASSUME NEW u, UiOK(u), NEW w \in Windows,
         NEW v, v \in Views \/ (u.active[w] # NoRequest => Alive(u.active[w].anchor)),
         NEW x, x = CurrentViewChanged(u, w, v), NEW away, Tidy(u, away)
  PROVE  /\ Tidy(x, away)
         /\ Flow(u, {}, x, {})
         /\ \A key : Led(u, key, {}) => Led(x, key, {})
<1>1. PICK turned, c, R : Turns(turned, u, w, v, c, R) /\ x = ShowNext(turned, w)
  BY CurrentViewParts
<1> DEFINE pending == u.pending
           refused == u.refused
           now == Now(c, R)
           old == RequestsOf(u, w)
           none == {}
<1>2. UiOK(turned) /\ ReplacedFields(turned, u, w, pending, refused, v, c, R)
  <2>1. pending.sources \subseteq Keys \X Sources
    BY DEF UiOK
  <2>2. Replaces(turned, u, w, pending, refused, v, c, R) /\ WindowOK(c, R)
    BY <1>1 DEF Turns
  <2> HIDE DEF pending, refused
  <2> QED BY <2>1, <2>2, ReplacedOK
<1>3. /\ turned.routes = u.routes
      /\ \A q \in now : \E p \in old : Alike(q, p)
      /\ \A p \in old : \E q \in now : Alike(q, p)
      /\ Tidied(old) => Tidied(now)
  BY <1>1 DEF Turns
<1>4. Tidied(old) /\ (w \notin Registered => old = {})
  BY DEF Tidy
<1> HIDE DEF pending, refused, now, old
<1>5. Tidy(turned, away)
  <2>1. TrackerOK(pending) /\ (w \in Registered \/ now = {})
    BY <1>3, <1>4 DEF Tidy, pending
  <2>2. ASSUME NEW k \in DOMAIN turned.routes
        PROVE  /\ k \in DOMAIN u.routes /\ turned.routes[k] = u.routes[k]
               /\ turned.routes[k].window = w => <<w, k>> \in away \/ \E q \in now : q.key = k
    <3>1. k \in DOMAIN u.routes /\ turned.routes[k] = u.routes[k]
      BY <1>3, <2>2
    <3>2. u.routes[k].window = w => <<w, k>> \in away \/ \E p \in old : p.key = k
      BY <3>1 DEF Tidy, RoutesOK, Has, old
    <3> QED BY <1>3, <3>1, <3>2 DEF Alike
  <2>3. \A o \in Windows, k \in Keys : <<o, k>> \in away => o = w \/ <<o, k>> \in away
    OBVIOUS
  <2> QED BY <1>2, <1>3, <1>4, <2>1, <2>2, <2>3, ReplacedTidy DEF now
<1>6. Flows(u, none, turned, none, none, none)
  <2> DEFINE here == PairsOf(old)
             then == PairsOf(now)
  <2>1. pending.sources = u.pending.sources \ none /\ refused = u.refused \union none
    BY DEF pending, refused
  <2>2. here \subseteq then /\ then \subseteq here
    <3>1. \A q, p : Alike(q, p) => SourcePairs(q) = SourcePairs(p)
      BY DEF Alike, SourcePairs
    <3> QED BY <1>3, <3>1 DEF PairsOf
  <2>3. \A pair \in none : FullIn(here \union none, pair)
    OBVIOUS
  <2> HIDE DEF here, then
  <2>4. /\ none \union none \subseteq here \union none
        /\ (here \union none) \ (none \union none) \subseteq then \union none
        /\ then \union none \subseteq here \union none
    BY <2>2
  <2>5. /\ none \union none \subseteq PairsOf(RequestsOf(u, w)) \union none
        /\ (PairsOf(RequestsOf(u, w)) \union none) \ (none \union none) \subseteq PairsOf(Now(c, R)) \union none
        /\ PairsOf(Now(c, R)) \union none \subseteq PairsOf(RequestsOf(u, w)) \union none
        /\ \A pair \in none : FullIn(PairsOf(RequestsOf(u, w)) \union none, pair)
    BY <2>3, <2>4 DEF here, then, old, now
  <2> HIDE DEF none
  <2> QED BY <1>2, <2>1, <2>5, ReplacedFlows
<1>7. ASSUME NEW key, Led(u, key, {}) PROVE Led(turned, key, {})
  <2>1. \A q \in now : \E p \in RequestsOf(u, w) : q.key = p.key /\ q.anchor = p.anchor
    BY <1>3 DEF Alike, old
  <2>2. \A k \in DOMAIN u.routes :
          u.routes[k].window # w \/ (\E q \in now : q.key = k) =>
            k \in DOMAIN turned.routes /\ turned.routes[k] = u.routes[k]
    BY <1>3
  <2> DEFINE keys == {}
  <2>3. key \in keys => key \in keys \/ (Has(u, w, key) /\ \A q \in now : q.key # key)
    OBVIOUS
  <2>4. Led(u, key, keys)
    BY <1>7
  <2> HIDE DEF keys
  <2>5. Led(turned, key, keys)
    BY <1>2, <2>1, <2>2, <2>3, <2>4, ReplacedLed DEF now
  <2> QED BY <2>5 DEF keys
<1>8. /\ Tidy(x, away) /\ \E gone : Flows(turned, none, x, none, gone, none)
      /\ \A k, keys : Led(turned, k, keys) => Led(x, k, keys)
  <2>1. \E gone : Flows(turned, none, x, none, gone, {})
    <3> HIDE DEF none
    <3> QED BY <1>1, <1>2, <1>5, ShowNextKept
  <2> QED BY <1>1, <1>2, <1>5, <2>1, ShowNextKept DEF none
<1>9. Flow(u, {}, x, {})
  <2>1. Flow(u, {}, turned, {}) /\ Flow(turned, {}, x, {})
    BY <1>6, <1>8 DEF Flow
  <2> QED BY <2>1, FlowThen
<1> QED BY <1>7, <1>8, <1>9

(***************************************************************************)
(* Routes are of no account, a view that is gone stays so, and what is     *)
(* pending no more needs no prompt.                                        *)
(***************************************************************************)
SameRequests(x, u) ==
  /\ IsUi(x) /\ x.refused = u.refused
  /\ x.current = u.current /\ x.active = u.active /\ x.queue = u.queue

LEMMA SoundKept ==
  ASSUME NEW u, NEW st, NEW pairs, NEW due, Sound(u, st, pairs, due),
         NEW x, SameRequests(x, u), x.pending.sources \subseteq Keys \X Sources,
         NEW later, \A v \in Views : st[v] = "gone" => later[v] = "gone",
         NEW more, \A pair \in x.pending.sources : pair \in more \/ (pair \in u.pending.sources /\ pair \notin pairs)
  PROVE  Sound(x, later, more, due)
<1>1. UiOK(x)
  BY DEF Sound, UiOK, SameRequests
<1>2. \A w \in Windows : Follows(x, w)
  BY DEF Sound, Follows, SameRequests
<1>3. \A w \in Windows \ due : Asked(x, later, w)
  <2> SUFFICES ASSUME NEW w \in Windows \ due, x.active[w] = NoRequest,
                      NEW r \in x.queue[w], r.anchor = x.current[w]
               PROVE  later[r.anchor] = "gone"
    BY DEF Asked
  <2>1. r.anchor \in Views
    BY <1>1 DEF UiOK, Numbered, IsRequest
  <2>2. st[r.anchor] = "gone"
    BY DEF Sound, Asked, SameRequests
  <2> QED BY <2>1, <2>2
<1>4. Covered(x, more)
  <2>1. \A w \in Windows : RequestsOf(x, w) = RequestsOf(u, w)
    BY DEF RequestsOf, SameRequests
  <2>2. \A pair : Asks(u, pair) => Asks(x, pair)
    BY <2>1 DEF Asks
  <2> QED BY <2>2 DEF Sound, Covered, SameRequests
<1> QED BY <1>1, <1>2, <1>3, <1>4 DEF Sound

\* The tabs and windows that handlers look up.
PlacesOK == windows \in Seq(Windows) /\ tabs \in [Windows -> SUBSET Views]

LEMMA ReanchorSound ==
  ASSUME PlacesOK, NEW u, NEW pairs, NEW due, NEW owner, NEW r, Sound(u, status, pairs \union PairsOf({r}), due),
         NEW x, x = Reanchor(u, owner, r)
  PROVE  Sound(x, status, pairs, due)
<1> DEFINE hosts == { i \in DOMAIN windows : r.anchor \in tabs[windows[i]] }
           host == windows[Min(hosts)]
           routes == [k \in DOMAIN u.routes \union {r.key} |->
                        IF k = r.key THEN [window |-> host, anchor |-> r.anchor] ELSE u.routes[k]]
           routed == [u EXCEPT !.routes = routes]
<1>1. PairsOf({r}) = Given(r.key, r.sources)
  BY DEF PairsOf, SourcePairs, Given
<1>2. CASE hosts = {}
  <2>1. x = DismissRequests(u, owner, {r})
    BY <1>2 DEF Reanchor
  <2> QED BY <2>1, DismissSound
<1>3. CASE hosts # {}
  <2>1. x = Request(routed, host, r.anchor, r.affected, r.sources, r.key)
    BY <1>3 DEF Reanchor
  <2>2. Min(hosts) \in hosts
    <3>1. hosts \subseteq Nat
      BY DEF PlacesOK
    <3>2. \E n \in hosts : \A m \in hosts : n <= m
      <4> HIDE DEF hosts
      <4> QED BY <1>3, <3>1, LeastNumber
    <3> QED BY <3>2 DEF Min
  <2>3. host \in Windows /\ r.anchor \in Views
    BY <2>2 DEF PlacesOK
  <2>4. Sound(routed, status, pairs \union Given(r.key, r.sources), due)
    <3>1. IsUi(u) /\ u.pending.sources \subseteq Keys \X Sources
      BY DEF Sound, UiOK
    <3> HIDE DEF routes
    <3>2. SameRequests(routed, u) /\ routed.pending = u.pending
      BY <3>1 DEF IsUi, SameRequests
    <3> HIDE DEF routed
    <3> QED BY <1>1, <3>1, <3>2, SoundKept
  <2> HIDE DEF host, hosts, routed
  <2> QED BY <2>1, <2>3, <2>4, RequestSound
<1> QED BY <1>2, <1>3

LEMMA ReanchorKept ==
  ASSUME PlacesOK, NEW u, UiOK(u), NEW owner, NEW r, Askable(r),
         NEW away, Tidy(u, away \union {<<owner, r.key>>}), NEW hand, NEW keys, r.key \notin keys,
         NEW x, x = Reanchor(u, owner, r)
  PROVE  Tidy(x, away) /\ Keeps(u, hand \union PairsOf({r}), keys \union {r.key}, x, hand, keys)
<1> DEFINE hosts == { i \in DOMAIN windows : r.anchor \in tabs[windows[i]] }
           host == windows[Min(hosts)]
           routes == [k \in DOMAIN u.routes \union {r.key} |->
                        IF k = r.key THEN [window |-> host, anchor |-> r.anchor] ELSE u.routes[k]]
           routed == [u EXCEPT !.routes = routes]
           given == PairsOf({r})
<1>1. given = Given(r.key, r.sources)
  BY DEF PairsOf, SourcePairs, Given
<1>2. CASE hosts = {}
  <2>1. x = DismissRequests(u, owner, {r})
    BY <1>2 DEF Reanchor
  <2>2. KeysOf({r}) = {r.key}
    BY DEF KeysOf
  <2>3. {owner} \X KeysOf({r}) = {<<owner, r.key>>}
    BY <2>2
  <2> HIDE DEF given
  <2>4. IsUi(u) /\ Tidy(u, away \union ({owner} \X KeysOf({r})))
    BY <2>3 DEF UiOK
  <2>5. Tidy(x, away) /\ Keeps(u, hand \union PairsOf({r}), keys \union KeysOf({r}), x, hand, keys)
    BY <2>1, <2>4, DismissKept
  <2> QED BY <2>2, <2>5
<1>3. CASE hosts # {}
  <2>1. x = Request(routed, host, r.anchor, r.affected, r.sources, r.key)
    BY <1>3 DEF Reanchor
  <2>2. Min(hosts) \in hosts
    <3>1. hosts \subseteq Nat
      BY DEF PlacesOK
    <3>2. \E n \in hosts : \A m \in hosts : n <= m
      <4> HIDE DEF hosts
      <4> QED BY <1>3, <3>1, LeastNumber
    <3> QED BY <3>2 DEF Min
  <2>3. host \in Windows /\ host \in Registered /\ r.anchor \in Views /\ r.anchor \in tabs[host]
    <3>1. \A i \in DOMAIN windows : windows[i] \in Windows /\ windows[i] \in Registered
      BY DEF PlacesOK, Registered, Range
    <3>2. Min(hosts) \in DOMAIN windows /\ r.anchor \in tabs[windows[Min(hosts)]]
      BY <2>2
    <3>3. \A w \in Windows : tabs[w] \subseteq Views
      BY DEF PlacesOK
    <3> HIDE DEF hosts
    <3> QED BY <3>1, <3>2, <3>3
  <2>4. /\ IsUi(u) /\ \A k \in DOMAIN routes : k = r.key \/ (k \in DOMAIN u.routes /\ routes[k] = u.routes[k])
        /\ \A k \in DOMAIN u.routes : k # r.key => k \in DOMAIN routes /\ routes[k] = u.routes[k]
        /\ r.key \in DOMAIN routes /\ routes[r.key] = [window |-> host, anchor |-> r.anchor]
    <3> HIDE DEF host
    <3> QED BY DEF UiOK
  <2> HIDE DEF hosts, host, routes, given
  <2>5. SameRequests(routed, u) /\ routed.pending = u.pending /\ routed.routes = routes
    BY <2>4 DEF IsUi, SameRequests
  <2>6. UiOK(routed)
    BY <2>5 DEF UiOK, SameRequests
  <2>7. \A w \in Windows : RequestsOf(routed, w) = RequestsOf(u, w)
    BY <2>5 DEF RequestsOf, SameRequests
  <2> HIDE DEF routed
  <2>8. Tidy(routed, away \union {<<host, r.key>>})
    <3>1. RoutesOK(routed, away \union {<<host, r.key>>})
      <4> SUFFICES ASSUME NEW k \in DOMAIN routes
                   PROVE  /\ k \in Keys /\ routes[k] \in [window: Windows, anchor: Views]
                          /\ <<routes[k].window, k>> \in away \union {<<host, r.key>>} \/ Has(routed, routes[k].window, k)
        BY <2>5 DEF RoutesOK
      <4>1. CASE k = r.key
        BY <2>3, <2>4, <4>1 DEF Askable
      <4>2. CASE k # r.key
        <5>1. k \in DOMAIN u.routes /\ routes[k] = u.routes[k]
          BY <2>4, <4>2
        <5>2. /\ k \in Keys /\ u.routes[k] \in [window: Windows, anchor: Views]
              /\ <<u.routes[k].window, k>> \in away \union {<<owner, r.key>>} \/ Has(u, u.routes[k].window, k)
          BY <5>1 DEF Tidy, RoutesOK
        <5>3. <<u.routes[k].window, k>> # <<owner, r.key>>
          BY <4>2
        <5> QED BY <2>7, <5>1, <5>2, <5>3 DEF Has
      <4> QED BY <4>1, <4>2
    <3> QED BY <2>5, <2>7, <3>1 DEF Tidy
  <2>9. /\ Tidy(x, away) /\ \E gone, lost : Joins(routed, given, x, gone, lost)
        /\ \A k : Led(routed, k, keys) => Led(x, k, keys)
    <3>1. Few(r.sources) /\ r.key \in Keys
      BY DEF Askable
    <3>2. r.key \in DOMAIN routed.routes /\ routed.routes[r.key] = [window |-> host, anchor |-> r.anchor]
      BY <2>4, <2>5
    <3>3. /\ Tidy(x, away) /\ \E gone, lost : Joins(routed, Given(r.key, r.sources), x, gone, lost)
          /\ \A k, some : r.key \notin some /\ Led(routed, k, some) => Led(x, k, some)
      BY <2>1, <2>3, <2>6, <2>8, <3>1, <3>2, RequestKept
    <3> QED BY <1>1, <3>3
  <2>10. Flow(u, hand \union given, x, hand)
    <3>1. Flow(routed, given, x, {})
      BY <2>9 DEF Joins, Flow
    <3>2. Flow(u, given, routed, given)
      <4>1. routed.pending.sources = u.pending.sources /\ routed.refused = u.refused
        BY <2>5 DEF SameRequests
      <4>2. Flows(u, given, routed, given, {}, {})
        BY <2>7, <4>1, NothingFlows
      <4> QED BY <4>2 DEF Flow
    <3>3. Flow(u, given, x, {})
      BY <3>1, <3>2, FlowThen
    <3>4. Flow(u, given \union hand, x, {} \union hand)
      BY <3>3, FlowBeside
    <3>5. given \union hand = hand \union given /\ {} \union hand = hand
      OBVIOUS
    <3> QED BY <3>4, <3>5
  <2>11. ASSUME NEW key, Led(u, key, keys \union {r.key}) PROVE Led(x, key, keys)
    <3>1. Led(routed, key, keys)
      <4> SUFFICES ASSUME NEW o \in Windows, NEW q \in RequestsOf(u, o), q.key = key
                   PROVE  /\ key \notin keys /\ q.anchor \in tabs[o]
                          /\ key \in DOMAIN routes /\ routes[key] = [window |-> o, anchor |-> q.anchor]
        BY <2>5, <2>7 DEF Led
      <4>1. /\ key \notin keys \union {r.key} /\ q.anchor \in tabs[o]
            /\ key \in DOMAIN u.routes /\ u.routes[key] = [window |-> o, anchor |-> q.anchor]
        BY <2>11 DEF Led
      <4> QED BY <2>4, <4>1
    <3> QED BY <2>9, <3>1
  <2> QED BY <2>9, <2>10, <2>11 DEF Keeps, given
<1> QED BY <1>2, <1>3

LEMMA UpTo ==
  ASSUME NEW last \in Nat, NEW S, 0 \in S, \A i \in 1 .. last : i - 1 \in S => i \in S
  PROVE  last \in S
<1>1. SUFFICES ASSUME last \notin S PROVE FALSE
  OBVIOUS
<1> DEFINE failing == { m \in 0 .. last : m \notin S }
<1>2. PICK n \in failing : \A k \in failing : n <= k
  <2>1. failing \subseteq Nat /\ failing # {}
    BY <1>1
  <2> HIDE DEF failing
  <2> QED BY <2>1, LeastNumber
<1>3. n \in 1 .. last /\ n - 1 \in 0 .. last
  BY <1>2
<1>4. n - 1 \in S
  BY <1>2, <1>3
<1> QED BY <1>2, <1>3, <1>4

\* The requests move one by one, from u to x; after[i] is the state when those with places up to i have.
MoveOneByOne(u, owner, requests, x, last, after) ==
  /\ last \in Nat /\ \A r \in requests : r.place \in 1 .. last
  /\ after[0] = u /\ after[last] = x
  /\ \A i \in 1 .. last :
       \/ after[i] = after[i - 1] /\ \A r \in requests : r.place # i
       \/ \E r \in requests : r.place = i /\ after[i] = Reanchor(after[i - 1], owner, r)

LEMMA ReanchorSteps ==
  ASSUME NEW u, NEW owner, NEW requests, Placed(requests), NEW x, x = ReanchorAll(u, owner, requests)
  PROVE  \E last, after : MoveOneByOne(u, owner, requests, x, last, after)
<1> DEFINE last == LastPlace(requests)
           Step(i, y) == IF \E r \in requests : r.place = i
                         THEN Reanchor(y, owner, CHOOSE r \in requests : r.place = i)
                         ELSE y
           Steps(f, m) == [i \in 0 .. m |-> IF i = 0 THEN u ELSE Step(i, f[i - 1])]
           after == CHOOSE f : f = Steps(f, last)
<1>1. x = after[last]
  BY DEF ReanchorAll
<1>2. last \in Nat /\ \A r \in requests : r.place \in Nat \ {0} /\ r.place <= last
  BY LastPlaceIsLast DEF Placed
<1> HIDE DEF Step, last
<1>3. after = Steps(after, last)
  <2> DEFINE Good(m) == \E f : f = Steps(f, m)
  <2>1. Good(0)
    <3> DEFINE f == [i \in 0 .. 0 |-> u]
    <3>1. f = Steps(f, 0)
      OBVIOUS
    <3> QED BY <3>1
  <2>2. ASSUME NEW m \in Nat, Good(m) PROVE Good(m + 1)
    <3>1. PICK f : f = Steps(f, m)
      BY <2>2
    <3> DEFINE g == [i \in 0 .. m + 1 |-> IF i = m + 1 THEN Step(i, f[m]) ELSE f[i]]
    <3>2. \A i \in 0 .. m : g[i] = f[i]
      OBVIOUS
    <3>3. \A i \in 0 .. m : f[i] = IF i = 0 THEN u ELSE Step(i, f[i - 1])
      BY <3>1
    <3>4. g[m + 1] = Step(m + 1, f[m])
      OBVIOUS
    <3> HIDE DEF g
    <3>5. \A i \in 0 .. m + 1 : g[i] = IF i = 0 THEN u ELSE Step(i, g[i - 1])
      <4> SUFFICES ASSUME NEW i \in 0 .. m + 1 PROVE g[i] = IF i = 0 THEN u ELSE Step(i, g[i - 1])
        OBVIOUS
      <4>1. CASE i = m + 1
        BY <3>2, <3>4, <4>1
      <4>2. CASE i # m + 1 /\ i # 0
        <5>1. i \in 0 .. m /\ i - 1 \in 0 .. m
          BY <4>2
        <5> QED BY <3>2, <3>3, <4>2, <5>1
      <4>3. CASE i = 0
        BY <3>2, <3>3, <4>3
      <4> QED BY <4>1, <4>2, <4>3
    <3>6. g = Steps(g, m + 1)
      BY <3>5 DEF g
    <3> QED BY <3>6
  <2>3. Good(last)
    <3> HIDE DEF Good
    <3>1. SUFFICES ASSUME ~ Good(last) PROVE FALSE
      OBVIOUS
    <3>2. PICK n \in { m \in Nat : ~ Good(m) } : \A k \in { m \in Nat : ~ Good(m) } : n <= k
      BY <1>2, <3>1, LeastNumber
    <3>3. n # 0 /\ n - 1 \in Nat
      BY <2>1, <3>2
    <3>4. Good(n - 1)
      BY <3>2, <3>3
    <3> QED BY <2>2, <3>2, <3>3, <3>4
  <2> QED BY <2>3
<1> HIDE DEF after
<1>4. \A i \in 0 .. last : after[i] = IF i = 0 THEN u ELSE Step(i, after[i - 1])
  BY <1>3
<1> HIDE DEF Steps
<1>5. after[0] = u
  BY <1>2, <1>4
<1>6. ASSUME NEW i \in 1 .. last
      PROVE  \/ after[i] = after[i - 1] /\ \A r \in requests : r.place # i
             \/ \E r \in requests : r.place = i /\ after[i] = Reanchor(after[i - 1], owner, r)
  <2>1. after[i] = Step(i, after[i - 1])
    BY <1>2, <1>4
  <2>2. CASE \E r \in requests : r.place = i
    <3> DEFINE r == CHOOSE q \in requests : q.place = i
    <3>1. r \in requests /\ r.place = i
      BY <2>2
    <3>2. after[i] = Reanchor(after[i - 1], owner, r)
      BY <2>1, <2>2 DEF Step
    <3> HIDE DEF r
    <3> QED BY <3>1, <3>2
  <2>3. CASE ~ \E r \in requests : r.place = i
    BY <2>1, <2>3 DEF Step
  <2> QED BY <2>2, <2>3
<1>7. \A r \in requests : r.place \in 1 .. last
  BY <1>2
<1> QED BY <1>1, <1>2, <1>5, <1>6, <1>7 DEF MoveOneByOne

\* The requests that are still to move.
Above(requests, i) == { r \in requests : r.place > i }

LEMMA AboveSteps ==
  ASSUME NEW requests, Placed(requests), NEW last \in Nat, \A r \in requests : r.place \in 1 .. last
  PROVE  /\ Above(requests, 0) = requests /\ Above(requests, last) = {}
         /\ \A i \in 1 .. last : (\A r \in requests : r.place # i) => Above(requests, i - 1) = Above(requests, i)
         /\ \A i \in 1 .. last : \A r \in requests :
              r.place = i => Above(requests, i - 1) = Above(requests, i) \union {r} /\ r \notin Above(requests, i)
<1>1. Above(requests, 0) = requests /\ Above(requests, last) = {}
  BY DEF Above
<1>2. ASSUME NEW i \in 1 .. last, \A r \in requests : r.place # i
      PROVE  Above(requests, i - 1) = Above(requests, i)
  <2>1. \A r \in requests : r.place > i - 1 <=> r.place > i
    BY <1>2
  <2> QED BY <2>1 DEF Above
<1>3. ASSUME NEW i \in 1 .. last, NEW r \in requests, r.place = i
      PROVE  Above(requests, i - 1) = Above(requests, i) \union {r} /\ r \notin Above(requests, i)
  <2>1. \A q \in requests : q.place > i - 1 <=> q.place > i \/ q = r
    BY <1>3 DEF Placed
  <2>2. ~ (r.place > i)
    BY <1>3
  <2> QED BY <2>1, <2>2 DEF Above
<1> QED BY <1>1, <1>2, <1>3

LEMMA ReanchorAllSound ==
  ASSUME PlacesOK, NEW u, NEW pairs, NEW due, NEW owner, NEW requests, Placed(requests),
         Sound(u, status, pairs \union PairsOf(requests), due),
         NEW x, x = ReanchorAll(u, owner, requests)
  PROVE  Sound(x, status, pairs, due)
<1>0. PICK last, after : MoveOneByOne(u, owner, requests, x, last, after)
  BY ReanchorSteps
<1>1. /\ last \in Nat /\ \A r \in requests : r.place \in 1 .. last
      /\ after[0] = u /\ after[last] = x
      /\ \A i \in 1 .. last :
           \/ after[i] = after[i - 1] /\ \A r \in requests : r.place # i
           \/ \E r \in requests : r.place = i /\ after[i] = Reanchor(after[i - 1], owner, r)
  BY <1>0 DEF MoveOneByOne
<1> DEFINE InHand(i) == pairs \union PairsOf(Above(requests, i))
           Done(i) == Sound(after[i], status, InHand(i), due)
           done == { i \in 0 .. last : Done(i) }
<1>2. 0 \in done
  BY <1>1, AboveSteps, SMTT(40)
<1>3. ASSUME NEW i \in 1 .. last, Done(i - 1) PROVE Done(i)
  <2>1. CASE after[i] = after[i - 1] /\ \A r \in requests : r.place # i
    <3>1. Above(requests, i - 1) = Above(requests, i)
      BY <1>1, <2>1, AboveSteps
    <3> QED BY <1>3, <2>1, <3>1
  <2>2. CASE \E r \in requests : r.place = i /\ after[i] = Reanchor(after[i - 1], owner, r)
    <3>1. PICK r \in requests : r.place = i /\ after[i] = Reanchor(after[i - 1], owner, r)
      BY <2>2
    <3>2. Above(requests, i - 1) = Above(requests, i) \union {r}
      BY <1>1, <3>1, AboveSteps
    <3>3. InHand(i - 1) = InHand(i) \union PairsOf({r})
      BY <3>2 DEF PairsOf
    <3> HIDE DEF InHand
    <3> QED BY <1>3, <3>1, <3>3, ReanchorSound
  <2> QED BY <1>1, <2>1, <2>2
<1>4. \A i \in 1 .. last : i - 1 \in done => i \in done
  <2>1. \A i \in 1 .. last : i \in 0 .. last
    OBVIOUS
  <2> HIDE DEF Done
  <2> QED BY <1>3, <2>1
<1>5. Done(last)
  <2>1. last \in done
    <3> HIDE DEF done
    <3> QED BY <1>1, <1>2, <1>4, UpTo
  <2> QED BY <2>1
<1>6. InHand(last) = pairs
  BY <1>1, AboveSteps DEF PairsOf
<1> QED BY <1>1, <1>5, <1>6

LEMMA NothingKeeps ==
  ASSUME NEW u, NEW hand, NEW keys
  PROVE  Keeps(u, hand, keys, u, hand, keys)
<1>1. Flows(u, hand, u, hand, {}, {})
  BY NothingFlows
<1> QED BY <1>1 DEF Keeps, Flow

LEMMA KeepsThen ==
  ASSUME NEW u, NEW x, NEW y, NEW hand, NEW between, NEW left, NEW keys, NEW some, NEW rest,
         Keeps(u, hand, keys, x, between, some), Keeps(x, between, some, y, left, rest)
  PROVE  Keeps(u, hand, keys, y, left, rest)
<1>1. Flow(u, hand, y, left)
  <2>1. Flow(u, hand, x, between) /\ Flow(x, between, y, left)
    BY DEF Keeps
  <2> QED BY <2>1, FlowThen
<1> QED BY <1>1 DEF Keeps

LEMMA ReanchorAllKept ==
  ASSUME PlacesOK, NEW u, NEW pairs, NEW due, NEW owner, NEW requests, Placed(requests), Tidied(requests),
         Sound(u, status, pairs \union PairsOf(requests), due),
         NEW away, Tidy(u, away \union ({owner} \X KeysOf(requests))),
         NEW x, x = ReanchorAll(u, owner, requests)
  PROVE  Tidy(x, away) /\ Keeps(u, PairsOf(requests), KeysOf(requests), x, {}, {})
<1>0. PICK last, after : MoveOneByOne(u, owner, requests, x, last, after)
  BY ReanchorSteps
<1>1. /\ last \in Nat /\ \A r \in requests : r.place \in 1 .. last
      /\ after[0] = u /\ after[last] = x
      /\ \A i \in 1 .. last :
           \/ after[i] = after[i - 1] /\ \A r \in requests : r.place # i
           \/ \E r \in requests : r.place = i /\ after[i] = Reanchor(after[i - 1], owner, r)
  BY <1>0 DEF MoveOneByOne
<1> DEFINE pairsAt(i) == PairsOf(Above(requests, i))
           keysAt(i) == KeysOf(Above(requests, i))
           awayAt(i) == away \union ({owner} \X keysAt(i))
           Done(i) == /\ Sound(after[i], status, pairs \union pairsAt(i), due)
                      /\ Tidy(after[i], awayAt(i))
                      /\ Keeps(u, PairsOf(requests), KeysOf(requests), after[i], pairsAt(i), keysAt(i))
           done == { i \in 0 .. last : Done(i) }
<1>2. 0 \in done
  <2>1. Above(requests, 0) = requests
    BY <1>1, AboveSteps
  <2>2. Keeps(u, PairsOf(requests), KeysOf(requests), u, PairsOf(requests), KeysOf(requests))
    BY NothingKeeps
  <2>3. Done(0)
    BY <1>1, <2>1, <2>2
  <2> HIDE DEF Done
  <2> QED BY <1>1, <2>3
<1>3. ASSUME NEW i \in 1 .. last, Done(i - 1) PROVE Done(i)
  <2>1. CASE after[i] = after[i - 1] /\ \A r \in requests : r.place # i
    <3>1. Above(requests, i - 1) = Above(requests, i)
      BY <1>1, <2>1, AboveSteps
    <3> QED BY <1>3, <2>1, <3>1
  <2>2. CASE \E r \in requests : r.place = i /\ after[i] = Reanchor(after[i - 1], owner, r)
    <3>1. PICK r \in requests : r.place = i /\ after[i] = Reanchor(after[i - 1], owner, r)
      BY <2>2
    <3>2. Above(requests, i - 1) = Above(requests, i) \union {r} /\ r \notin Above(requests, i)
      BY <1>1, <3>1, AboveSteps
    <3>3. pairs \union pairsAt(i - 1) = (pairs \union pairsAt(i)) \union PairsOf({r})
      BY <3>2 DEF PairsOf
    <3>4. pairsAt(i - 1) = pairsAt(i) \union PairsOf({r})
      BY <3>2 DEF PairsOf
    <3>5. keysAt(i - 1) = keysAt(i) \union {r.key}
      BY <3>2 DEF KeysOf
    <3>6. awayAt(i - 1) = awayAt(i) \union {<<owner, r.key>>}
      <4> HIDE DEF keysAt
      <4> QED BY <3>5
    <3>7. r.key \notin keysAt(i)
      <4>1. \A q \in Above(requests, i) : q \in requests /\ q # r
        BY <3>2 DEF Above
      <4>2. \A q \in Above(requests, i) : q.key # r.key
        BY <4>1 DEF Tidied, KeysDiffer
      <4> QED BY <4>2 DEF KeysOf
    <3>8. Askable(r)
      BY DEF Tidied
    <3> DEFINE now == after[i]
               before == after[i - 1]
    <3> HIDE DEF pairsAt, keysAt, awayAt
    <3>9. Sound(before, status, (pairs \union pairsAt(i)) \union PairsOf({r}), due)
      BY <1>3, <3>3
    <3>10. UiOK(before)
      BY <3>9 DEF Sound
    <3>11. Tidy(before, awayAt(i) \union {<<owner, r.key>>}) /\ now = Reanchor(before, owner, r)
      BY <1>3, <3>1, <3>6
    <3>12. Keeps(u, PairsOf(requests), KeysOf(requests), before, pairsAt(i) \union PairsOf({r}), keysAt(i) \union {r.key})
      BY <1>3, <3>4, <3>5
    <3> HIDE DEF now, before
    <3>13. Sound(now, status, pairs \union pairsAt(i), due)
      BY <3>9, <3>11, ReanchorSound
    <3>14. /\ Tidy(now, awayAt(i))
           /\ Keeps(before, pairsAt(i) \union PairsOf({r}), keysAt(i) \union {r.key}, now, pairsAt(i), keysAt(i))
      BY <3>7, <3>8, <3>10, <3>11, ReanchorKept
    <3>15. Keeps(u, PairsOf(requests), KeysOf(requests), now, pairsAt(i), keysAt(i))
      BY <3>12, <3>14, KeepsThen
    <3> QED BY <3>13, <3>14, <3>15 DEF now
  <2> QED BY <1>1, <2>1, <2>2
<1>4. \A i \in 1 .. last : i - 1 \in done => i \in done
  <2>1. \A i \in 1 .. last : i \in 0 .. last
    OBVIOUS
  <2> HIDE DEF Done
  <2> QED BY <1>3, <2>1
<1>5. Done(last)
  <2>1. last \in done
    <3> HIDE DEF done
    <3> QED BY <1>1, <1>2, <1>4, UpTo
  <2> QED BY <2>1
<1>6. pairsAt(last) = {} /\ keysAt(last) = {} /\ awayAt(last) = away
  BY <1>1, AboveSteps DEF PairsOf, KeysOf
<1> QED BY <1>1, <1>5, <1>6

----------------------------------------------------------------------------
(***************************************************************************)
(* cancelForView.                                                          *)
(***************************************************************************)
LEMMA WithoutViewFields ==
  ASSUME NEW r, IsRequest(r), NEW v
  PROVE  /\ IsRequest(WithoutView(r, v)) /\ WithoutView(r, v).place = r.place
         /\ WithoutView(r, v).key = r.key /\ WithoutView(r, v).anchor = r.anchor
         /\ WithoutView(r, v).sources = r.sources
<1>1. PICK views : WithoutView(r, v) = [r EXCEPT !.affected = views]
  BY DEF WithoutView
<1> QED BY <1>1 DEF IsRequest

(***************************************************************************)
(* What cancelForView does to one window before the router and showNext    *)
(* are called: some requests stay, the others are homeless or moved.       *)
(***************************************************************************)
SameQuestion(q, p) == q.key = p.key /\ q.sources = p.sources

Cancels(kept, u, w, homeless, moved, c, R) ==
  /\ Replaces(kept, u, w, u.pending, u.refused, u.current[w], c, R) /\ kept.routes = u.routes
  /\ WindowOK(c, R) /\ (c # NoRequest => u.active[w] # NoRequest /\ c.anchor = u.active[w].anchor)
  /\ Placed(moved)
  /\ \A q \in Now(c, R) : \E p \in RequestsOf(u, w) : Alike(q, p)
  /\ \A q \in homeless \union moved : \E p \in RequestsOf(u, w) : SameQuestion(q, p)
  /\ \A p \in RequestsOf(u, w) :
       (\E q \in Now(c, R) : Alike(q, p)) \/ \E q \in homeless \union moved : SameQuestion(q, p)
  /\ KeysDiffer(RequestsOf(u, w)) =>
       /\ KeysDiffer(Now(c, R)) /\ KeysDiffer(moved)
       /\ \A q \in Now(c, R) : q.key \notin KeysOf(homeless \union moved)

LEMMA CancelParts ==
  ASSUME NEW u, UiOK(u), NEW w \in Windows, NEW v, NEW x, x = CancelInWindow(u, w, v)
  PROVE  \E kept, homeless, moved, c, R :
           /\ Cancels(kept, u, w, homeless, moved, c, R)
           /\ x = ShowNext(ReanchorAll(DismissRequests(kept, w, homeless), w, moved), w)
<1> DEFINE a == u.active[w]
           Q == u.queue[w]
           Anchored(r) == r.anchor # v /\ Alive(r.anchor)
           Homeless(r) == ~ Anchored(r) /\ WithoutView(r, v).affected = << >>
           Moved(r) == [WithoutView(r, v) EXCEPT !.anchor = WithoutView(r, v).affected[1].view]
           last == LastPlace(Q) + 1
           AtLast(r) == [r EXCEPT !.place = last]
           held == Q \union { AtLast(r) : r \in {a} \ {NoRequest} }
           homeless == { r \in held : Homeless(r) }
           moving == { r \in held : ~ Anchored(r) /\ ~ Homeless(r) }
           moved == { Moved(r) : r \in moving }
           R == { WithoutView(r, v) : r \in { q \in Q : Anchored(q) } }
           c == IF a # NoRequest /\ Anchored(a) THEN WithoutView(a, v) ELSE NoRequest
           kept == [u EXCEPT !.queue[w] = R, !.active[w] = c]
<1>1. x = ShowNext(ReanchorAll(DismissRequests(kept, w, homeless), w, moved), w)
  BY DEF CancelInWindow
<1>2. /\ IsUi(u) /\ u.pending.sources \subseteq Keys \X Sources
      /\ Numbered(Q) /\ (a = NoRequest \/ (IsRequest(a) /\ a.place = 0))
      /\ u.current = [u.current EXCEPT ![w] = u.current[w]]
  BY OfWindowsSame DEF UiOK
<1>3. last \in Nat \ {0} /\ \A q \in Q : q.place \in Nat \ {0} /\ q.place < last
  BY <1>2, LastPlaceIsLast DEF Numbered, Placed
<1>4. ASSUME NEW r, IsRequest(r)
      PROVE  /\ IsRequest(AtLast(r)) /\ AtLast(r).place = last /\ AtLast(r).key = r.key
             /\ AtLast(r).anchor = r.anchor /\ AtLast(r).sources = r.sources
  <2> HIDE DEF last
  <2> QED BY <1>3, <1>4 DEF IsRequest
<1>5. ASSUME NEW r, IsRequest(r)
      PROVE  Moved(r).place = r.place /\ Moved(r).key = r.key /\ Moved(r).sources = r.sources
  <2> DEFINE y == WithoutView(r, v)
             view == y.affected[1].view
  <2>1. IsRequest(y) /\ y.place = r.place /\ y.key = r.key /\ y.sources = r.sources
    BY <1>5, WithoutViewFields
  <2>2. Moved(r) = [y EXCEPT !.anchor = view]
    OBVIOUS
  <2> HIDE DEF y, view, Moved
  <2> QED BY <2>1, <2>2 DEF IsRequest
<1> HIDE DEF last, AtLast, Moved, Homeless
<1>6. Placed(held) /\ \A r \in held : IsRequest(r)
  <2>1. \A r \in held : IsRequest(r) /\ r.place \in Nat \ {0} /\ r.place <= last /\ (r.place = last => r = AtLast(a))
    BY <1>2, <1>3, <1>4 DEF Numbered
  <2>2. \A p, q \in held : p.place = q.place => p = q
    <3> SUFFICES ASSUME NEW p \in held, NEW q \in held, p.place = q.place PROVE p = q
      OBVIOUS
    <3>1. CASE p.place = last
      BY <2>1, <3>1
    <3>2. CASE p.place # last
      <4>1. p \in Q /\ q \in Q
        BY <1>2, <1>4, <3>2
      <4> QED BY <1>2, <4>1 DEF Numbered, Placed
    <3> QED BY <3>1, <3>2
  <2> HIDE DEF held
  <2> QED BY <1>3, <2>1, <2>2 DEF Placed
<1>7. Placed(moved)
  <2>1. \A m \in moved : \E r \in held : m = Moved(r) /\ m.place = r.place
    BY <1>5, <1>6
  <2> HIDE DEF held, moved
  <2>2. \A m \in moved : m.place \in Nat \ {0}
    BY <1>6, <2>1 DEF Placed
  <2>3. \A m, n \in moved : m.place = n.place => m = n
    <3> SUFFICES ASSUME NEW m \in moved, NEW n \in moved, m.place = n.place PROVE m = n
      OBVIOUS
    <3>1. PICK p \in held : m = Moved(p) /\ m.place = p.place
      BY <2>1
    <3>2. PICK q \in held : n = Moved(q) /\ n.place = q.place
      BY <2>1
    <3>3. p.place = q.place
      BY <3>1, <3>2
    <3>4. p = q
      BY <1>6, <3>3 DEF Placed
    <3> QED BY <3>1, <3>2, <3>4
  <2>4. \E b \in Nat : \A m \in moved : m.place <= b
    <3>1. PICK b \in Nat : \A r \in held : r.place <= b
      BY <1>6 DEF Placed
    <3>2. \A m \in moved : m.place <= b
      BY <2>1, <3>1
    <3> QED BY <3>2
  <2> QED BY <2>2, <2>3, <2>4 DEF Placed
<1>8. /\ c # NoRequest => /\ a # NoRequest /\ Anchored(a) /\ c = WithoutView(a, v)
                          /\ IsRequest(c) /\ c.place = 0 /\ Alike(c, a)
      /\ a # NoRequest /\ Anchored(a) => Alike(c, a) /\ c # NoRequest
  <2>1. CASE a # NoRequest /\ Anchored(a)
    <3>1. IsRequest(c) /\ c.place = 0 /\ Alike(c, a) /\ c = WithoutView(a, v)
      BY <1>2, <2>1, WithoutViewFields DEF Alike
    <3> QED BY <2>1, <3>1, IsNoRequest
  <2>2. CASE ~ (a # NoRequest /\ Anchored(a))
    BY <2>2
  <2> QED BY <2>1, <2>2
<1>9. /\ \A q \in R : \E r \in Q : /\ IsRequest(q) /\ q.place = r.place /\ q = WithoutView(r, v)
                                   /\ Anchored(r) /\ Alike(q, r)
      /\ \A r \in Q : Anchored(r) => \E q \in R : Alike(q, r)
  <2>1. \A r \in Q : IsRequest(r)
    BY <1>2 DEF Numbered
  <2> HIDE DEF Q
  <2> QED BY <2>1, WithoutViewFields DEF Alike
<1>10. Numbered(R)
  <2> HIDE DEF R
  <2>1. \A q \in R : q.place \in Nat \ {0} /\ q.place <= last
    BY <1>3, <1>9
  <2>2. \A p, q \in R : p.place = q.place => p = q
    <3> SUFFICES ASSUME NEW p \in R, NEW q \in R, p.place = q.place PROVE p = q
      OBVIOUS
    <3>1. PICK r \in Q : p.place = r.place /\ p = WithoutView(r, v)
      BY <1>9
    <3>2. PICK s \in Q : q.place = s.place /\ q = WithoutView(s, v)
      BY <1>9
    <3>3. r.place = s.place
      BY <3>1, <3>2
    <3>4. r = s
      BY <1>2, <3>3 DEF Numbered, Placed
    <3> QED BY <3>1, <3>2, <3>4
  <2> QED BY <1>3, <1>9, <2>1, <2>2 DEF Numbered, Placed
<1>11. /\ RequestsOf(u, w) = Q \union ({a} \ {NoRequest}) /\ Now(c, R) = R \union ({c} \ {NoRequest})
       /\ a \notin Q
  <2>1. a \notin Q
    <3>1. a = NoRequest => a \notin Q
      BY <1>2, IsNoRequest DEF Numbered
    <3>2. a # NoRequest => a \notin Q
      BY <1>2 DEF Numbered, Placed
    <3> QED BY <3>1, <3>2
  <2> QED BY <2>1 DEF RequestsOf, Now
<1>12. \A h \in held : /\ \E q \in RequestsOf(u, w) : Alike(h, q) /\ ((q = a /\ h = AtLast(a)) \/ (q # a /\ h = q))
  <2>1. ASSUME NEW h \in held
        PROVE  \E q \in RequestsOf(u, w) : Alike(h, q) /\ ((q = a /\ h = AtLast(a)) \/ (q # a /\ h = q))
    <3>1. CASE h \in Q
      BY <1>11, <3>1 DEF Alike
    <3>2. CASE h = AtLast(a) /\ a # NoRequest
      BY <1>2, <1>4, <1>11, <3>2 DEF Alike
    <3> QED BY <3>1, <3>2
  <2> QED BY <2>1
<1>13. \A q \in RequestsOf(u, w) : \E h \in held : Alike(h, q)
  <2>1. ASSUME NEW q \in RequestsOf(u, w) PROVE \E h \in held : Alike(h, q)
    <3>1. CASE q \in Q
      BY <3>1 DEF Alike
    <3>2. CASE q = a /\ a # NoRequest
      BY <1>2, <1>4, <3>2 DEF Alike
    <3> QED BY <1>11, <3>1, <3>2
  <2> QED BY <2>1
<1>14. \A q \in Now(c, R) : \E p \in RequestsOf(u, w) : Alike(q, p) /\ Anchored(p) /\ q = WithoutView(p, v)
  BY <1>8, <1>9, <1>11
<1>15. /\ \A q \in homeless \union moved : \E h \in held : SameQuestion(q, h) /\ ~ Anchored(h)
       /\ \A q \in moved : \E h \in held : q = Moved(h) /\ q.key = h.key
       /\ \A h \in held : ~ Anchored(h) => \E q \in homeless \union moved : SameQuestion(q, h)
  <2>1. \A h \in held : Moved(h).key = h.key /\ Moved(h).sources = h.sources
    BY <1>5, <1>6
  <2> HIDE DEF held
  <2>2. \A q \in homeless : q \in held /\ ~ Anchored(q)
    BY DEF Homeless
  <2>3. \A q \in moved : \E h \in held : q = Moved(h) /\ ~ Anchored(h)
    OBVIOUS
  <2>4. \A h \in held : ~ Anchored(h) => h \in homeless \/ Moved(h) \in moved
    OBVIOUS
  <2> HIDE DEF homeless, moved
  <2> QED BY <2>1, <2>2, <2>3, <2>4 DEF SameQuestion
<1> HIDE DEF R, c, held, homeless, moving, moved, a, Q
<1>16. ASSUME NEW p \in RequestsOf(u, w)
       PROVE  (\E q \in Now(c, R) : Alike(q, p)) \/ \E q \in homeless \union moved : SameQuestion(q, p)
  <2>1. CASE Anchored(p)
    BY <1>8, <1>9, <1>11, <2>1
  <2>2. CASE ~ Anchored(p)
    <3>1. PICK h \in held : Alike(h, p)
      BY <1>13
    <3>2. ~ Anchored(h)
      BY <2>2, <3>1 DEF Alike
    <3>3. PICK q \in homeless \union moved : SameQuestion(q, h)
      BY <1>15, <3>2
    <3> QED BY <3>1, <3>3 DEF Alike, SameQuestion
  <2> QED BY <2>1, <2>2
<1>17. \A q \in homeless \union moved : \E p \in RequestsOf(u, w) : SameQuestion(q, p) /\ ~ Anchored(p)
  <2>1. ASSUME NEW q \in homeless \union moved
        PROVE  \E p \in RequestsOf(u, w) : SameQuestion(q, p) /\ ~ Anchored(p)
    <3>1. PICK h \in held : SameQuestion(q, h) /\ ~ Anchored(h)
      BY <1>15
    <3>2. PICK p \in RequestsOf(u, w) : Alike(h, p)
      BY <1>12
    <3> QED BY <3>1, <3>2 DEF Alike, SameQuestion
  <2> QED BY <2>1
<1>18. ASSUME KeysDiffer(RequestsOf(u, w))
       PROVE  /\ KeysDiffer(Now(c, R)) /\ KeysDiffer(moved)
              /\ \A q \in Now(c, R) : q.key \notin KeysOf(homeless \union moved)
  <2>1. KeysDiffer(Now(c, R))
    BY <1>14, <1>18 DEF KeysDiffer, Alike
  <2>2. KeysDiffer(held)
    BY <1>12, <1>18 DEF KeysDiffer, Alike
  <2>3. KeysDiffer(moved)
    BY <1>15, <2>2 DEF KeysDiffer
  <2>4. ASSUME NEW q \in Now(c, R), NEW p \in homeless \union moved, q.key = p.key PROVE FALSE
    <3>1. PICK r \in RequestsOf(u, w) : Alike(q, r) /\ Anchored(r)
      BY <1>14
    <3>2. PICK o \in RequestsOf(u, w) : SameQuestion(p, o) /\ ~ Anchored(o)
      BY <1>17
    <3>3. r = o
      BY <1>18, <2>4, <3>1, <3>2 DEF KeysDiffer, Alike, SameQuestion
    <3> QED BY <3>1, <3>2, <3>3
  <2> QED BY <2>1, <2>3, <2>4 DEF KeysOf
<1>19. Replaces(kept, u, w, u.pending, u.refused, u.current[w], c, R) /\ kept.routes = u.routes
  <2>1. /\ IsUi(kept) /\ kept.pending = u.pending /\ kept.refused = u.refused /\ kept.current = u.current
        /\ kept.active = [u.active EXCEPT ![w] = c] /\ kept.queue = [u.queue EXCEPT ![w] = R]
        /\ kept.routes = u.routes
    BY <1>2 DEF IsUi
  <2> QED BY <1>2, <2>1 DEF Replaces
<1>20. WindowOK(c, R) /\ (c # NoRequest => u.active[w] # NoRequest /\ c.anchor = u.active[w].anchor)
  <2>1. c = NoRequest \/ (IsRequest(c) /\ c.place = 0)
    BY <1>8
  <2>2. c # NoRequest => a # NoRequest /\ c.anchor = a.anchor
    BY <1>8 DEF Alike
  <2> QED BY <1>10, <2>1, <2>2 DEF WindowOK, a
<1> HIDE DEF kept
<1>21. Cancels(kept, u, w, homeless, moved, c, R)
  <2>1. /\ \A q \in Now(c, R) : \E p \in RequestsOf(u, w) : Alike(q, p)
        /\ \A q \in homeless \union moved : \E p \in RequestsOf(u, w) : SameQuestion(q, p)
        /\ \A p \in RequestsOf(u, w) :
             (\E q \in Now(c, R) : Alike(q, p)) \/ \E q \in homeless \union moved : SameQuestion(q, p)
    BY <1>14, <1>16, <1>17
  <2> QED BY <1>7, <1>18, <1>19, <1>20, <2>1 DEF Cancels
<1> QED BY <1>1, <1>21

LEMMA CancelsSound ==
  ASSUME NEW u, NEW pairs, NEW due, NEW w \in Windows, Sound(u, status, pairs, due),
         NEW kept, NEW homeless, NEW moved, NEW c, NEW R, Cancels(kept, u, w, homeless, moved, c, R),
         NEW x, x = DismissRequests(kept, w, homeless)
  PROVE  Sound(x, status, pairs \union PairsOf(moved), due \union {w})
<1> DEFINE inHand == (pairs \union PairsOf(moved)) \union PairsOf(homeless)
<1>2. Replaces(kept, u, w, u.pending, u.refused, u.current[w], c, R) /\ WindowOK(c, R) /\ Placed(moved)
  BY DEF Cancels
<1>3. WindowFollows(status, u.current[w], c, R, w \in due \union {w})
  BY DEF Cancels, WindowFollows, Sound, Follows
<1>4. StillAsked(u, w, pairs, inHand, u.pending, u.refused, c, R)
  <2> SUFFICES ASSUME NEW pair \in u.pending.sources, NEW p \in RequestsOf(u, w), About(p, pair), pair \notin inHand
               PROVE  \E q \in Now(c, R) : About(q, pair)
    BY DEF StillAsked, Now
  <2>1. pair \in Keys \X Sources
    BY DEF Sound, UiOK
  <2>2. ASSUME NEW q \in homeless \union moved, SameQuestion(q, p) PROVE FALSE
    <3>1. About(q, pair)
      BY <2>2 DEF About, SameQuestion
    <3>2. pair \in PairsOf(homeless) \/ pair \in PairsOf(moved)
      BY <2>1, <3>1, PairsAreAbout
    <3> QED BY <3>2
  <2>3. PICK q \in Now(c, R) : Alike(q, p)
    BY <2>2 DEF Cancels
  <2> QED BY <2>3 DEF About, Alike
<1>5. Sound(kept, status, inHand, due \union {w})
  <2> HIDE DEF inHand
  <2> QED BY <1>2, <1>3, <1>4, ReplacedSound
<1> QED BY <1>5, DismissSound

LEMMA CancelInWindowSound ==
  ASSUME PlacesOK, NEW u, NEW pairs, NEW due, NEW w \in Windows, NEW v, Sound(u, status, pairs, due),
         NEW x, x = CancelInWindow(u, w, v)
  PROVE  Sound(x, status, pairs, due)
<1>1. PICK kept, homeless, moved, c, R :
             /\ Cancels(kept, u, w, homeless, moved, c, R)
             /\ x = ShowNext(ReanchorAll(DismissRequests(kept, w, homeless), w, moved), w)
  BY CancelParts DEF Sound
<1> DEFINE dismissed == DismissRequests(kept, w, homeless)
           all == ReanchorAll(dismissed, w, moved)
<1> HIDE DEF dismissed, all
<1>2. Sound(dismissed, status, pairs \union PairsOf(moved), due \union {w})
  BY <1>1, CancelsSound DEF dismissed
<1>3. Sound(all, status, pairs, due \union {w})
  <2>1. Placed(moved)
    BY <1>1 DEF Cancels
  <2> QED BY <1>2, <2>1, ReanchorAllSound DEF all
<1> QED BY <1>1, <1>3, ShowNextSound DEF all, dismissed

LEMMA CancelInWindowKept ==
  ASSUME PlacesOK, NEW u, NEW pairs, NEW due, NEW w \in Windows, NEW v, Sound(u, status, pairs, due),
         NEW away, Tidy(u, away), NEW x, x = CancelInWindow(u, w, v)
  PROVE  Tidy(x, away) /\ Keeps(u, {}, {}, x, {}, {})
<1>1. PICK kept, homeless, moved, c, R :
             /\ Cancels(kept, u, w, homeless, moved, c, R)
             /\ x = ShowNext(ReanchorAll(DismissRequests(kept, w, homeless), w, moved), w)
  BY CancelParts DEF Sound
<1> DEFINE dismissed == DismissRequests(kept, w, homeless)
           all == ReanchorAll(dismissed, w, moved)
           pending == u.pending
           refused == u.refused
           current == u.current[w]
           now == Now(c, R)
           old == RequestsOf(u, w)
           hand == PairsOf(moved) \union PairsOf(homeless)
           keys == KeysOf(moved) \union KeysOf(homeless)
           gone == away \union ({w} \X KeysOf(moved))
           going == gone \union ({w} \X KeysOf(homeless))
           none == {}
<1> HIDE DEF dismissed, all
<1>2. UiOK(kept) /\ ReplacedFields(kept, u, w, pending, refused, current, c, R) /\ kept.routes = u.routes
  <2>1. UiOK(u) /\ pending.sources \subseteq Keys \X Sources
    BY DEF Sound, UiOK
  <2>2. Replaces(kept, u, w, pending, refused, current, c, R) /\ WindowOK(c, R) /\ kept.routes = u.routes
    BY <1>1 DEF Cancels
  <2> HIDE DEF pending, refused, current
  <2> QED BY <2>1, <2>2, ReplacedOK
<1>3. /\ \A q \in now : \E p \in old : Alike(q, p)
      /\ \A q \in homeless \union moved : \E p \in old : SameQuestion(q, p)
      /\ \A p \in old : (\E q \in now : Alike(q, p)) \/ \E q \in homeless \union moved : SameQuestion(q, p)
      /\ KeysDiffer(now) /\ KeysDiffer(moved)
      /\ \A q \in now : q.key \notin KeysOf(homeless \union moved)
  <2>1. KeysDiffer(old)
    BY DEF Tidy, Tidied
  <2> QED BY <1>1, <2>1 DEF Cancels
<1>4. Tidied(old) /\ (w \notin Registered => old = {})
  BY DEF Tidy
<1>5. keys = KeysOf(homeless \union moved)
  BY DEF KeysOf
<1>6. /\ \A p, q : Alike(p, q) => SourcePairs(p) = SourcePairs(q)
      /\ \A p, q : SameQuestion(p, q) => SourcePairs(p) = SourcePairs(q)
  BY DEF Alike, SameQuestion, SourcePairs
<1> HIDE DEF now, old, pending, refused, current, keys
<1>7. Tidy(kept, going)
  <2>1. TrackerOK(pending) /\ (w \in Registered \/ now = {})
    BY <1>3, <1>4 DEF Tidy, pending
  <2>2. Tidied(now)
    <3>1. \A q \in now : Askable(q)
      BY <1>3, <1>4 DEF Tidied, Askable, Alike
    <3> QED BY <1>3, <3>1 DEF Tidied
  <2>3. ASSUME NEW k \in DOMAIN kept.routes
        PROVE  /\ k \in DOMAIN u.routes /\ kept.routes[k] = u.routes[k]
               /\ kept.routes[k].window = w => <<w, k>> \in going \/ \E q \in now : q.key = k
    <3>1. k \in DOMAIN u.routes /\ kept.routes[k] = u.routes[k]
      BY <1>2, <2>3
    <3>2. u.routes[k].window = w => <<w, k>> \in away \/ \E p \in old : p.key = k
      BY <3>1 DEF Tidy, RoutesOK, Has, old
    <3>3. ASSUME NEW p \in old, p.key = k PROVE <<w, k>> \in going \/ \E q \in now : q.key = k
      <4>1. CASE \E q \in now : Alike(q, p)
        BY <3>3, <4>1 DEF Alike
      <4>2. CASE \E q \in homeless \union moved : SameQuestion(q, p)
        <5>1. k \in KeysOf(moved) \/ k \in KeysOf(homeless)
          BY <3>3, <4>2 DEF KeysOf, SameQuestion
        <5> QED BY <5>1
      <4> QED BY <1>3, <4>1, <4>2
    <3> QED BY <3>1, <3>2, <3>3
  <2>4. \A o \in Windows, k \in Keys : <<o, k>> \in away => o = w \/ <<o, k>> \in going
    OBVIOUS
  <2> HIDE DEF gone, going
  <2> QED BY <1>2, <2>1, <2>2, <2>3, <2>4, ReplacedTidy DEF now
<1>8. Flows(u, none, kept, hand, none, none)
  <2> DEFINE here == PairsOf(old)
             then == PairsOf(now)
  <2>1. pending.sources = u.pending.sources \ none /\ refused = u.refused \union none
    BY DEF pending, refused
  <2>2. then \subseteq here /\ hand \subseteq here /\ here \subseteq then \union hand
    <3>1. hand = PairsOf(homeless \union moved)
      BY DEF PairsOf
    <3>2. ASSUME NEW pair \in here PROVE pair \in then \union hand
      <4>1. PICK p \in old : pair \in SourcePairs(p)
        BY DEF PairsOf
      <4>2. (\E q \in now : SourcePairs(q) = SourcePairs(p))
              \/ \E q \in homeless \union moved : SourcePairs(q) = SourcePairs(p)
        BY <1>3, <1>6
      <4> QED BY <3>1, <4>1, <4>2 DEF PairsOf
    <3>3. then \subseteq here
      BY <1>3, <1>6 DEF PairsOf
    <3>4. hand \subseteq here
      BY <1>3, <1>6, <3>1 DEF PairsOf
    <3> QED BY <3>2, <3>3, <3>4
  <2>3. \A pair \in none : FullIn(here \union none, pair)
    OBVIOUS
  <2> HIDE DEF here, then, hand
  <2>4. /\ none \union none \subseteq here \union none
        /\ (here \union none) \ (none \union none) \subseteq then \union hand
        /\ then \union hand \subseteq here \union none
    BY <2>2
  <2>5. /\ none \union none \subseteq PairsOf(RequestsOf(u, w)) \union none
        /\ (PairsOf(RequestsOf(u, w)) \union none) \ (none \union none) \subseteq PairsOf(Now(c, R)) \union hand
        /\ PairsOf(Now(c, R)) \union hand \subseteq PairsOf(RequestsOf(u, w)) \union none
        /\ \A pair \in none : FullIn(PairsOf(RequestsOf(u, w)) \union none, pair)
    BY <2>3, <2>4 DEF here, then, old, now
  <2> HIDE DEF none
  <2> QED BY <1>2, <2>1, <2>5, ReplacedFlows
<1>9. ASSUME NEW key, Led(u, key, none) PROVE Led(kept, key, keys)
  <2>1. \A q \in now : \E p \in RequestsOf(u, w) : q.key = p.key /\ q.anchor = p.anchor
    BY <1>3 DEF Alike, old
  <2>2. \A k \in DOMAIN u.routes :
          u.routes[k].window # w \/ (\E q \in now : q.key = k) =>
            k \in DOMAIN kept.routes /\ kept.routes[k] = u.routes[k]
    BY <1>2
  <2>3. key \in keys => key \in none \/ (Has(u, w, key) /\ \A q \in now : q.key # key)
    <3>1. ASSUME key \in keys PROVE Has(u, w, key)
      <4>1. PICK q \in homeless \union moved : q.key = key
        BY <1>5, <3>1 DEF KeysOf
      <4> QED BY <1>3, <4>1 DEF Has, old, SameQuestion
    <3> QED BY <1>3, <1>5, <3>1
  <2> HIDE DEF none
  <2> QED BY <1>2, <1>9, <2>1, <2>2, <2>3, ReplacedLed DEF now
<1>10. Keeps(u, none, none, kept, hand, keys)
  BY <1>8, <1>9 DEF Keeps, Flow
<1>11. Tidy(dismissed, gone) /\ Keeps(kept, hand, keys, dismissed, PairsOf(moved), KeysOf(moved))
  <2>1. IsUi(kept)
    BY <1>2 DEF UiOK
  <2> HIDE DEF gone
  <2> QED BY <1>7, <2>1, DismissKept DEF dismissed, keys
<1>12. Sound(dismissed, status, pairs \union PairsOf(moved), due \union {w})
  BY <1>1, CancelsSound DEF dismissed
<1>13. Placed(moved) /\ Tidied(moved)
  <2>1. \A q \in moved : Askable(q)
    BY <1>3, <1>4 DEF Tidied, Askable, SameQuestion
  <2> QED BY <1>1, <1>3, <2>1 DEF Tidied, Cancels
<1>14. Sound(all, status, pairs, due \union {w})
  BY <1>12, <1>13, ReanchorAllSound DEF all
<1>15. Tidy(all, away) /\ Keeps(dismissed, PairsOf(moved), KeysOf(moved), all, {}, {})
  BY <1>11, <1>12, <1>13, ReanchorAllKept DEF all
<1>16. Tidy(x, away) /\ Keeps(all, {}, {}, x, {}, {})
  <2>1. UiOK(all) /\ x = ShowNext(all, w)
    BY <1>1, <1>14 DEF Sound, all, dismissed
  <2>2. /\ Tidy(x, away) /\ \E lost : Flows(all, none, x, none, lost, {})
        /\ \A key, some : Led(all, key, some) => Led(x, key, some)
    <3> HIDE DEF none
    <3> QED BY <1>15, <2>1, ShowNextKept
  <2> QED BY <2>2 DEF Keeps, Flow
<1>17. Keeps(u, none, none, all, {}, {})
  <2>1. Keeps(u, none, none, dismissed, PairsOf(moved), KeysOf(moved))
    <3> HIDE DEF none, hand
    <3> QED BY <1>10, <1>11, KeepsThen
  <2> HIDE DEF none
  <2> QED BY <1>15, <2>1, KeepsThen
<1>18. Keeps(u, {}, {}, x, {}, {})
  BY <1>16, <1>17, KeepsThen
<1> QED BY <1>16, <1>18

LEMMA CancelForViewSteps ==
  ASSUME PlacesOK, NEW u, NEW v, NEW x, x = CancelForView(u, v)
  PROVE  \E after :
           /\ after[0] = u /\ after[Len(windows)] = x
           /\ \A i \in 1 .. Len(windows) : after[i] = CancelInWindow(after[i - 1], windows[i], v)
<1> DEFINE last == Len(windows)
           Steps(f, m) == [i \in 0 .. m |-> IF i = 0 THEN u ELSE CancelInWindow(f[i - 1], windows[i], v)]
           after == CHOOSE f : f = Steps(f, last)
<1>1. x = after[last]
  BY DEF CancelForView
<1>2. last \in Nat
  BY DEF PlacesOK
<1> HIDE DEF last
<1>3. after = Steps(after, last)
  <2> DEFINE Good(m) == \E f : f = Steps(f, m)
  <2>1. Good(0)
    <3> DEFINE f == [i \in 0 .. 0 |-> u]
    <3>1. f = Steps(f, 0)
      OBVIOUS
    <3> QED BY <3>1
  <2>2. ASSUME NEW m \in Nat, Good(m) PROVE Good(m + 1)
    <3>1. PICK f : f = Steps(f, m)
      BY <2>2
    <3> DEFINE g == [i \in 0 .. m + 1 |-> IF i = m + 1 THEN CancelInWindow(f[m], windows[i], v) ELSE f[i]]
    <3>2. \A i \in 0 .. m : g[i] = f[i]
      OBVIOUS
    <3>3. \A i \in 0 .. m : f[i] = IF i = 0 THEN u ELSE CancelInWindow(f[i - 1], windows[i], v)
      BY <3>1
    <3>4. g[m + 1] = CancelInWindow(f[m], windows[m + 1], v)
      OBVIOUS
    <3> HIDE DEF g
    <3>5. \A i \in 0 .. m + 1 : g[i] = IF i = 0 THEN u ELSE CancelInWindow(g[i - 1], windows[i], v)
      <4> SUFFICES ASSUME NEW i \in 0 .. m + 1 PROVE g[i] = IF i = 0 THEN u ELSE CancelInWindow(g[i - 1], windows[i], v)
        OBVIOUS
      <4>1. CASE i = m + 1
        BY <3>2, <3>4, <4>1
      <4>2. CASE i # m + 1 /\ i # 0
        <5>1. i \in 0 .. m /\ i - 1 \in 0 .. m
          BY <4>2
        <5> QED BY <3>2, <3>3, <4>2, <5>1
      <4>3. CASE i = 0
        BY <3>2, <3>3, <4>3
      <4> QED BY <4>1, <4>2, <4>3
    <3>6. g = Steps(g, m + 1)
      BY <3>5 DEF g
    <3> QED BY <3>6
  <2>3. Good(last)
    <3> HIDE DEF Good
    <3>1. SUFFICES ASSUME ~ Good(last) PROVE FALSE
      OBVIOUS
    <3>2. PICK n \in { m \in Nat : ~ Good(m) } : \A k \in { m \in Nat : ~ Good(m) } : n <= k
      BY <1>2, <3>1, LeastNumber
    <3>3. n # 0 /\ n - 1 \in Nat
      BY <2>1, <3>2
    <3>4. Good(n - 1)
      BY <3>2, <3>3
    <3> QED BY <2>2, <3>2, <3>3, <3>4
  <2> QED BY <2>3
<1> HIDE DEF after
<1>4. \A i \in 0 .. last : after[i] = IF i = 0 THEN u ELSE CancelInWindow(after[i - 1], windows[i], v)
  BY <1>3
<1> HIDE DEF Steps
<1>5. after[0] = u /\ \A i \in 1 .. last : after[i] = CancelInWindow(after[i - 1], windows[i], v)
  BY <1>2, <1>4
<1> QED BY <1>1, <1>5 DEF last

LEMMA CancelForViewSound ==
  ASSUME PlacesOK, NEW u, NEW pairs, NEW due, Sound(u, status, pairs, due), NEW v,
         NEW x, x = CancelForView(u, v)
  PROVE  Sound(x, status, pairs, due)
<1>1. PICK after :
             /\ after[0] = u /\ after[Len(windows)] = x
             /\ \A i \in 1 .. Len(windows) : after[i] = CancelInWindow(after[i - 1], windows[i], v)
  BY CancelForViewSteps
<1> DEFINE last == Len(windows)
           Done(i) == Sound(after[i], status, pairs, due)
           done == { i \in 0 .. last : Done(i) }
<1>2. last \in Nat /\ \A i \in 1 .. last : windows[i] \in Windows
  BY DEF PlacesOK
<1>3. 0 \in done
  BY <1>1, <1>2
<1>4. ASSUME NEW i \in 1 .. last, Done(i - 1) PROVE Done(i)
  BY <1>1, <1>2, <1>4, CancelInWindowSound
<1>5. \A i \in 1 .. last : i - 1 \in done => i \in done
  <2>1. \A i \in 1 .. last : i \in 0 .. last
    OBVIOUS
  <2> HIDE DEF Done, last
  <2> QED BY <1>4, <2>1
<1>6. last \in done
  <2> HIDE DEF done, last
  <2> QED BY <1>2, <1>3, <1>5, UpTo
<1> QED BY <1>1, <1>6

LEMMA CancelForViewKept ==
  ASSUME PlacesOK, NEW u, NEW pairs, NEW due, Sound(u, status, pairs, due), NEW v,
         NEW away, Tidy(u, away), NEW x, x = CancelForView(u, v)
  PROVE  Tidy(x, away) /\ Keeps(u, {}, {}, x, {}, {})
<1>1. PICK after :
             /\ after[0] = u /\ after[Len(windows)] = x
             /\ \A i \in 1 .. Len(windows) : after[i] = CancelInWindow(after[i - 1], windows[i], v)
  BY CancelForViewSteps
<1> DEFINE last == Len(windows)
           Done(i) == /\ Sound(after[i], status, pairs, due)
                      /\ Tidy(after[i], away) /\ Keeps(u, {}, {}, after[i], {}, {})
           done == { i \in 0 .. last : Done(i) }
<1>2. last \in Nat /\ \A i \in 1 .. last : windows[i] \in Windows
  BY DEF PlacesOK
<1>3. 0 \in done
  <2>1. Keeps(u, {}, {}, u, {}, {})
    BY NothingKeeps
  <2> QED BY <1>1, <1>2, <2>1
<1>4. ASSUME NEW i \in 1 .. last, Done(i - 1) PROVE Done(i)
  <2> DEFINE before == after[i - 1]
             now == after[i]
  <2>1. /\ now = CancelInWindow(before, windows[i], v) /\ windows[i] \in Windows
        /\ Sound(before, status, pairs, due) /\ Tidy(before, away) /\ Keeps(u, {}, {}, before, {}, {})
    BY <1>1, <1>2, <1>4
  <2> HIDE DEF before, now
  <2>2. /\ Sound(now, status, pairs, due)
        /\ Tidy(now, away) /\ Keeps(before, {}, {}, now, {}, {})
    BY <2>1, CancelInWindowSound, CancelInWindowKept
  <2>3. Keeps(u, {}, {}, now, {}, {})
    BY <2>1, <2>2, KeepsThen
  <2> QED BY <2>2, <2>3 DEF now
<1>5. \A i \in 1 .. last : i - 1 \in done => i \in done
  <2>1. \A i \in 1 .. last : i \in 0 .. last
    OBVIOUS
  <2> HIDE DEF Done, last
  <2> QED BY <1>4, <2>1
<1>6. last \in done
  <2> HIDE DEF done, last
  <2> QED BY <1>2, <1>3, <1>5, UpTo
<1> QED BY <1>1, <1>6

LEMMA CancelForViewsSteps ==
  ASSUME NEW u, NEW views, Len(views) \in Nat, NEW x, x = CancelForViews(u, views)
  PROVE  \E after :
           /\ after[0] = u /\ after[Len(views)] = x
           /\ \A i \in 1 .. Len(views) : after[i] = CancelForView(after[i - 1], views[i])
<1> DEFINE last == Len(views)
           Steps(f, m) == [i \in 0 .. m |-> IF i = 0 THEN u ELSE CancelForView(f[i - 1], views[i])]
           after == CHOOSE f : f = Steps(f, last)
<1>1. x = after[last]
  BY DEF CancelForViews
<1>2. last \in Nat
  OBVIOUS
<1> HIDE DEF last
<1>3. after = Steps(after, last)
  <2> DEFINE Good(m) == \E f : f = Steps(f, m)
  <2>1. Good(0)
    <3> DEFINE f == [i \in 0 .. 0 |-> u]
    <3>1. f = Steps(f, 0)
      OBVIOUS
    <3> QED BY <3>1
  <2>2. ASSUME NEW m \in Nat, Good(m) PROVE Good(m + 1)
    <3>1. PICK f : f = Steps(f, m)
      BY <2>2
    <3> DEFINE g == [i \in 0 .. m + 1 |-> IF i = m + 1 THEN CancelForView(f[m], views[i]) ELSE f[i]]
    <3>2. \A i \in 0 .. m : g[i] = f[i]
      OBVIOUS
    <3>3. \A i \in 0 .. m : f[i] = IF i = 0 THEN u ELSE CancelForView(f[i - 1], views[i])
      BY <3>1
    <3>4. g[m + 1] = CancelForView(f[m], views[m + 1])
      OBVIOUS
    <3> HIDE DEF g
    <3>5. \A i \in 0 .. m + 1 : g[i] = IF i = 0 THEN u ELSE CancelForView(g[i - 1], views[i])
      <4> SUFFICES ASSUME NEW i \in 0 .. m + 1 PROVE g[i] = IF i = 0 THEN u ELSE CancelForView(g[i - 1], views[i])
        OBVIOUS
      <4>1. CASE i = m + 1
        BY <3>2, <3>4, <4>1
      <4>2. CASE i # m + 1 /\ i # 0
        <5>1. i \in 0 .. m /\ i - 1 \in 0 .. m
          BY <4>2
        <5> QED BY <3>2, <3>3, <4>2, <5>1
      <4>3. CASE i = 0
        BY <3>2, <3>3, <4>3
      <4> QED BY <4>1, <4>2, <4>3
    <3>6. g = Steps(g, m + 1)
      BY <3>5 DEF g
    <3> QED BY <3>6
  <2>3. Good(last)
    <3> HIDE DEF Good
    <3>1. SUFFICES ASSUME ~ Good(last) PROVE FALSE
      OBVIOUS
    <3>2. PICK n \in { m \in Nat : ~ Good(m) } : \A k \in { m \in Nat : ~ Good(m) } : n <= k
      BY <1>2, <3>1, LeastNumber
    <3>3. n # 0 /\ n - 1 \in Nat
      BY <2>1, <3>2
    <3>4. Good(n - 1)
      BY <3>2, <3>3
    <3> QED BY <2>2, <3>2, <3>3, <3>4
  <2> QED BY <2>3
<1> HIDE DEF after
<1>4. \A i \in 0 .. last : after[i] = IF i = 0 THEN u ELSE CancelForView(after[i - 1], views[i])
  BY <1>3
<1> HIDE DEF Steps
<1>5. after[0] = u /\ \A i \in 1 .. last : after[i] = CancelForView(after[i - 1], views[i])
  BY <1>2, <1>4
<1> QED BY <1>1, <1>5 DEF last

LEMMA CancelForViewsSound ==
  ASSUME PlacesOK, NEW u, NEW pairs, NEW due, Sound(u, status, pairs, due), NEW views, Len(views) \in Nat,
         NEW x, x = CancelForViews(u, views)
  PROVE  Sound(x, status, pairs, due)
<1>1. PICK after :
             /\ after[0] = u /\ after[Len(views)] = x
             /\ \A i \in 1 .. Len(views) : after[i] = CancelForView(after[i - 1], views[i])
  BY CancelForViewsSteps
<1> DEFINE last == Len(views)
           Done(i) == Sound(after[i], status, pairs, due)
           done == { i \in 0 .. last : Done(i) }
<1>2. last \in Nat
  OBVIOUS
<1>3. 0 \in done
  BY <1>1, <1>2
<1>4. ASSUME NEW i \in 1 .. last, Done(i - 1) PROVE Done(i)
  BY <1>1, <1>2, <1>4, CancelForViewSound
<1>5. \A i \in 1 .. last : i - 1 \in done => i \in done
  <2>1. \A i \in 1 .. last : i \in 0 .. last
    OBVIOUS
  <2> HIDE DEF Done, last
  <2> QED BY <1>4, <2>1
<1>6. last \in done
  <2> HIDE DEF done, last
  <2> QED BY <1>2, <1>3, <1>5, UpTo
<1> QED BY <1>1, <1>6

LEMMA CancelForViewsKept ==
  ASSUME PlacesOK, NEW u, NEW pairs, NEW due, Sound(u, status, pairs, due), NEW views, Len(views) \in Nat,
         NEW away, Tidy(u, away), NEW x, x = CancelForViews(u, views)
  PROVE  Tidy(x, away) /\ Keeps(u, {}, {}, x, {}, {})
<1>1. PICK after :
             /\ after[0] = u /\ after[Len(views)] = x
             /\ \A i \in 1 .. Len(views) : after[i] = CancelForView(after[i - 1], views[i])
  BY CancelForViewsSteps
<1> DEFINE last == Len(views)
           Done(i) == /\ Sound(after[i], status, pairs, due)
                      /\ Tidy(after[i], away) /\ Keeps(u, {}, {}, after[i], {}, {})
           done == { i \in 0 .. last : Done(i) }
<1>2. last \in Nat
  OBVIOUS
<1>3. 0 \in done
  <2>1. Keeps(u, {}, {}, u, {}, {})
    BY NothingKeeps
  <2> QED BY <1>1, <1>2, <2>1
<1>4. ASSUME NEW i \in 1 .. last, Done(i - 1) PROVE Done(i)
  <2> DEFINE before == after[i - 1]
             now == after[i]
  <2>1. /\ now = CancelForView(before, views[i])
        /\ Sound(before, status, pairs, due) /\ Tidy(before, away) /\ Keeps(u, {}, {}, before, {}, {})
    BY <1>1, <1>2, <1>4
  <2> HIDE DEF before, now
  <2>2. /\ Sound(now, status, pairs, due)
        /\ Tidy(now, away) /\ Keeps(before, {}, {}, now, {}, {})
    BY <2>1, CancelForViewSound, CancelForViewKept
  <2>3. Keeps(u, {}, {}, now, {}, {})
    BY <2>1, <2>2, KeepsThen
  <2> QED BY <2>2, <2>3 DEF now
<1>5. \A i \in 1 .. last : i - 1 \in done => i \in done
  <2>1. \A i \in 1 .. last : i \in 0 .. last
    OBVIOUS
  <2> HIDE DEF Done, last
  <2> QED BY <1>4, <2>1
<1>6. last \in done
  <2> HIDE DEF done, last
  <2> QED BY <1>2, <1>3, <1>5, UpTo
<1> QED BY <1>1, <1>6

LEMMA DismissAllFields ==
  ASSUME NEW u, UiOK(u), NEW w \in Windows, NEW x, x = DismissAll(u, w)
  PROVE  /\ Replaces(x, u, w, x.pending, u.refused, u.current[w], NoRequest, {})
         /\ x.pending = Forget(u.pending, PairsOf(RequestsOf(u, w)))
         /\ x.pending.sources = u.pending.sources \ PairsOf(RequestsOf(u, w))
         /\ RoutesWithout(x, u, w, KeysOf(RequestsOf(u, w)))
<1> DEFINE old == RequestsOf(u, w)
           dismissed == DismissRequests(u, w, old)
<1>1. x = [dismissed EXCEPT !.active[w] = NoRequest, !.queue[w] = {}]
  BY DEF DismissAll
<1>2. IsUi(u) /\ u.current = [u.current EXCEPT ![w] = u.current[w]]
  BY OfWindowsSame DEF UiOK
<1>3. /\ IsUi(dismissed) /\ dismissed.refused = u.refused
      /\ dismissed.current = u.current /\ dismissed.active = u.active /\ dismissed.queue = u.queue
      /\ dismissed.pending = Forget(u.pending, PairsOf(old))
      /\ dismissed.pending.sources = u.pending.sources \ PairsOf(old)
      /\ RoutesWithout(dismissed, u, w, KeysOf(old))
  <2> HIDE DEF old
  <2> QED BY <1>2, DismissFields
<1> HIDE DEF dismissed, old
<1>4. /\ IsUi(x) /\ x.pending = dismissed.pending /\ x.refused = dismissed.refused /\ x.current = dismissed.current
      /\ x.active = [dismissed.active EXCEPT ![w] = NoRequest] /\ x.queue = [dismissed.queue EXCEPT ![w] = {}]
      /\ x.routes = dismissed.routes
  BY <1>1, <1>3 DEF IsUi
<1>5. RoutesWithout(x, u, w, KeysOf(old))
  BY <1>3, <1>4 DEF RoutesWithout
<1>6. Replaces(x, u, w, x.pending, u.refused, u.current[w], NoRequest, {})
  BY <1>2, <1>3, <1>4 DEF Replaces
<1> QED BY <1>3, <1>4, <1>5, <1>6 DEF old

LEMMA DismissAllSound ==
  ASSUME NEW u, NEW pairs, NEW due, NEW w \in Windows, Sound(u, status, pairs, due),
         NEW x, x = DismissAll(u, w)
  PROVE  Sound(x, status, pairs, due) /\ x.active[w] = NoRequest /\ x.queue[w] = {}
<1>1. UiOK(u) /\ u.pending.sources \subseteq Keys \X Sources
  BY DEF Sound, UiOK
<1> DEFINE pending == x.pending
           refused == u.refused
           current == u.current[w]
<1>2. /\ Replaces(x, u, w, pending, refused, current, NoRequest, {})
      /\ pending.sources = u.pending.sources \ PairsOf(RequestsOf(u, w))
  BY <1>1, DismissAllFields
<1>3. StillAsked(u, w, pairs, pairs, pending, refused, NoRequest, {})
  <2> SUFFICES ASSUME NEW pair \in pending.sources, NEW q \in RequestsOf(u, w), About(q, pair)
               PROVE  FALSE
    BY <1>2 DEF StillAsked
  <2>1. pair \in Keys \X Sources /\ pair \notin PairsOf(RequestsOf(u, w))
    BY <1>1, <1>2
  <2> QED BY <2>1, PairsAreAbout
<1>4. WindowOK(NoRequest, {}) /\ WindowFollows(status, current, NoRequest, {}, w \in due)
  BY DEF WindowOK, WindowFollows, Numbered, Placed
<1>5. pending.sources \subseteq Keys \X Sources
  BY <1>1, <1>2
<1> HIDE DEF pending, refused, current
<1>6. Sound(x, status, pairs, due)
  BY <1>2, <1>3, <1>4, ReplacedSound
<1>7. ReplacedFields(x, u, w, pending, refused, current, NoRequest, {})
  BY <1>1, <1>2, <1>4, <1>5, ReplacedOK
<1> QED BY <1>6, <1>7 DEF ReplacedFields

(***************************************************************************)
(* A window that is closed leaves the routes to it and its requests.       *)
(***************************************************************************)
RoutesLeaving(x, u, w) ==
  /\ \A k \in DOMAIN x.routes :
       k \in DOMAIN u.routes /\ x.routes[k] = u.routes[k] /\ u.routes[k].window # w
  /\ \A k \in DOMAIN u.routes :
       u.routes[k].window # w /\ Alive(u.routes[k].anchor) => k \in DOMAIN x.routes /\ x.routes[k] = u.routes[k]

LEMMA LeaveKept ==
  ASSUME NEW u, UiOK(u), NEW w \in Windows, Tidy(u, {}), \A o \in Windows : \A v \in tabs[o] : Alive(v),
         NEW free, SameRequests(free, u), free.pending = u.pending, RoutesLeaving(free, u, w),
         NEW closed, closed = DismissAll(free, w),
         NEW x, x = [closed EXCEPT !.current[w] = NoView]
  PROVE  Tidy(x, {}) /\ Keeps(u, {}, {}, x, {}, {}) /\ RequestsOf(x, w) = {}
<1> DEFINE old == RequestsOf(u, w)
           gone == PairsOf(old)
           pending == x.pending
           refused == u.refused
           none == {}
<1>1. UiOK(free) /\ \A o \in Windows : RequestsOf(free, o) = RequestsOf(u, o)
  BY DEF UiOK, SameRequests, RequestsOf
<1>2. /\ Replaces(closed, free, w, closed.pending, free.refused, free.current[w], NoRequest, {})
      /\ closed.pending = Forget(free.pending, gone) /\ closed.pending.sources = free.pending.sources \ gone
      /\ RoutesWithout(closed, free, w, KeysOf(old))
  BY <1>1, DismissAllFields
<1>3. Replaces(x, u, w, pending, refused, NoView, NoRequest, {}) /\ pending = closed.pending /\ x.routes = closed.routes
  <2>1. /\ IsUi(closed) /\ closed.refused = free.refused
        /\ closed.current = [free.current EXCEPT ![w] = free.current[w]]
        /\ closed.active = [free.active EXCEPT ![w] = NoRequest] /\ closed.queue = [free.queue EXCEPT ![w] = {}]
    BY <1>2 DEF Replaces
  <2>2. closed.current = u.current
    BY <1>1, <2>1, OfWindowsSame DEF SameRequests, UiOK
  <2> HIDE DEF refused
  <2>3. /\ IsUi(x) /\ x.pending = closed.pending /\ x.refused = closed.refused /\ x.routes = closed.routes
        /\ x.current = [closed.current EXCEPT ![w] = NoView] /\ x.active = closed.active /\ x.queue = closed.queue
    BY <2>1 DEF IsUi
  <2> QED BY <2>1, <2>2, <2>3 DEF Replaces, SameRequests, refused
<1>4. pending = Forget(u.pending, gone) /\ pending.sources = u.pending.sources \ gone
  BY <1>2, <1>3
<1> HIDE DEF pending, refused, gone
<1>5. ReplacedFields(x, u, w, pending, refused, NoView, NoRequest, {})
  <2>1. pending.sources \subseteq Keys \X Sources
    BY <1>4 DEF UiOK
  <2>2. WindowOK(NoRequest, {})
    BY DEF WindowOK, Numbered, Placed
  <2> QED BY <1>3, <2>1, <2>2, ReplacedOK
<1>6. RequestsOf(x, w) = {} /\ \A o \in Windows \ {w} : RequestsOf(x, o) = RequestsOf(u, o)
  BY <1>5, ReplacedRequests, SMTT(30) DEF Now
<1>7. \A k \in DOMAIN x.routes : k \in DOMAIN u.routes /\ x.routes[k] = u.routes[k] /\ u.routes[k].window # w
  BY <1>2, <1>3 DEF RoutesWithout, RoutesLeaving
<1>8. Tidy(x, {})
  <2>1. TrackerOK(x.pending)
    BY <1>4, ForgetOK DEF Tidy, pending
  <2>2. \A o \in Windows : Tidied(RequestsOf(x, o)) /\ (o \notin Registered => RequestsOf(x, o) = {})
    <3>1. Tidied({})
      BY DEF Tidied, KeysDiffer
    <3> QED BY <1>6, <3>1 DEF Tidy
  <2>3. RoutesOK(x, {})
    BY <1>6, <1>7 DEF Tidy, RoutesOK, Has
  <2> QED BY <2>1, <2>2, <2>3 DEF Tidy
<1>9. Flows(u, none, x, none, gone, none)
  <2>1. refused = u.refused \union none
    BY DEF refused
  <2>2. PairsOf(Now(NoRequest, {})) = none
    BY DEF Now, PairsOf
  <2>3. /\ gone \union none \subseteq PairsOf(RequestsOf(u, w)) \union none
        /\ (PairsOf(RequestsOf(u, w)) \union none) \ (gone \union none) \subseteq PairsOf(Now(NoRequest, {})) \union none
        /\ PairsOf(Now(NoRequest, {})) \union none \subseteq PairsOf(RequestsOf(u, w)) \union none
        /\ \A pair \in none : FullIn(PairsOf(RequestsOf(u, w)) \union none, pair)
    BY <2>2 DEF gone
  <2> HIDE DEF none, old
  <2> QED BY <1>4, <1>5, <2>1, <2>3, ReplacedFlows
<1>10. ASSUME NEW key, Led(u, key, {}) PROVE Led(x, key, {})
  <2> SUFFICES ASSUME NEW o \in Windows \ {w}, NEW r \in RequestsOf(u, o), r.key = key
               PROVE  /\ r.anchor \in tabs[o]
                      /\ key \in DOMAIN x.routes /\ x.routes[key] = [window |-> o, anchor |-> r.anchor]
    BY <1>6 DEF Led
  <2>1. /\ r.anchor \in tabs[o]
        /\ key \in DOMAIN u.routes /\ u.routes[key] = [window |-> o, anchor |-> r.anchor]
    BY <1>10 DEF Led
  <2>2. key \in DOMAIN free.routes /\ free.routes[key] = u.routes[key] /\ free.routes[key].window # w
    BY <2>1 DEF RoutesLeaving
  <2>3. key \in DOMAIN x.routes /\ x.routes[key] = u.routes[key]
    BY <1>2, <1>3, <2>2 DEF RoutesWithout
  <2> QED BY <2>1, <2>3
<1> QED BY <1>6, <1>8, <1>9, <1>10 DEF Keeps, Flow

----------------------------------------------------------------------------
(***************************************************************************)
(* The invariant: between two handlers everything is sound, with the pairs *)
(* whose notifications are on their way in hand.                           *)
(***************************************************************************)
InFlight == { pair \in Keys \X Sources : \E attempt \in 0 .. MaxRetries : inflight[pair[1]][pair[2]][attempt] > 0 }

Counters == [Keys -> [Sources -> [0 .. MaxRetries -> Nat]]]

StateOK ==
  /\ PlacesOK /\ \A w \in Windows : IsFiniteSet(tabs[w])
  /\ inflight \in Counters
  /\ status = [v \in Views |-> status[v]]

RoutingInv == StateOK /\ Sound(ui, status, InFlight, {})

\* What is gone stays so.
GoneStays == \A v \in Views : status[v] = "gone" => status'[v] = "gone"

LEMMA StatusChanges ==
  ASSUME StateOK, NEW v \in Views, NEW s, status' = [status EXCEPT ![v] = s], status[v] # "gone" \/ s = "gone"
  PROVE  GoneStays /\ status' = [x \in Views |-> status'[x]] /\ status'[v] = s
<1>1. status = [x \in Views |-> status[x]]
  BY DEF StateOK
<1> QED BY <1>1 DEF GoneStays

\* A handler that leaves the notifications alone, at whose end some views may be gone.
LEMMA HandlerKeeps ==
  ASSUME GoneStays, InFlight' = InFlight, Sound(ui', status, InFlight, {})
  PROVE  Sound(ui', status', InFlight', {})
<1>1. IsUi(ui') /\ ui'.pending.sources \subseteq Keys \X Sources
  BY DEF Sound, UiOK
<1>2. SameRequests(ui', ui')
  BY <1>1 DEF SameRequests
<1>3. \A v \in Views : status[v] = "gone" => status'[v] = "gone"
  BY DEF GoneStays
<1> DEFINE x == ui'
           later == status'
           more == InFlight'
<1>4. \A pair \in x.pending.sources : pair \in more \/ (pair \in x.pending.sources /\ pair \notin InFlight)
  OBVIOUS
<1>5. /\ Sound(x, status, InFlight, {}) /\ SameRequests(x, x) /\ x.pending.sources \subseteq Keys \X Sources
      /\ \A v \in Views : status[v] = "gone" => later[v] = "gone"
  BY <1>1, <1>2, <1>3
<1> HIDE DEF x, later, more
<1>6. Sound(x, later, more, {})
  BY <1>4, <1>5, SoundKept
<1> QED BY <1>6 DEF x, later, more

LEMMA InvInit ==
  ASSUME Init
  PROVE  RoutingInv
<1>1. MainWin \in Windows /\ FirstView \in Views /\ MaxRetries \in Nat
  BY RoutingAssumption DEF Windows
<1>2. windows \in Seq(Windows)
  BY <1>1 DEF Init
<1>3. tabs \in [Windows -> SUBSET Views] /\ \A w \in Windows : tabs[w] = {FirstView} \/ tabs[w] = {}
  BY <1>1 DEF Init
<1>4. \A w \in Windows : IsFiniteSet(tabs[w])
  <2>1. IsFiniteSet({}) /\ IsFiniteSet({FirstView})
    BY FS_EmptySet, FS_Singleton
  <2> QED BY <1>3, <2>1
<1>5. StateOK
  BY <1>1, <1>2, <1>3, <1>4 DEF Init, StateOK, PlacesOK, Counters
<1> DEFINE current == [UiInit.current EXCEPT ![MainWin] = FirstView]
<1>6. /\ IsUi(ui) /\ ui.pending = EmptyTracker /\ ui.current = current
      /\ ui.active = [w \in Windows |-> NoRequest] /\ ui.queue = [w \in Windows |-> {}]
  BY DEF Init, UiInit, IsUi
<1>7. OfWindows(ui.current) /\ OfWindows(ui.active) /\ OfWindows(ui.queue)
  BY <1>6 DEF OfWindows, UiInit
<1>8. UiOK(ui)
  BY <1>6, <1>7 DEF UiOK, EmptyTracker, Numbered, Placed
<1>9. /\ \A w \in Windows : Follows(ui, w) /\ Asked(ui, status, w)
      /\ Covered(ui, InFlight)
  BY <1>6 DEF Follows, Asked, Covered, EmptyTracker
<1> QED BY <1>5, <1>8, <1>9 DEF RoutingInv, Sound

(***************************************************************************)
(* What is blocked is on its way.                                          *)
(***************************************************************************)
LEMMA BlockKeeps ==
  ASSUME RoutingInv, NEW key \in Keys, NEW source \in Sources, BlockRequest(key, source)
  PROVE  RoutingInv'
<1>1. StateOK /\ Sound(ui, status, InFlight, {}) /\ IsUi(ui) /\ ui.pending.sources \subseteq Keys \X Sources
  BY DEF RoutingInv, Sound, UiOK
<1>2. 0 \in 0 .. MaxRetries
  BY RoutingAssumption
<1> DEFINE n == inflight[key][source][0] + 1
           g == inflight'
<1>3. inflight \in Counters /\ n \in Nat /\ n > 0 /\ g = [inflight EXCEPT ![key][source][0] = n]
  <2>1. inflight \in Counters
    BY <1>1 DEF StateOK
  <2>2. inflight[key][source][0] \in Nat
    BY <1>2, <2>1 DEF Counters
  <2>3. g = [inflight EXCEPT ![key][source][0] = n]
    BY DEF BlockRequest
  <2> QED BY <2>1, <2>2, <2>3
<1> HIDE DEF n, g
<1>4. /\ g \in Counters /\ g[key][source][0] = n
      /\ \A k \in Keys, s \in Sources : k # key \/ s # source => g[k][s] = inflight[k][s]
  BY <1>2, <1>3 DEF Counters
<1>5. <<key, source>> \in InFlight'
  BY <1>2, <1>3, <1>4 DEF InFlight, g
<1>6. InFlight \subseteq InFlight'
  BY <1>4, <1>5 DEF InFlight, g
<1>7. StateOK'
  BY <1>1, <1>4 DEF BlockRequest, StateOK, PlacesOK, g
<1>8. SameRequests(ui', ui) /\ ui'.pending.sources = ui.pending.sources \union {<<key, source>>}
  <2> DEFINE pending == Record(ui.pending, key, source)
  <2>1. pending.sources = ui.pending.sources \union {<<key, source>>}
    BY DEF Record
  <2>2. ui' = [ui EXCEPT !.pending = pending]
    BY DEF BlockRequest
  <2> HIDE DEF pending
  <2> QED BY <1>1, <2>1, <2>2 DEF IsUi, SameRequests
<1>9. Sound(ui', status', InFlight', {})
  <2> DEFINE x == ui'
             later == status'
             more == InFlight'
  <2>1. SameRequests(x, ui) /\ x.pending.sources \subseteq Keys \X Sources
    BY <1>1, <1>8
  <2>2. \A v \in Views : status[v] = "gone" => later[v] = "gone"
    BY DEF BlockRequest
  <2>3. \A pair \in x.pending.sources : pair \in more \/ (pair \in ui.pending.sources /\ pair \notin InFlight)
    BY <1>5, <1>6, <1>8
  <2> HIDE DEF x, later, more
  <2>4. Sound(x, later, more, {})
    BY <1>1, <2>1, <2>2, <2>3, SoundKept
  <2> QED BY <2>4 DEF x, later, more
<1> QED BY <1>7, <1>9 DEF RoutingInv

(***************************************************************************)
(* A notification is routed: its candidates are tabs of windows.           *)
(***************************************************************************)
LEMMA OpenTabsAreFinite ==
  ASSUME StateOK
  PROVE  IsFiniteSet(UNION { tabs[w] : w \in Registered }) /\ Registered \subseteq Windows
<1> DEFINE S == { tabs[w] : w \in Registered }
           f == [i \in 1 .. Len(windows) |-> tabs[windows[i]]]
<1>1. windows \in Seq(Windows) /\ Len(windows) \in Nat /\ Registered = { windows[i] : i \in 1 .. Len(windows) }
  <2>1. windows \in Seq(Windows)
    BY DEF StateOK, PlacesOK
  <2>2. Len(windows) \in Nat /\ DOMAIN windows = 1 .. Len(windows)
    BY <2>1
  <2> QED BY <2>1, <2>2 DEF Registered, Range
<1>2. f \in Surjection(1 .. Len(windows), S)
  BY <1>1 DEF Surjection
<1>3. IsFiniteSet(1 .. Len(windows))
  BY <1>1, FS_Interval
<1>4. IsFiniteSet(S)
  <2> HIDE DEF f, S
  <2> QED BY <1>2, <1>3, FS_Surjection
<1>5. Registered \subseteq Windows
  BY <1>1
<1>6. \A T \in S : IsFiniteSet(T)
  BY <1>5 DEF StateOK
<1>7. IsFiniteSet(UNION S)
  <2> HIDE DEF S
  <2> QED BY <1>4, <1>6, FS_UNION
<1> QED BY <1>5, <1>7

LEMMA OrdersAreOfTabs ==
  ASSUME StateOK, NEW source, NEW order \in CandidateOrders(source), order # << >>
  PROVE  /\ WindowOf(order[1]) \in Registered /\ Registered \subseteq Windows
         /\ order[1] \in Views /\ order[1] \in tabs[WindowOf(order[1])]
<1> DEFINE matching == { v \in UNION { tabs[w] : w \in Registered } : url[v] \in Matching[source] }
           n == Cardinality(Candidates(source))
<1>1. IsFiniteSet(UNION { tabs[w] : w \in Registered }) /\ Registered \subseteq Windows
  BY OpenTabsAreFinite
<1>2. Candidates(source) \in SUBSET UNION { tabs[w] : w \in Registered }
  BY DEF Candidates
<1>3. n \in Nat
  BY <1>1, <1>2, FS_Subset, FS_CardinalityType
<1>4. order \in [1 .. n -> Candidates(source)]
  <2>1. order \in Seqs!SetToSeqs(Candidates(source))
    BY DEF CandidateOrders
  <2> QED BY <2>1 DEF Seqs!SetToSeqs, Seqs!Cardinality, Cardinality
<1> HIDE DEF n
<1>5. n # 0
  <2>1. ASSUME n = 0 PROVE order = << >>
    <3>1. 1 .. n = {}
      BY <2>1
    <3>2. order \in [{} -> Candidates(source)]
      BY <1>4, <3>1
    <3> QED BY <3>2
  <2> QED BY <2>1
<1>6. order[1] \in UNION { tabs[w] : w \in Registered }
  BY <1>2, <1>3, <1>4, <1>5
<1>7. PICK w \in Registered : order[1] \in tabs[w]
  BY <1>6
<1>8. WindowOf(order[1]) \in Registered /\ order[1] \in tabs[WindowOf(order[1])]
  BY <1>7 DEF WindowOf
<1>9. order[1] \in Views
  BY <1>1, <1>7 DEF StateOK, PlacesOK
<1> QED BY <1>1, <1>8, <1>9

Counts(g, f, key, source, attempt, n) == g = [f EXCEPT ![key][source][attempt] = n]

LEMMA CounterChanges ==
  ASSUME NEW f \in Counters, NEW key \in Keys, NEW source \in Sources, NEW attempt \in 0 .. MaxRetries,
         NEW n \in Nat, NEW g, Counts(g, f, key, source, attempt, n)
  PROVE  /\ g \in Counters /\ g[key][source][attempt] = n
         /\ \A k \in Keys, s \in Sources : k # key \/ s # source => g[k][s] = f[k][s]
<1>1. g \in Counters
  BY DEF Counters, Counts
<1>2. g[key][source][attempt] = n
  BY DEF Counters, Counts
<1>3. \A k \in Keys, s \in Sources : k # key \/ s # source => g[k][s] = f[k][s]
  BY DEF Counters, Counts
<1> QED BY <1>1, <1>2, <1>3

LEMMA RouteCounters ==
  ASSUME StateOK, NEW key \in Keys, NEW source \in Sources, NEW attempt \in 0 .. MaxRetries,
         NEW n \in Nat, NEW taken, Counts(taken, inflight, key, source, attempt, n),
         \/ inflight' = taken
         \/ attempt < MaxRetries /\ inflight' = Retried(taken, key, source, attempt)
  PROVE  /\ inflight' \in Counters
         /\ \A pair \in InFlight : pair # <<key, source>> => pair \in InFlight'
         /\ attempt < MaxRetries /\ inflight' = Retried(taken, key, source, attempt) => <<key, source>> \in InFlight'
<1> DEFINE m == taken[key][source][attempt + 1] + 1
           again == Retried(taken, key, source, attempt)
           g == inflight'
<1>1. MaxRetries \in Nat
  BY RoutingAssumption
<1>2. inflight \in Counters
  BY DEF StateOK
<1>4. taken \in Counters /\ \A k \in Keys, s \in Sources : k # key \/ s # source => taken[k][s] = inflight[k][s]
  BY <1>2, CounterChanges
<1>5. ASSUME attempt < MaxRetries
      PROVE  /\ again \in Counters
             /\ \A k \in Keys, s \in Sources : k # key \/ s # source => again[k][s] = taken[k][s]
             /\ attempt + 1 \in 0 .. MaxRetries /\ again[key][source][attempt + 1] > 0
  <2>1. attempt + 1 \in 0 .. MaxRetries
    BY <1>1, <1>5
  <2>2. m \in Nat /\ m > 0
    <3>1. taken[key][source][attempt + 1] \in Nat
      BY <1>4, <2>1 DEF Counters
    <3> QED BY <3>1
  <2> DEFINE next == attempt + 1
  <2>3. Counts(again, taken, key, source, next, m)
    BY DEF Retried, Counts
  <2> HIDE DEF m, again, next
  <2>4. next \in 0 .. MaxRetries
    BY <2>1 DEF next
  <2>5. /\ again \in Counters /\ again[key][source][next] = m
        /\ \A k \in Keys, s \in Sources : k # key \/ s # source => again[k][s] = taken[k][s]
    BY <1>4, <2>2, <2>3, <2>4, CounterChanges
  <2> QED BY <2>1, <2>2, <2>5 DEF next
<1> HIDE DEF m, again
<1>6. g \in Counters /\ \A k \in Keys, s \in Sources : k # key \/ s # source => g[k][s] = inflight[k][s]
  <2>1. CASE g = taken
    BY <1>4, <2>1
  <2>2. CASE attempt < MaxRetries /\ g = again
    <3> HIDE DEF g
    <3> QED BY <1>4, <1>5, <2>2
  <2> QED BY <2>1, <2>2 DEF again
<1>7. ASSUME NEW pair \in InFlight, pair # <<key, source>> PROVE pair \in InFlight'
  <2>1. pair \in Keys \X Sources /\ pair = <<pair[1], pair[2]>>
    BY DEF InFlight
  <2>2. g[pair[1]][pair[2]] = inflight[pair[1]][pair[2]]
    BY <1>6, <1>7, <2>1
  <2> QED BY <2>1, <2>2 DEF InFlight
<1>8. ASSUME attempt < MaxRetries, inflight' = Retried(taken, key, source, attempt)
      PROVE  <<key, source>> \in InFlight'
  <2>1. attempt + 1 \in 0 .. MaxRetries /\ g[key][source][attempt + 1] > 0
    BY <1>5, <1>8 DEF again
  <2> QED BY <2>1 DEF InFlight
<1> QED BY <1>6, <1>7, <1>8

LEMMA RouteKeeps ==
  ASSUME RoutingInv, NEW key \in Keys, NEW source \in Sources, NEW attempt \in 0 .. MaxRetries,
         Route(key, source, attempt)
  PROVE  RoutingInv'
<1> DEFINE taken == [inflight EXCEPT ![key][source][attempt] = @ - 1]
           n == inflight[key][source][attempt] - 1
           pair == <<key, source>>
           known == IsPending(ui.pending, key, source)
           orphan == known /\ AsksNow(key) /\ Candidates(source) = {}
           bare == WithoutDeadRoute(key)
           flying == InFlight'
<1>1. StateOK /\ Sound(ui, status, InFlight, {}) /\ IsUi(ui) /\ ui.pending.sources \subseteq Keys \X Sources
  BY DEF RoutingInv, Sound, UiOK
<1>2. n \in Nat /\ inflight[key][source][attempt] > 0
  <2>1. inflight[key][source][attempt] > 0
    BY DEF Route
  <2>2. inflight[key][source][attempt] \in Nat
    <3>1. inflight \in Counters
      BY <1>1 DEF StateOK
    <3> QED BY <3>1 DEF Counters
  <2> QED BY <2>1, <2>2
<1>3. Counts(taken, inflight, key, source, attempt, n)
  BY DEF Counts
<1>4. \/ ~ (known /\ AsksNow(key)) /\ inflight' = taken
         /\ ui' = [ui EXCEPT !.pending = IF known THEN RemoveKey(@, key) ELSE @]
      \/ inflight' = taken /\ \E order \in CandidateOrders(source) : order # << >> /\ ui' = RouteTo(key, source, order)
      \/ orphan /\ attempt < MaxRetries /\ ui' = bare /\ inflight' = Retried(taken, key, source, attempt)
      \/ inflight' = taken /\ ui' = [bare EXCEPT !.pending = RemoveSource(@, key, source)]
  BY DEF Route
<1>5. UNCHANGED <<tabs, windows, status>>
  BY DEF Route
<1>6. /\ inflight' \in Counters
      /\ \A p \in InFlight : p # pair => p \in flying
      /\ attempt < MaxRetries /\ inflight' = Retried(taken, key, source, attempt) => pair \in flying
  <2>1. inflight' = taken \/ (attempt < MaxRetries /\ inflight' = Retried(taken, key, source, attempt))
    BY <1>4
  <2> HIDE DEF taken, n
  <2> QED BY <1>1, <1>2, <1>3, <2>1, RouteCounters
<1> HIDE DEF taken, n, flying
<1>7. StateOK'
  BY <1>1, <1>5, <1>6 DEF StateOK, PlacesOK
<1>8. SameRequests(ui, ui) /\ SameRequests(bare, ui) /\ bare.pending = ui.pending
  <2>1. SameRequests(ui, ui)
    BY <1>1 DEF SameRequests
  <2> DEFINE routes == Restrict(ui.routes, DOMAIN ui.routes \ {key})
  <2>2. bare = ui \/ bare = [ui EXCEPT !.routes = routes]
    BY DEF WithoutDeadRoute
  <2> HIDE DEF bare, routes
  <2> QED BY <1>1, <2>1, <2>2 DEF SameRequests, IsUi
<1>9. ASSUME NEW x, SameRequests(x, ui), x.pending.sources \subseteq ui.pending.sources,
             pair \notin x.pending.sources \/ pair \in flying
      PROVE  Sound(x, status, flying, {})
  <2>1. \A p \in x.pending.sources : p \in flying \/ (p \in ui.pending.sources /\ p \notin InFlight)
    BY <1>6, <1>9
  <2>2. x.pending.sources \subseteq Keys \X Sources
    BY <1>1, <1>9
  <2> HIDE DEF pair
  <2> QED BY <1>1, <1>9, <2>1, <2>2, SoundKept
<1>10. CASE ~ (known /\ AsksNow(key)) /\ ui' = [ui EXCEPT !.pending = IF known THEN RemoveKey(@, key) ELSE @]
  <2> DEFINE pending == IF known THEN RemoveKey(ui.pending, key) ELSE ui.pending
             x == ui'
  <2>1. pending.sources \subseteq ui.pending.sources /\ pair \notin pending.sources
    BY <1>1 DEF RemoveKey, SourcesOf, IsPending
  <2>2. x = [ui EXCEPT !.pending = pending]
    BY <1>10
  <2> HIDE DEF pending, x
  <2>3. SameRequests(x, ui) /\ x.pending = pending
    BY <1>1, <2>2 DEF SameRequests, IsUi
  <2>4. Sound(x, status, flying, {})
    BY <1>9, <2>1, <2>3
  <2> QED BY <1>5, <1>7, <2>4 DEF x, flying, RoutingInv
<1>11. CASE \E order \in CandidateOrders(source) : order # << >> /\ ui' = RouteTo(key, source, order)
  <2>1. PICK order \in CandidateOrders(source) : order # << >> /\ ui' = RouteTo(key, source, order)
    BY <1>11
  <2> DEFINE affected == [i \in DOMAIN order |-> [view |-> order[i], url |-> url[order[i]]]]
             target == IF RouteIsLive(key) THEN ui.routes[key]
                       ELSE [window |-> WindowOf(order[1]), anchor |-> order[1]]
             routes == [k \in DOMAIN ui.routes \union {key} |-> IF k = key THEN target ELSE ui.routes[k]]
             routed == [ui EXCEPT !.routes = routes]
             x == ui'
  <2>2. x = Request(routed, target.window, target.anchor, affected, {source}, key)
    BY <2>1 DEF RouteTo
  <2>3. target.window \in Windows /\ target.anchor \in Views
    <3>1. Registered \subseteq Windows /\ tabs \in [Windows -> SUBSET Views]
      BY <1>1, OpenTabsAreFinite DEF StateOK, PlacesOK
    <3>2. CASE RouteIsLive(key)
      BY <3>1, <3>2 DEF RouteIsLive
    <3>3. CASE ~ RouteIsLive(key)
      BY <1>1, <2>1, <3>3, OrdersAreOfTabs
    <3> QED BY <3>2, <3>3
  <2>4. SameRequests(routed, ui) /\ routed.pending = ui.pending
    <3> HIDE DEF routes
    <3> QED BY <1>1 DEF SameRequests, IsUi
  <2> HIDE DEF affected, target, routes, routed, x
  <2>5. Sound(routed, status, flying \union Given(key, {source}), {})
    <3> DEFINE more == flying \union Given(key, {source})
    <3>1. \A p \in routed.pending.sources : p \in more \/ (p \in ui.pending.sources /\ p \notin InFlight)
      BY <1>6, <2>4 DEF Given
    <3>2. routed.pending.sources \subseteq Keys \X Sources
      BY <1>1, <2>4
    <3> HIDE DEF more
    <3>3. Sound(routed, status, more, {})
      BY <1>1, <2>4, <3>1, <3>2, SoundKept
    <3> QED BY <3>3 DEF more
  <2>6. Sound(x, status, flying, {})
    BY <2>2, <2>3, <2>5, RequestSound
  <2> QED BY <1>5, <1>7, <2>6 DEF x, flying, RoutingInv
<1>12. CASE orphan /\ attempt < MaxRetries /\ ui' = bare /\ inflight' = Retried(taken, key, source, attempt)
  <2>1. pair \in flying
    BY <1>6, <1>12
  <2>2. Sound(bare, status, flying, {})
    BY <1>8, <1>9, <2>1
  <2> QED BY <1>5, <1>7, <1>12, <2>2 DEF flying, RoutingInv
<1>13. CASE ui' = [bare EXCEPT !.pending = RemoveSource(@, key, source)]
  <2> DEFINE pending == RemoveSource(bare.pending, key, source)
             x == ui'
  <2>1. pending.sources \subseteq ui.pending.sources /\ pair \notin pending.sources
    BY <1>8 DEF RemoveSource, IsPending
  <2>2. x = [bare EXCEPT !.pending = pending]
    BY <1>13
  <2> HIDE DEF pending, x, bare
  <2>3. SameRequests(x, ui) /\ x.pending = pending
    BY <1>8, <2>2 DEF SameRequests, IsUi
  <2>4. Sound(x, status, flying, {})
    BY <1>9, <2>1, <2>3
  <2> QED BY <1>5, <1>7, <2>4 DEF x, flying, RoutingInv
<1> QED BY <1>4, <1>10, <1>11, <1>12, <1>13

----------------------------------------------------------------------------
(***************************************************************************)
(* Tabs and windows.                                                       *)
(***************************************************************************)
LEMMA InvParts ==
  ASSUME RoutingInv
  PROVE  /\ StateOK /\ PlacesOK /\ Sound(ui, status, InFlight, {})
         /\ windows \in Seq(Windows) /\ tabs \in [Windows -> SUBSET Views]
         /\ \A w \in Windows : IsFiniteSet(tabs[w])
         /\ inflight \in Counters /\ status = [x \in Views |-> status[x]]
         /\ Registered \subseteq Windows
BY OpenTabsAreFinite DEF RoutingInv, StateOK, PlacesOK

\* One tab more in a window, or one less.
LEMMA TabsChange ==
  ASSUME tabs \in [Windows -> SUBSET Views], \A o \in Windows : IsFiniteSet(tabs[o]),
         NEW w \in Windows, NEW T \in SUBSET Views, IsFiniteSet(T), tabs' = [tabs EXCEPT ![w] = T]
  PROVE  tabs' \in [Windows -> SUBSET Views] /\ \A o \in Windows : IsFiniteSet(tabs'[o])
OBVIOUS

LEMMA MoveKeeps ==
  ASSUME RoutingInv, inflight' = inflight, GoneStays, status' = [x \in Views |-> status'[x]],
         windows' \in Seq(Windows), tabs' \in [Windows -> SUBSET Views], \A w \in Windows : IsFiniteSet(tabs'[w]),
         Sound(ui', status, InFlight, {})
  PROVE  RoutingInv'
<1>1. InFlight' = InFlight
  BY DEF InFlight
<1>2. Sound(ui', status', InFlight', {})
  BY <1>1, HandlerKeeps
<1>3. inflight' \in Counters
  BY InvParts
<1> QED BY <1>2, <1>3 DEF RoutingInv, StateOK, PlacesOK

LEMMA OpenWindowKeeps ==
  ASSUME RoutingInv, NEW w \in Windows, NEW v \in Views, OpenWindow(w, v)
  PROVE  RoutingInv'
<1>1. /\ inflight' = inflight /\ status[v] = "unborn" /\ status' = [status EXCEPT ![v] = "open"]
      /\ windows' = Append(windows, w) /\ tabs' = [tabs EXCEPT ![w] = {v}]
      /\ ui' = CurrentViewChanged(ui, w, v)
  BY DEF OpenWindow, Unmoved
<1>2. GoneStays /\ status' = [x \in Views |-> status'[x]]
  BY <1>1, InvParts, StatusChanges
<1>3. tabs' \in [Windows -> SUBSET Views] /\ \A o \in Windows : IsFiniteSet(tabs'[o])
  <2>1. IsFiniteSet({v})
    BY FS_Singleton
  <2> QED BY <1>1, <2>1, InvParts, TabsChange
<1>4. windows' \in Seq(Windows)
  BY <1>1, InvParts
<1>5. Sound(ui', status, InFlight, {})
  BY <1>1, InvParts, CurrentViewChangedSound
<1> QED BY <1>1, <1>2, <1>3, <1>4, <1>5, MoveKeeps

LEMMA OpenTabKeeps ==
  ASSUME RoutingInv, NEW w \in Windows, NEW v \in Views, OpenTab(w, v)
  PROVE  RoutingInv'
<1>1. /\ inflight' = inflight /\ status[v] = "unborn" /\ status' = [status EXCEPT ![v] = "open"]
      /\ windows' = windows /\ tabs' = [tabs EXCEPT ![w] = tabs[w] \union {v}]
      /\ ui' = ui \/ ui' = CurrentViewChanged(ui, w, v)
  BY DEF OpenTab, Unmoved
<1>2. GoneStays /\ status' = [x \in Views |-> status'[x]]
  BY <1>1, InvParts, StatusChanges
<1>3. tabs' \in [Windows -> SUBSET Views] /\ \A o \in Windows : IsFiniteSet(tabs'[o])
  <2> DEFINE T == tabs[w] \union {v}
  <2>1. IsFiniteSet(T) /\ T \in SUBSET Views
    BY InvParts, FS_AddElement
  <2> QED BY <1>1, <2>1, InvParts, TabsChange
<1>4. windows' \in Seq(Windows)
  BY <1>1, InvParts
<1>5. Sound(ui', status, InFlight, {})
  <2>1. CASE ui' = ui
    BY <2>1, InvParts
  <2>2. CASE ui' = CurrentViewChanged(ui, w, v)
    BY <2>2, InvParts, CurrentViewChangedSound
  <2> QED BY <1>1, <2>1, <2>2
<1> QED BY <1>1, <1>2, <1>3, <1>4, <1>5, MoveKeeps

LEMMA SwitchTabKeeps ==
  ASSUME RoutingInv, NEW w \in Windows, NEW v \in Views, SwitchTab(w, v)
  PROVE  RoutingInv'
<1>1. /\ inflight' = inflight /\ status' = status /\ windows' = windows /\ tabs' = tabs
      /\ ui' = CurrentViewChanged(ui, w, v)
  BY DEF SwitchTab, Unmoved
<1>2. GoneStays /\ status' = [x \in Views |-> status'[x]]
  BY <1>1, InvParts DEF GoneStays
<1>3. Sound(ui', status, InFlight, {})
  BY <1>1, InvParts, CurrentViewChangedSound
<1> QED BY <1>1, <1>2, <1>3, InvParts, MoveKeeps

LEMMA LoadStartedKeeps ==
  ASSUME RoutingInv, NEW v \in Views, LoadStarted(v)
  PROVE  RoutingInv'
<1>1. /\ inflight' = inflight /\ status[v] # "gone" /\ status' = [status EXCEPT ![v] = "loading"]
      /\ windows' = windows /\ tabs' = tabs /\ ui' = CancelForView(ui, v)
  BY DEF LoadStarted, Unmoved, Showing
<1>2. GoneStays /\ status' = [x \in Views |-> status'[x]]
  BY <1>1, InvParts, StatusChanges
<1>3. Sound(ui', status, InFlight, {})
  BY <1>1, InvParts, CancelForViewSound
<1> QED BY <1>1, <1>2, <1>3, InvParts, MoveKeeps

LEMMA CommitKeeps ==
  ASSUME RoutingInv, NEW v \in Views, NEW page \in Urls, Commit(v, page)
  PROVE  RoutingInv'
<1>1. /\ inflight' = inflight /\ status[v] # "gone" /\ status' = [status EXCEPT ![v] = "open"]
      /\ windows' = windows /\ tabs' = tabs /\ ui' = ui
  BY DEF Commit, Unmoved
<1>2. GoneStays /\ status' = [x \in Views |-> status'[x]]
  BY <1>1, InvParts, StatusChanges
<1>3. Sound(ui', status, InFlight, {})
  BY <1>1, InvParts
<1> QED BY <1>1, <1>2, <1>3, InvParts, MoveKeeps

LEMMA DeleteViewKeeps ==
  ASSUME RoutingInv, NEW v \in Views, DeleteView(v)
  PROVE  RoutingInv'
<1>1. /\ inflight' = inflight /\ status' = [status EXCEPT ![v] = "gone"]
      /\ windows' = windows /\ tabs' = tabs /\ ui' = ui
  BY DEF DeleteView, Unmoved
<1>2. GoneStays /\ status' = [x \in Views |-> status'[x]]
  BY <1>1, InvParts, StatusChanges
<1>3. Sound(ui', status, InFlight, {})
  BY <1>1, InvParts
<1> QED BY <1>1, <1>2, <1>3, InvParts, MoveKeeps

LEMMA CloseTabKeeps ==
  ASSUME RoutingInv, NEW w \in Windows, NEW v \in Views, CloseTab(w, v)
  PROVE  RoutingInv'
<1> DEFINE cancelled == CancelForView(ui, v)
<1>1. /\ inflight' = inflight /\ status[v] # "gone" /\ status' = [status EXCEPT ![v] = "closing"]
      /\ windows' = windows /\ tabs' = tabs
      /\ ui' = cancelled \/ \E x \in Others(w, v) : ui' = CurrentViewChanged(cancelled, w, x)
  BY DEF CloseTab, Unmoved, Showing
<1>2. GoneStays /\ status' = [x \in Views |-> status'[x]]
  BY <1>1, InvParts, StatusChanges
<1>3. Sound(cancelled, status, InFlight, {})
  BY InvParts, CancelForViewSound
<1> HIDE DEF cancelled
<1>4. Sound(ui', status, InFlight, {})
  <2>1. CASE ui' = cancelled
    BY <1>3, <2>1
  <2>2. CASE \E x \in Others(w, v) : ui' = CurrentViewChanged(cancelled, w, x)
    <3>1. PICK x \in Others(w, v) : ui' = CurrentViewChanged(cancelled, w, x)
      BY <2>2
    <3>2. x \in Views
      BY InvParts DEF Others
    <3> QED BY <1>3, <3>1, <3>2, CurrentViewChangedSound
  <2> QED BY <1>1, <2>1, <2>2
<1> QED BY <1>1, <1>2, <1>4, InvParts, MoveKeeps

LEMMA FinishClosingTabKeeps ==
  ASSUME RoutingInv, NEW w \in Windows, NEW v \in Views, FinishClosingTab(w, v)
  PROVE  RoutingInv'
<1>1. /\ inflight' = inflight /\ status[v] = "closing" /\ status' = [status EXCEPT ![v] = "removed"]
      /\ windows' = windows /\ tabs' = [tabs EXCEPT ![w] = tabs[w] \ {v}]
      /\ \/ ui' = ui
         \/ /\ ui.current[w] = v
            /\ \E x \in {NoView} \union tabs[w] : ui' = CurrentViewChanged(ui, w, x)
  BY DEF FinishClosingTab, Unmoved
<1>2. GoneStays /\ status' = [x \in Views |-> status'[x]]
  BY <1>1, InvParts, StatusChanges
<1>3. tabs' \in [Windows -> SUBSET Views] /\ \A o \in Windows : IsFiniteSet(tabs'[o])
  <2> DEFINE T == tabs[w] \ {v}
  <2>1. IsFiniteSet(T) /\ T \in SUBSET Views
    BY InvParts, FS_RemoveElement
  <2> QED BY <1>1, <2>1, InvParts, TabsChange
<1>4. windows' \in Seq(Windows)
  BY <1>1, InvParts
<1>5. Sound(ui', status, InFlight, {})
  <2>1. CASE ui' = ui
    BY <2>1, InvParts
  <2>2. CASE ui.current[w] = v /\ \E x \in {NoView} \union tabs[w] : ui' = CurrentViewChanged(ui, w, x)
    <3>1. PICK x \in {NoView} \union tabs[w] : ui' = CurrentViewChanged(ui, w, x)
      BY <2>2
    <3>2. ui.active[w] # NoRequest => Alive(ui.active[w].anchor)
      BY <1>1, <2>2, InvParts DEF Sound, Follows, Alive
    <3> QED BY <3>1, <3>2, InvParts, CurrentViewChangedSound
  <2> QED BY <1>1, <2>1, <2>2
<1> QED BY <1>1, <1>2, <1>3, <1>4, <1>5, MoveKeeps

\* The windows but the one that goes.
WindowsBut(w) == Seqs!RemoveAt(windows, CHOOSE i \in DOMAIN windows : windows[i] = w)

LEMMA WindowLeaves ==
  ASSUME windows \in Seq(Windows), NEW w \in Registered, NEW left, left = WindowsBut(w)
  PROVE  /\ left \in Seq(Windows)
         /\ \A o \in Registered : o # w => \E i \in DOMAIN left : left[i] = o
<1> DEFINE i == CHOOSE j \in DOMAIN windows : windows[j] = w
           n == Len(windows)
           before == SubSeq(windows, 1, i - 1)
           behind == SubSeq(windows, i + 1, n)
<1>1. i \in 1 .. n /\ windows[i] = w /\ n \in Nat
  BY DEF Registered, Range
<1> HIDE DEF i
<1>2. /\ before \in Seq(Windows) /\ Len(before) = i - 1
      /\ \A j \in 1 .. i - 1 : before[j] = windows[j]
  BY <1>1
<1>3. /\ behind \in Seq(Windows) /\ Len(behind) = n - i
      /\ \A j \in 1 .. n - i : behind[j] = windows[i + j]
  BY <1>1
<1>4. left = before \o behind
  BY DEF WindowsBut, Seqs!RemoveAt, i
<1> HIDE DEF before, behind, n
<1>5. /\ left \in Seq(Windows) /\ Len(left) = n - 1
      /\ \A j \in 1 .. i - 1 : left[j] = windows[j]
      /\ \A j \in 1 .. n - i : left[i - 1 + j] = windows[i + j]
  <2>1. left \in Seq(Windows) /\ Len(left) = n - 1
    <3>1. left \in Seq(Windows)
      BY <1>2, <1>3, <1>4
    <3>2. Len(left) = Len(before) + Len(behind)
      BY <1>2, <1>3, <1>4, ConcatProperties
    <3> QED BY <1>1, <1>2, <1>3, <3>1, <3>2
  <2>2. ASSUME NEW j \in 1 .. i - 1 PROVE left[j] = windows[j]
    BY <1>1, <1>2, <1>3, <1>4
  <2>3. ASSUME NEW j \in 1 .. n - i PROVE left[i - 1 + j] = windows[i + j]
    <3>1. i - 1 + j \in 1 .. Len(before) + Len(behind) /\ i - 1 + j > Len(before) /\ i - 1 + j - Len(before) = j
      BY <1>1, <1>2, <1>3
    <3>2. left[i - 1 + j] = behind[j]
      BY <1>2, <1>3, <1>4, <3>1, SMTT(30)
    <3> QED BY <1>3, <3>2
  <2> QED BY <2>1, <2>2, <2>3
<1>6. ASSUME NEW o \in Registered, o # w PROVE \E j \in DOMAIN left : left[j] = o
  <2>1. PICK k \in 1 .. n : windows[k] = o
    BY DEF Registered, Range, n
  <2>2. DOMAIN left = 1 .. n - 1
    BY <1>1, <1>5
  <2>3. CASE k < i
    <3>1. k \in 1 .. n - 1 /\ left[k] = o
      BY <1>1, <1>5, <2>1, <2>3
    <3> QED BY <2>2, <3>1
  <2>4. CASE k > i
    <3> DEFINE j == k - i
    <3>1. j \in 1 .. n - i /\ i + j = k /\ i - 1 + j \in 1 .. n - 1
      BY <1>1, <2>1, <2>4
    <3>2. left[i - 1 + j] = o
      BY <1>5, <2>1, <3>1
    <3> HIDE DEF j
    <3> QED BY <2>2, <3>1, <3>2
  <2>5. k < i \/ k > i
    BY <1>1, <1>6, <2>1
  <2> QED BY <2>3, <2>4, <2>5
<1> QED BY <1>5, <1>6

LEMMA CloseWindowKeeps ==
  ASSUME RoutingInv, NEW w \in Windows, CloseWindow(w)
  PROVE  RoutingInv'
<1> DEFINE i == CHOOSE j \in DOMAIN windows : windows[j] = w
           Unregistered(u) ==
             [u EXCEPT !.routes = Restrict(@, { k \in DOMAIN @ : @[k].window # w /\ Alive(@[k].anchor) })]
<1>1. PICK views \in Seqs!SetToSeqs(tabs[w]) :
        ui' = [DismissAll(Unregistered(CancelForViews(ui, views)), w) EXCEPT !.current[w] = NoView]
  BY DEF CloseWindow
<1>2. /\ inflight' = inflight /\ w \in Registered
      /\ windows' = Seqs!RemoveAt(windows, i) /\ tabs' = [tabs EXCEPT ![w] = {}]
      /\ status' = [v \in Views |-> IF v \in tabs[w] THEN "gone" ELSE status[v]]
  BY DEF CloseWindow, Unmoved
<1>3. GoneStays /\ status' = [x \in Views |-> status'[x]]
  BY <1>2 DEF GoneStays
<1>4. tabs' \in [Windows -> SUBSET Views] /\ \A o \in Windows : IsFiniteSet(tabs'[o])
  <2>1. IsFiniteSet({})
    BY FS_EmptySet
  <2> QED BY <1>2, <2>1, InvParts, TabsChange
<1>5. windows' \in Seq(Windows)
  BY <1>2, InvParts, WindowLeaves DEF WindowsBut
<1>6. Len(views) \in Nat
  <2> DEFINE n == Cardinality(tabs[w])
  <2>1. n \in Nat
    BY InvParts, FS_CardinalityType
  <2>2. views \in [1 .. n -> tabs[w]]
    BY DEF Seqs!SetToSeqs, Seqs!Cardinality, Cardinality
  <2> HIDE DEF n
  <2> QED BY <2>1, <2>2
<1> DEFINE cancelled == CancelForViews(ui, views)
           routes == Restrict(cancelled.routes, { k \in DOMAIN cancelled.routes :
                                /\ cancelled.routes[k].window # w /\ Alive(cancelled.routes[k].anchor) })
           left == Unregistered(cancelled)
           closed == DismissAll(left, w)
           x == ui'
<1>7. Sound(cancelled, status, InFlight, {})
  BY <1>6, InvParts, CancelForViewsSound
<1>8. left = [cancelled EXCEPT !.routes = routes]
  OBVIOUS
<1>9. x = [closed EXCEPT !.current[w] = NoView]
  BY <1>1
<1> HIDE DEF cancelled, routes, left, closed, x
<1>10. IsUi(cancelled) /\ cancelled.pending.sources \subseteq Keys \X Sources
  BY <1>7 DEF Sound, UiOK
<1>11. SameRequests(left, cancelled) /\ left.pending = cancelled.pending
  BY <1>8, <1>10 DEF SameRequests, IsUi
<1>12. Sound(left, status, InFlight, {})
  BY <1>7, <1>10, <1>11, SoundKept
<1>13. Sound(closed, status, InFlight, {}) /\ closed.active[w] = NoRequest /\ closed.queue[w] = {}
  BY <1>12, DismissAllSound DEF closed
<1>14. Sound(x, status, InFlight, {})
  <2>1. /\ UiOK(closed) /\ IsUi(closed)
        /\ closed.active = [closed.active EXCEPT ![w] = NoRequest]
        /\ closed.queue = [closed.queue EXCEPT ![w] = {}]
    BY <1>13, OfWindowsSame DEF Sound, UiOK
  <2>2. Replaces(x, closed, w, closed.pending, closed.refused, NoView, NoRequest, {})
    <3>1. /\ IsUi(x) /\ x.pending = closed.pending /\ x.refused = closed.refused
          /\ x.current = [closed.current EXCEPT ![w] = NoView] /\ x.active = closed.active /\ x.queue = closed.queue
      BY <1>9, <2>1 DEF IsUi
    <3> QED BY <2>1, <3>1 DEF Replaces
  <2>3. StillAsked(closed, w, InFlight, InFlight, closed.pending, closed.refused, NoRequest, {})
    BY <1>13 DEF StillAsked, RequestsOf
  <2>4. WindowOK(NoRequest, {}) /\ WindowFollows(status, NoView, NoRequest, {}, w \in {})
    BY DEF WindowOK, WindowFollows, Numbered, Placed
  <2> QED BY <1>13, <2>2, <2>3, <2>4, ReplacedSound
<1> QED BY <1>2, <1>3, <1>4, <1>5, <1>14, MoveKeeps DEF x

(***************************************************************************)
(* Answers and saved settings.                                             *)
(***************************************************************************)
\* The prompt state when the request in front is answered, before showNext.
Answered(y, w, lasting) ==
  /\ y.pending = Lifecycle!Resolved(ui.active[w].key, lasting)
  /\ Replaces(y, ui, w, y.pending, ui.refused, ui.current[w], NoRequest, ui.queue[w])
  /\ RoutesWithout(y, ui, w, {ui.active[w].key})

LEMMA ResolveParts ==
  ASSUME RoutingInv, NEW w \in Windows, NEW decision, NEW lasting, Resolve(w, decision, lasting)
  PROVE  /\ ui.active[w] # NoRequest
         /\ \E y : Answered(y, w, lasting) /\ Sound(y, status, InFlight, {w}) /\ ui' = ShowNext(y, w)
<1> DEFINE r == ui.active[w]
           pending == Lifecycle!Resolved(r.key, lasting)
           answered == [ui EXCEPT !.active[w] = NoRequest, !.pending = pending]
           keys == {r.key}
           left == { k \in DOMAIN answered.routes : k \in keys => answered.routes[k].window # w }
           routes == [k \in left |-> answered.routes[k]]
           y == FinishRoutes(answered, w, keys)
<1>1. r # NoRequest /\ ui' = ShowNext(y, w)
  BY DEF Resolve
<1>2. y = [answered EXCEPT !.routes = routes]
  BY DEF FinishRoutes, Restrict
<1>3. /\ pending.sources \subseteq ui.pending.sources
      /\ \A pair \in pending.sources : pair[1] # r.key
  BY DEF Lifecycle!Resolved, Lifecycle!EmptyTracker, Lifecycle!RemoveKey, Lifecycle!SourcesOf
<1>4. /\ UiOK(ui) /\ IsUi(ui) /\ Numbered(ui.queue[w])
      /\ ui.current = [ui.current EXCEPT ![w] = ui.current[w]]
      /\ ui.queue = [ui.queue EXCEPT ![w] = ui.queue[w]]
  BY InvParts, OfWindowsSame DEF Sound, UiOK
<1>5. /\ \A k \in DOMAIN routes :
           /\ k \in DOMAIN answered.routes /\ routes[k] = answered.routes[k]
           /\ ~ (k \in keys /\ answered.routes[k].window = w)
      /\ \A k \in DOMAIN answered.routes :
           k \notin keys \/ answered.routes[k].window # w => k \in DOMAIN routes /\ routes[k] = answered.routes[k]
  <2> HIDE DEF keys, answered
  <2> QED OBVIOUS
<1> HIDE DEF pending, left, routes
<1>6. /\ IsUi(answered) /\ answered.pending = pending /\ answered.refused = ui.refused
      /\ answered.current = ui.current /\ answered.active = [ui.active EXCEPT ![w] = NoRequest]
      /\ answered.queue = ui.queue /\ answered.routes = ui.routes
  BY <1>4 DEF IsUi
<1> HIDE DEF answered, y
<1>7. /\ IsUi(y) /\ y.pending = answered.pending /\ y.refused = answered.refused
      /\ y.current = answered.current /\ y.active = answered.active /\ y.queue = answered.queue
      /\ y.routes = routes
  BY <1>2, <1>6 DEF IsUi
<1> HIDE DEF keys
<1>8. RoutesWithout(y, ui, w, keys)
  BY <1>5, <1>6, <1>7 DEF RoutesWithout
<1>9. Replaces(y, ui, w, pending, ui.refused, ui.current[w], NoRequest, ui.queue[w])
  BY <1>4, <1>6, <1>7 DEF Replaces
<1>10. StillAsked(ui, w, InFlight, InFlight, pending, ui.refused, NoRequest, ui.queue[w])
  BY <1>3 DEF StillAsked, RequestsOf, About
<1>11. WindowOK(NoRequest, ui.queue[w]) /\ WindowFollows(status, ui.current[w], NoRequest, ui.queue[w], w \in {w})
  BY <1>4 DEF WindowOK, WindowFollows
<1> HIDE DEF r
<1>12. Sound(y, status, InFlight, {w})
  <2> DEFINE queue == ui.queue[w]
             current == ui.current[w]
             refused == ui.refused
  <2>1. /\ Sound(ui, status, InFlight, {}) /\ {} \subseteq {w} \union {w}
        /\ Replaces(y, ui, w, pending, refused, current, NoRequest, queue)
        /\ StillAsked(ui, w, InFlight, InFlight, pending, refused, NoRequest, queue)
        /\ WindowOK(NoRequest, queue) /\ WindowFollows(status, current, NoRequest, queue, w \in {w})
    BY <1>9, <1>10, <1>11, InvParts
  <2> HIDE DEF queue, current, refused
  <2> QED BY <2>1, ReplacedSound
<1>13. Answered(y, w, lasting)
  BY <1>6, <1>7, <1>8, <1>9 DEF Answered, pending, keys, r
<1> QED BY <1>1, <1>12, <1>13 DEF r

LEMMA ResolveKeeps ==
  ASSUME RoutingInv, NEW w \in Windows, NEW decision, NEW lasting, Resolve(w, decision, lasting)
  PROVE  RoutingInv'
<1> DEFINE x == ui'
<1>1. PICK y : Sound(y, status, InFlight, {w}) /\ x = ShowNext(y, w)
  BY ResolveParts
<1>2. Sound(x, status, InFlight, {})
  <2> HIDE DEF x
  <2> QED BY <1>1, ShowNextSound
<1>3. inflight' = inflight /\ status' = status /\ windows' = windows /\ tabs' = tabs
  BY DEF Resolve
<1>4. GoneStays /\ status' = [v \in Views |-> status'[v]]
  BY <1>3, InvParts DEF GoneStays
<1> QED BY <1>2, <1>3, <1>4, InvParts, MoveKeeps DEF x

LEMMA SaveSettingsKeeps ==
  ASSUME RoutingInv, SaveSettings
  PROVE  RoutingInv'
<1> DEFINE x == ui'
           active == [w \in Windows |-> IF w \in Registered THEN NoRequest ELSE ui.active[w]]
           queue == [w \in Windows |-> IF w \in Registered THEN {} ELSE ui.queue[w]]
<1>1. /\ inflight' = inflight /\ status' = status /\ windows' = windows /\ tabs' = tabs
      /\ x = [ui EXCEPT !.pending = EmptyTracker, !.routes = << >>, !.active = active, !.queue = queue]
  BY DEF SaveSettings
<1>2. UiOK(ui) /\ IsUi(ui) /\ \A w \in Windows : Follows(ui, w) /\ Asked(ui, status, w)
  BY InvParts DEF Sound, UiOK
<1>3. OfWindows(active) /\ OfWindows(queue)
  BY DEF OfWindows
<1>4. \A w \in Windows : \/ active[w] = NoRequest /\ queue[w] = {}
                         \/ active[w] = ui.active[w] /\ queue[w] = ui.queue[w]
  OBVIOUS
<1> HIDE DEF x, active, queue
<1>5. IsUi(x) /\ x.pending = EmptyTracker /\ x.current = ui.current /\ x.active = active /\ x.queue = queue
  BY <1>1, <1>2 DEF IsUi
<1>6. UiOK(x)
  <2>1. Numbered({})
    BY DEF Numbered, Placed
  <2>2. \A w \in Windows : Numbered(queue[w]) /\ (active[w] = NoRequest \/ (IsRequest(active[w]) /\ active[w].place = 0))
    BY <1>2, <1>4, <2>1 DEF UiOK
  <2> QED BY <1>2, <1>3, <1>5, <2>2 DEF UiOK, EmptyTracker
<1>7. \A w \in Windows : Follows(x, w) /\ Asked(x, status, w)
  BY <1>2, <1>4, <1>5 DEF Follows, Asked
<1>8. Sound(x, status, InFlight, {})
  BY <1>5, <1>6, <1>7 DEF Sound, Covered, EmptyTracker
<1>9. GoneStays /\ status' = [v \in Views |-> status'[v]]
  BY <1>1, InvParts DEF GoneStays
<1> QED BY <1>1, <1>8, <1>9, InvParts, MoveKeeps DEF x

----------------------------------------------------------------------------
THEOREM RoutingInvariance == Spec => []RoutingInv
<1>1. Init => RoutingInv
  BY InvInit
<1>2. RoutingInv /\ [Next]_vars => RoutingInv'
  <2> SUFFICES ASSUME RoutingInv, [Next]_vars PROVE RoutingInv'
    OBVIOUS
  <2>1. ASSUME NEW key \in Keys, NEW source \in Sources, BlockRequest(key, source) \/ Deliver(key, source)
        PROVE  RoutingInv'
    BY <2>1, BlockKeeps, RouteKeeps DEF Deliver
  <2>2. ASSUME NEW w \in Windows, NEW v \in Views,
               \/ OpenWindow(w, v) \/ OpenTab(w, v) \/ SwitchTab(w, v)
               \/ CloseTab(w, v) \/ FinishClosingTab(w, v)
        PROVE  RoutingInv'
    BY <2>2, OpenWindowKeeps, OpenTabKeeps, SwitchTabKeeps, CloseTabKeeps, FinishClosingTabKeeps
  <2>3. ASSUME NEW w \in Windows, CloseWindow(w) PROVE RoutingInv'
    BY <2>3, CloseWindowKeeps
  <2>4. ASSUME NEW w \in Windows, NEW decision \in {"allow", "block"}, NEW lasting \in BOOLEAN,
               Resolve(w, decision, lasting)
        PROVE  RoutingInv'
    BY <2>4, ResolveKeeps
  <2>5. ASSUME NEW v \in Views, LoadStarted(v) \/ DeleteView(v) \/ \E page \in Urls : Commit(v, page)
        PROVE  RoutingInv'
    BY <2>5, LoadStartedKeeps, DeleteViewKeeps, CommitKeeps
  <2>6. CASE SaveSettings
    BY <2>6, SaveSettingsKeeps
  <2>7. CASE UNCHANGED vars
    BY <2>7 DEF vars, RoutingInv, StateOK, PlacesOK, InFlight
  <2> QED BY <2>1, <2>2, <2>3, <2>4, <2>5, <2>6, <2>7 DEF Next
<1> QED BY <1>1, <1>2, PTL DEF Spec

(***************************************************************************)
(* However windows and tabs are opened, switched, loaded and closed while  *)
(* notifications are routed and retried: a source that is pending has its  *)
(* notification on the way or a prompt that asks about it.                 *)
(***************************************************************************)
THEOREM NothingWaitsForever == Spec => []PendingIsPrompted
<1>1. RoutingInv => PendingIsPrompted
  <2> SUFFICES ASSUME RoutingInv, NEW pair \in ui.pending.sources
               PROVE  \/ \E attempt \in 0 .. MaxRetries : inflight[pair[1]][pair[2]][attempt] > 0
                      \/ \E r \in AllRequests(ui) : r.key = pair[1] /\ pair[2] \in r.sources
                      \/ pair \in ui.refused
    BY DEF PendingIsPrompted
  <2>1. pair \in InFlight \/ Asks(ui, pair) \/ pair \in ui.refused
    BY DEF RoutingInv, Sound, Covered
  <2>2. Asks(ui, pair) => \E r \in AllRequests(ui) : r.key = pair[1] /\ pair[2] \in r.sources
    BY DEF Asks, About, AllRequests
  <2> QED BY <2>1, <2>2 DEF InFlight
<1> QED BY <1>1, RoutingInvariance, PTL

(***************************************************************************)
(* The prompt on screen is about the tab on screen, and a tab on screen    *)
(* with a question waiting shows one: in every window, whatever handlers   *)
(* of other windows hand over to it.                                       *)
(***************************************************************************)
THEOREM PromptsFollowTabs == Spec => []PromptFollowsTab
<1>1. RoutingInv => PromptFollowsTab
  <2> SUFFICES ASSUME RoutingInv PROVE PromptFollowsTab
    OBVIOUS
  <2>1. \A w \in Registered : w \in Windows /\ Follows(ui, w) /\ Asked(ui, status, w)
    BY InvParts DEF Sound
  <2>2. ActiveIsCurrent
    BY <2>1 DEF ActiveIsCurrent, Follows
  <2>3. CurrentIsAsked
    BY <2>1 DEF CurrentIsAsked, Asked, RequestsOf, Alive
  <2> QED BY <2>2, <2>3 DEF PromptFollowsTab
<1> QED BY <1>1, RoutingInvariance, PTL

----------------------------------------------------------------------------
(***************************************************************************)
(* Routes and prompts.  The invariant says of the tabs besides that those  *)
(* of different windows differ, and that no view in one is gone yet.       *)
(***************************************************************************)
TypesOK ==
  /\ policy \in Lifecycle!Policy
  /\ session \in [Keys -> Lifecycle!Decisions \union {Lifecycle!Undecided}]
  /\ url \in [Views -> Urls]
  /\ status \in [Views -> {"unborn", "open", "loading", "closing", "removed", "gone"}]

TabsOK ==
  /\ \A w \in Windows : \A v \in tabs[w] : status[v] \in {"open", "loading", "closing"}
  /\ \A w, o \in Windows : \A v \in tabs[w] : v \in tabs[o] => w = o
  /\ \A w \in Windows \ Registered : tabs[w] = {}

AgreeInv == RoutingInv /\ TypesOK /\ TabsOK /\ Tidy(ui, {})

\* What a handler that moves tabs or windows makes of the prompts.
Kept(x) == Tidy(x, {}) /\ Keeps(ui, {}, {}, x, {}, {})

LEMMA SameIsKept ==
  ASSUME Tidy(ui, {})
  PROVE  Kept(ui)
BY NothingKeeps DEF Kept

LEMMA TurnIsKept ==
  ASSUME NEW u, UiOK(u), Kept(u), NEW w \in Windows,
         NEW v, v \in Views \/ (u.active[w] # NoRequest => Alive(u.active[w].anchor)),
         NEW x, x = CurrentViewChanged(u, w, v)
  PROVE  Kept(x)
<1>1. Tidy(x, {}) /\ Keeps(u, {}, {}, x, {}, {})
  BY CurrentViewChangedKept DEF Kept, Keeps
<1> QED BY <1>1, KeepsThen DEF Kept

LEMMA TabMovesKeep ==
  ASSUME RoutingInv, Tidy(ui, {}), NEW w \in Windows, NEW v \in Views,
         \/ OpenWindow(w, v) \/ OpenTab(w, v) \/ SwitchTab(w, v)
         \/ CloseTab(w, v) \/ FinishClosingTab(w, v)
  PROVE  Kept(ui')
<1> DEFINE cancelled == CancelForView(ui, v)
           x == ui'
<1>1. UiOK(ui) /\ Kept(ui) /\ Sound(ui, status, InFlight, {}) /\ PlacesOK
  BY SameIsKept, InvParts DEF Sound
<1>2. ASSUME NEW z \in Views PROVE Kept(CurrentViewChanged(ui, w, z))
  BY <1>1, TurnIsKept
<1>3. CASE OpenWindow(w, v) \/ OpenTab(w, v) \/ SwitchTab(w, v)
  BY <1>1, <1>2, <1>3 DEF OpenWindow, OpenTab, SwitchTab
<1>4. CASE CloseTab(w, v)
  <2>1. Kept(cancelled) /\ UiOK(cancelled)
    <3>1. Sound(cancelled, status, InFlight, {})
      BY <1>1, CancelForViewSound
    <3>2. Kept(cancelled)
      BY <1>1, CancelForViewKept DEF Kept
    <3> QED BY <3>1, <3>2 DEF Sound
  <2> HIDE DEF cancelled
  <2>2. ASSUME NEW z \in Views PROVE Kept(CurrentViewChanged(cancelled, w, z))
    BY <2>1, TurnIsKept
  <2>3. Others(w, v) \subseteq Views
    BY InvParts DEF Others
  <2>4. ui' = cancelled \/ \E z \in Others(w, v) : ui' = CurrentViewChanged(cancelled, w, z)
    BY <1>4 DEF CloseTab, cancelled
  <2> QED BY <2>1, <2>2, <2>3, <2>4
<1>5. CASE FinishClosingTab(w, v)
  <2>1. CASE ui' = ui
    BY <1>1, <2>1
  <2>2. CASE ui.current[w] = v /\ \E z \in {NoView} \union tabs[w] : ui' = CurrentViewChanged(ui, w, z)
    <3>1. PICK z \in {NoView} \union tabs[w] : x = CurrentViewChanged(ui, w, z)
      BY <2>2
    <3>2. ui.active[w] # NoRequest => Alive(ui.active[w].anchor)
      BY <1>1, <1>5, <2>2 DEF Sound, Follows, Alive, FinishClosingTab
    <3> HIDE DEF x
    <3>3. Kept(x)
      BY <1>1, <3>1, <3>2, TurnIsKept
    <3> QED BY <3>3 DEF x
  <2> QED BY <1>5, <2>1, <2>2 DEF FinishClosingTab
<1> QED BY <1>3, <1>4, <1>5

LEMMA LoadStartedKept ==
  ASSUME RoutingInv, Tidy(ui, {}), NEW v \in Views, LoadStarted(v)
  PROVE  Kept(ui')
<1>1. Kept(CancelForView(ui, v))
  BY InvParts, CancelForViewKept DEF Kept
<1> QED BY <1>1 DEF LoadStarted

LEMMA CloseWindowKept ==
  ASSUME RoutingInv, TabsOK, Tidy(ui, {}), NEW w \in Windows, CloseWindow(w)
  PROVE  Kept(ui') /\ RequestsOf(ui', w) = {}
<1> DEFINE Unregistered(u) ==
             [u EXCEPT !.routes = Restrict(@, { k \in DOMAIN @ : @[k].window # w /\ Alive(@[k].anchor) })]
<1>1. PICK views \in Seqs!SetToSeqs(tabs[w]) :
        ui' = [DismissAll(Unregistered(CancelForViews(ui, views)), w) EXCEPT !.current[w] = NoView]
  BY DEF CloseWindow
<1>2. Len(views) \in Nat
  <2> DEFINE n == Cardinality(tabs[w])
  <2>1. n \in Nat
    BY InvParts, FS_CardinalityType
  <2>2. views \in [1 .. n -> tabs[w]]
    BY DEF Seqs!SetToSeqs, Seqs!Cardinality, Cardinality
  <2> HIDE DEF n
  <2> QED BY <2>1, <2>2
<1> DEFINE u == CancelForViews(ui, views)
           left == { k \in DOMAIN u.routes : u.routes[k].window # w /\ Alive(u.routes[k].anchor) }
           routes == [k \in left |-> u.routes[k]]
           free == Unregistered(u)
           closed == DismissAll(free, w)
           x == ui'
<1>3. Sound(u, status, InFlight, {}) /\ Tidy(u, {}) /\ Keeps(ui, {}, {}, u, {}, {})
  BY <1>2, InvParts, CancelForViewsSound, CancelForViewsKept
<1>4. free = [u EXCEPT !.routes = routes]
  BY DEF Restrict
<1>5. x = [closed EXCEPT !.current[w] = NoView]
  BY <1>1
<1> HIDE DEF u, x
<1>6. IsUi(u) /\ UiOK(u)
  BY <1>3 DEF Sound, UiOK
<1>7. /\ \A k \in DOMAIN routes : k \in DOMAIN u.routes /\ routes[k] = u.routes[k] /\ u.routes[k].window # w
      /\ \A k \in DOMAIN u.routes :
           u.routes[k].window # w /\ Alive(u.routes[k].anchor) => k \in DOMAIN routes /\ routes[k] = u.routes[k]
  OBVIOUS
<1> HIDE DEF routes, free
<1>8. SameRequests(free, u) /\ free.pending = u.pending /\ free.routes = routes
  BY <1>4, <1>6 DEF SameRequests, IsUi
<1>9. RoutesLeaving(free, u, w)
  BY <1>7, <1>8 DEF RoutesLeaving
<1>10. \A o \in Windows : \A v \in tabs[o] : Alive(v)
  BY DEF TabsOK, Alive
<1> HIDE DEF closed
<1>11. Tidy(x, {}) /\ Keeps(u, {}, {}, x, {}, {}) /\ RequestsOf(x, w) = {}
  BY <1>3, <1>5, <1>6, <1>8, <1>9, <1>10, LeaveKept DEF closed
<1>12. Keeps(ui, {}, {}, x, {}, {})
  BY <1>3, <1>11, KeepsThen
<1> QED BY <1>11, <1>12 DEF Kept, x

(***************************************************************************)
(* The other handlers: what they leave of the prompts is tidy, and each    *)
(* key's route still leads to its requests.                                *)
(***************************************************************************)
Still(x) == Tidy(x, {}) /\ \A key : Led(ui, key, {}) => Led(x, key, {})

SameQuestions(x, u) ==
  /\ IsUi(x) /\ x.refused = u.refused /\ x.routes = u.routes
  /\ x.current = u.current /\ x.active = u.active /\ x.queue = u.queue

LEMMA QuestionsStay ==
  ASSUME NEW u, NEW x, SameQuestions(x, u)
  PROVE  /\ \A w : RequestsOf(x, w) = RequestsOf(u, w)
         /\ Held(x) = Held(u)
         /\ \A key, keys : Led(u, key, keys) => Led(x, key, keys)
         /\ \A away : Tidy(u, away) /\ TrackerOK(x.pending) => Tidy(x, away)
<1>1. \A w : RequestsOf(x, w) = RequestsOf(u, w)
  BY DEF SameQuestions, RequestsOf
<1>2. Held(x) = Held(u)
  BY <1>1 DEF Held, AllRequests
<1>3. \A key, keys : Led(u, key, keys) => Led(x, key, keys)
  BY <1>1 DEF Led, SameQuestions
<1>4. \A away : Tidy(u, away) /\ TrackerOK(x.pending) => Tidy(x, away)
  <2>1. \A away : RoutesOK(u, away) => RoutesOK(x, away)
    BY <1>1 DEF RoutesOK, Has, SameQuestions
  <2> QED BY <1>1, <2>1 DEF Tidy
<1> QED BY <1>1, <1>2, <1>3, <1>4

LEMMA LedIsLive ==
  ASSUME TabsOK, Tidy(ui, {}), NEW key, Led(ui, key, {}),
         NEW w \in Windows, NEW r \in RequestsOf(ui, w), r.key = key
  PROVE  RouteIsLive(key)
<1>1. r.anchor \in tabs[w] /\ key \in DOMAIN ui.routes /\ ui.routes[key] = [window |-> w, anchor |-> r.anchor]
  BY DEF Led
<1>2. w \in Registered
  BY DEF Tidy
<1> QED BY <1>1, <1>2 DEF RouteIsLive, TabsOK, Alive

LEMMA BlockStill ==
  ASSUME RoutingInv, Tidy(ui, {}), NEW key \in Keys, NEW source \in Sources, BlockRequest(key, source)
  PROVE  Still(ui') /\ SameQuestions(ui', ui)
<1> DEFINE pending == Record(ui.pending, key, source)
           x == ui'
<1>1. x = [ui EXCEPT !.pending = pending] /\ MayRecord(ui.pending, key, source)
  BY DEF BlockRequest
<1>2. TrackerOK(pending)
  BY <1>1, RecordOK DEF Tidy
<1>3. IsUi(ui)
  BY InvParts DEF Sound, UiOK
<1> HIDE DEF pending, x
<1>4. SameQuestions(x, ui) /\ x.pending = pending
  BY <1>1, <1>3 DEF IsUi, SameQuestions
<1>5. Still(x)
  BY <1>2, <1>4, QuestionsStay DEF Still
<1> QED BY <1>4, <1>5 DEF x

(***************************************************************************)
(* A notification that reaches a window joins a prompt there; a route that *)
(* is not followed had no requests to lead to.                             *)
(***************************************************************************)
LEMMA RouteToStill ==
  ASSUME RoutingInv, TabsOK, Tidy(ui, {}), NEW key \in Keys, NEW source \in Sources,
         NEW order \in CandidateOrders(source), order # << >>, NEW x, x = RouteTo(key, source, order)
  PROVE  Still(x) /\ \E gone, lost : Joins(ui, Given(key, {source}), x, gone, lost)
<1> DEFINE affected == [i \in DOMAIN order |-> [view |-> order[i], url |-> url[order[i]]]]
           target == IF RouteIsLive(key) THEN ui.routes[key]
                     ELSE [window |-> WindowOf(order[1]), anchor |-> order[1]]
           routes == [k \in DOMAIN ui.routes \union {key} |-> IF k = key THEN target ELSE ui.routes[k]]
           routed == [ui EXCEPT !.routes = routes]
           given == Given(key, {source})
           none == {}
<1>1. x = Request(routed, target.window, target.anchor, affected, {source}, key)
  BY Zenon DEF RouteTo
<1>2. /\ target.window \in Registered /\ target.window \in Windows
      /\ target.anchor \in Views /\ target.anchor \in tabs[target.window]
      /\ target = [window |-> target.window, anchor |-> target.anchor]
  <2>1. CASE RouteIsLive(key)
    <3>1. ui.routes[key] \in [window: Windows, anchor: Views]
      BY <2>1 DEF RouteIsLive, Tidy, RoutesOK
    <3> QED BY <2>1, <3>1 DEF RouteIsLive
  <2>2. CASE ~ RouteIsLive(key)
    BY <2>2, InvParts, OrdersAreOfTabs
  <2> QED BY <2>1, <2>2
<1>3. /\ routes[key] = target /\ DOMAIN routes = DOMAIN ui.routes \union {key}
      /\ \A k \in DOMAIN ui.routes : k # key => routes[k] = ui.routes[k]
  OBVIOUS
<1>4. UiOK(ui) /\ IsUi(ui)
  BY InvParts DEF Sound, UiOK
<1>5. RouteIsLive(key) => target = ui.routes[key]
  OBVIOUS
<1> HIDE DEF target, routes, affected
<1>6. /\ IsUi(routed) /\ routed.routes = routes /\ routed.pending = ui.pending /\ routed.refused = ui.refused
      /\ routed.current = ui.current /\ routed.active = ui.active /\ routed.queue = ui.queue
  BY <1>4 DEF IsUi
<1> HIDE DEF routed
<1>7. \A w : RequestsOf(routed, w) = RequestsOf(ui, w)
  BY <1>6 DEF RequestsOf
<1>8. UiOK(routed)
  BY <1>4, <1>6 DEF UiOK
<1>9. Tidy(routed, none \union {<<target.window, key>>})
  <2>1. ASSUME NEW k \in DOMAIN routed.routes
        PROVE  /\ k \in Keys /\ routed.routes[k] \in [window: Windows, anchor: Views]
               /\ \/ <<routed.routes[k].window, k>> \in none \union {<<target.window, key>>}
                  \/ Has(routed, routed.routes[k].window, k)
    <3>1. CASE k = key
      <4>1. routed.routes[k] = target
        BY <1>3, <1>6, <3>1
      <4> QED BY <1>2, <3>1, <4>1
    <3>2. CASE k # key
      <4>1. k \in DOMAIN ui.routes /\ routed.routes[k] = ui.routes[k]
        BY <1>3, <1>6, <2>1, <3>2
      <4>2. k \in Keys /\ ui.routes[k] \in [window: Windows, anchor: Views] /\ Has(ui, ui.routes[k].window, k)
        BY <4>1 DEF Tidy, RoutesOK
      <4> QED BY <1>7, <4>1, <4>2 DEF Has
    <3> QED BY <3>1, <3>2
  <2> HIDE DEF none
  <2>2. RoutesOK(routed, none \union {<<target.window, key>>})
    BY <2>1 DEF RoutesOK
  <2> QED BY <1>6, <1>7, <2>2 DEF Tidy
<1>10. Few({source})
  <2>1. IsFiniteSet({source}) /\ Cardinality({source}) = 1
    BY FS_Singleton
  <2> QED BY <2>1, TrackerAssumption DEF Few
<1>11. /\ Tidy(x, none) /\ \E gone, lost : Joins(routed, given, x, gone, lost)
       /\ \A k, keys : key \notin keys /\ Led(routed, k, keys) => Led(x, k, keys)
  <2> DEFINE w == target.window
             anchor == target.anchor
  <2>1. key \in DOMAIN routed.routes /\ routed.routes[key] = [window |-> w, anchor |-> anchor]
    BY <1>2, <1>3, <1>6
  <2>2. /\ w \in Windows /\ w \in Registered /\ anchor \in Views /\ anchor \in tabs[w]
        /\ Tidy(routed, none \union {<<w, key>>}) /\ x = Request(routed, w, anchor, affected, {source}, key)
    BY <1>1, <1>2, <1>9
  <2> HIDE DEF w, anchor, none
  <2> QED BY <1>8, <1>10, <2>1, <2>2, RequestKept
<1>12. ASSUME NEW k, Led(ui, k, {}) PROVE Led(routed, k, {})
  <2> SUFFICES ASSUME NEW w \in Windows, NEW r \in RequestsOf(ui, w), r.key = k
               PROVE  /\ k \notin {} /\ r.anchor \in tabs[w]
                      /\ k \in DOMAIN routed.routes /\ routed.routes[k] = [window |-> w, anchor |-> r.anchor]
    BY <1>7 DEF Led
  <2>1. r.anchor \in tabs[w] /\ k \in DOMAIN ui.routes /\ ui.routes[k] = [window |-> w, anchor |-> r.anchor]
    BY <1>12 DEF Led
  <2>2. k = key => RouteIsLive(key)
    BY <1>12, LedIsLive
  <2> QED BY <1>3, <1>5, <1>6, <2>1, <2>2
<1>13. \A k : Led(ui, k, {}) => Led(x, k, {})
  BY <1>11, <1>12
<1>14. Held(routed) = Held(ui)
  BY <1>7 DEF Held, AllRequests
<1>15. \E gone, lost : Joins(ui, given, x, gone, lost)
  <2>1. PICK gone, lost : Joins(routed, given, x, gone, lost)
    BY <1>11
  <2> HIDE DEF given
  <2>2. Joins(ui, given, x, gone, lost)
    BY <1>6, <1>14, <2>1 DEF Joins, Flows
  <2> QED BY <2>2
<1> QED BY <1>11, <1>13, <1>15 DEF Still

LEMMA BareStill ==
  ASSUME RoutingInv, TabsOK, Tidy(ui, {}), NEW key \in Keys, NEW x, x = WithoutDeadRoute(key)
  PROVE  Still(x) /\ SameRequests(x, ui) /\ x.pending = ui.pending
<1>1. IsUi(ui)
  BY InvParts DEF Sound, UiOK
<1>2. CASE RouteIsLive(key)
  BY <1>1, <1>2 DEF WithoutDeadRoute, SameRequests, Still
<1>3. CASE ~ RouteIsLive(key)
  <2> DEFINE left == DOMAIN ui.routes \ {key}
             routes == [k \in left |-> ui.routes[k]]
  <2>1. x = [ui EXCEPT !.routes = routes]
    <3>1. x = [ui EXCEPT !.routes = Restrict(ui.routes, left)]
      BY <1>3, Zenon DEF WithoutDeadRoute
    <3>2. Restrict(ui.routes, left) = routes
      BY DEF Restrict
    <3> HIDE DEF left, routes
    <3> QED BY <3>1, <3>2
  <2>2. /\ \A k \in DOMAIN routes : k \in DOMAIN ui.routes /\ routes[k] = ui.routes[k]
        /\ \A k \in DOMAIN ui.routes : k # key => k \in DOMAIN routes /\ routes[k] = ui.routes[k]
    OBVIOUS
  <2> HIDE DEF routes
  <2>3. SameRequests(x, ui) /\ x.pending = ui.pending /\ x.routes = routes
    BY <1>1, <2>1 DEF IsUi, SameRequests
  <2>4. \A w : RequestsOf(x, w) = RequestsOf(ui, w)
    BY <2>3 DEF SameRequests, RequestsOf
  <2>5. Tidy(x, {})
    <3>1. RoutesOK(x, {})
      BY <2>2, <2>3, <2>4 DEF Tidy, RoutesOK, Has
    <3> QED BY <2>3, <2>4, <3>1 DEF Tidy
  <2>6. ASSUME NEW k, Led(ui, k, {}) PROVE Led(x, k, {})
    <3>1. \A w \in Windows : \A r \in RequestsOf(ui, w) : r.key = k => k # key
      BY <1>3, <2>6, LedIsLive
    <3> QED BY <2>2, <2>3, <2>4, <2>6, <3>1 DEF Led
  <2> QED BY <2>3, <2>5, <2>6 DEF Still
<1> QED BY <1>2, <1>3

LEMMA RouteStill ==
  ASSUME RoutingInv, TabsOK, Tidy(ui, {}), NEW key \in Keys, NEW source \in Sources, NEW attempt,
         Route(key, source, attempt)
  PROVE  Still(ui')
<1> DEFINE bare == WithoutDeadRoute(key)
           known == IsPending(ui.pending, key, source)
           x == ui'
<1>1. \/ x = [ui EXCEPT !.pending = IF known THEN RemoveKey(@, key) ELSE @]
      \/ \E order \in CandidateOrders(source) : order # << >> /\ x = RouteTo(key, source, order)
      \/ x = bare
      \/ x = [bare EXCEPT !.pending = RemoveSource(@, key, source)]
  BY DEF Route
<1>2. IsUi(ui) /\ Still(ui)
  BY InvParts DEF Sound, UiOK, Still
<1>3. Still(bare) /\ SameRequests(bare, ui) /\ bare.pending = ui.pending
  BY BareStill
<1> HIDE DEF x, bare
<1> SUFFICES Still(x)
  BY DEF x
<1>4. CASE x = [ui EXCEPT !.pending = IF known THEN RemoveKey(@, key) ELSE @]
  <2> DEFINE pending == IF known THEN RemoveKey(ui.pending, key) ELSE ui.pending
  <2>1. x = [ui EXCEPT !.pending = pending]
    BY <1>4
  <2>2. TrackerOK(pending)
    <3>1. TrackerOK(ui.pending)
      BY DEF Tidy
    <3> QED BY <3>1, RemoveOK
  <2> HIDE DEF pending
  <2>3. SameQuestions(x, ui) /\ x.pending = pending
    BY <1>2, <2>1 DEF IsUi, SameQuestions
  <2> QED BY <2>2, <2>3, QuestionsStay DEF Still
<1>5. CASE \E order \in CandidateOrders(source) : order # << >> /\ x = RouteTo(key, source, order)
  BY <1>5, RouteToStill
<1>6. CASE x = bare
  BY <1>3, <1>6
<1>7. CASE x = [bare EXCEPT !.pending = RemoveSource(@, key, source)]
  <2> DEFINE pending == RemoveSource(bare.pending, key, source)
  <2>1. x = [bare EXCEPT !.pending = pending]
    BY <1>7
  <2>2. TrackerOK(pending)
    <3>1. TrackerOK(bare.pending)
      BY <1>3 DEF Still, Tidy
    <3> QED BY <3>1, RemoveSourceOK
  <2> HIDE DEF pending
  <2>3. SameQuestions(x, bare) /\ x.pending = pending
    BY <1>3, <2>1 DEF IsUi, SameRequests, SameQuestions
  <2> QED BY <1>3, <2>2, <2>3, QuestionsStay DEF Still
<1> QED BY <1>1, <1>4, <1>5, <1>6, <1>7

(***************************************************************************)
(* An answered request was the only one of its window that asked about its *)
(* key: no route leads there for it any more.                              *)
(***************************************************************************)
LEMMA AnsweredStill ==
  ASSUME RoutingInv, Tidy(ui, {}), NEW w \in Windows, NEW lasting, ui.active[w] # NoRequest,
         NEW y, Answered(y, w, lasting)
  PROVE  /\ Still(y) /\ y.refused = ui.refused
         /\ RequestsOf(y, w) = RequestsOf(ui, w) \ {ui.active[w]}
         /\ \A o \in Windows \ {w} : RequestsOf(y, o) = RequestsOf(ui, o)
         /\ \A q \in RequestsOf(y, w) : q.key # ui.active[w].key
<1> DEFINE r == ui.active[w]
           R == ui.queue[w]
           now == Now(NoRequest, R)
           c == ui.current[w]
           refused == ui.refused
           pending == y.pending
<1>1. TrackerOK(pending)
  <2>1. TrackerOK(ui.pending)
    BY DEF Tidy
  <2>2. TrackerOK(EmptyTracker) /\ TrackerOK(RemoveKey(ui.pending, r.key))
    BY <2>1, EmptyTrackerOK, RemoveOK
  <2>3. pending = EmptyTracker \/ pending = RemoveKey(ui.pending, r.key)
    BY DEF Answered, Lifecycle!Resolved, Lifecycle!EmptyTracker, EmptyTracker,
           Lifecycle!RemoveKey, RemoveKey, Lifecycle!SourcesOf, SourcesOf,
           Lifecycle!Cardinality, Cardinality
  <2> QED BY <2>2, <2>3
<1>2. UiOK(ui) /\ Numbered(R) /\ r.place = 0 /\ r # NoRequest
  BY InvParts DEF Sound, UiOK
<1>3. now = R /\ RequestsOf(ui, w) = R \union {r} /\ r \notin R
  BY <1>2 DEF Now, RequestsOf, Numbered, Placed
<1>4. Tidied(R \union {r}) /\ (w \notin Registered => R \union {r} = {})
  BY <1>3 DEF Tidy
<1>5. \A q \in R : q.key # r.key
  BY <1>3, <1>4 DEF Tidied, KeysDiffer
<1>6. Tidied(now) /\ w \in Registered
  BY <1>3, <1>4 DEF Tidied, KeysDiffer
<1> HIDE DEF r, R, c, refused, pending, now
<1>7. ReplacedFields(y, ui, w, pending, refused, c, NoRequest, R)
  <2>1. pending.sources \subseteq Keys \X Sources
    BY <1>1 DEF TrackerOK, Tracker
  <2>2. WindowOK(NoRequest, R)
    BY <1>2 DEF WindowOK
  <2>3. Replaces(y, ui, w, pending, refused, c, NoRequest, R)
    BY DEF Answered, pending, refused, c, R
  <2> QED BY <1>2, <2>1, <2>2, <2>3, ReplacedOK
<1>8. RoutesWithout(y, ui, w, {r.key})
  BY DEF Answered, r
<1>9. Tidy(y, {})
  <2> DEFINE none == {}
  <2>1. ASSUME NEW k \in DOMAIN y.routes
        PROVE  /\ k \in DOMAIN ui.routes /\ y.routes[k] = ui.routes[k]
               /\ y.routes[k].window = w => <<w, k>> \in none \/ \E q \in now : q.key = k
    <3>1. k \in DOMAIN ui.routes /\ y.routes[k] = ui.routes[k] /\ ~ (k = r.key /\ ui.routes[k].window = w)
      BY <1>8 DEF RoutesWithout
    <3>2. Has(ui, ui.routes[k].window, k)
      BY <3>1 DEF Tidy, RoutesOK
    <3> QED BY <1>3, <3>1, <3>2 DEF Has
  <2>2. Tidy(ui, none) /\ (w \in Registered \/ now = {})
    BY <1>6
  <2> HIDE DEF none
  <2>3. \A o \in Windows, k \in Keys : <<o, k>> \in none => o = w \/ <<o, k>> \in none
    OBVIOUS
  <2>4. Tidy(y, none)
    BY <1>1, <1>6, <1>7, <2>1, <2>2, <2>3, ReplacedTidy DEF now
  <2> QED BY <2>4 DEF none
<1>10. /\ RequestsOf(y, w) = R /\ \A o \in Windows \ {w} : RequestsOf(y, o) = RequestsOf(ui, o)
  BY <1>3, <1>7, ReplacedRequests DEF now
<1>11. ASSUME NEW k, Led(ui, k, {}) PROVE Led(y, k, {})
  <2> SUFFICES ASSUME NEW o \in Windows, NEW q \in RequestsOf(y, o), q.key = k
               PROVE  /\ k \notin {} /\ q.anchor \in tabs[o]
                      /\ k \in DOMAIN y.routes /\ y.routes[k] = [window |-> o, anchor |-> q.anchor]
    BY DEF Led
  <2>1. q \in RequestsOf(ui, o) /\ (o = w => k # r.key)
    BY <1>3, <1>5, <1>10
  <2>2. q.anchor \in tabs[o] /\ k \in DOMAIN ui.routes /\ ui.routes[k] = [window |-> o, anchor |-> q.anchor]
    BY <1>11, <2>1 DEF Led
  <2> QED BY <1>8, <2>1, <2>2 DEF RoutesWithout
<1>12. y.refused = ui.refused
  BY <1>7 DEF ReplacedFields, refused
<1> QED BY <1>3, <1>5, <1>9, <1>10, <1>11, <1>12 DEF Still, r

LEMMA ResolveStill ==
  ASSUME RoutingInv, Tidy(ui, {}), NEW w \in Windows, NEW decision, NEW lasting, Resolve(w, decision, lasting)
  PROVE  Still(ui')
<1> DEFINE x == ui'
<1>1. PICK y : Answered(y, w, lasting) /\ Sound(y, status, InFlight, {w}) /\ x = ShowNext(y, w)
  BY ResolveParts
<1>2. Still(y) /\ UiOK(y)
  BY <1>1, ResolveParts, AnsweredStill DEF Sound
<1> HIDE DEF x
<1>3. Tidy(x, {}) /\ \A k, keys : Led(y, k, keys) => Led(x, k, keys)
  BY <1>1, <1>2, ShowNextKept DEF Still
<1> QED BY <1>2, <1>3 DEF Still, x

LEMMA SaveSettingsStill ==
  ASSUME RoutingInv, Tidy(ui, {}), SaveSettings
  PROVE  Still(ui') /\ \A w \in Windows : RequestsOf(ui', w) = {}
<1> DEFINE x == ui'
           active == [w \in Windows |-> IF w \in Registered THEN NoRequest ELSE ui.active[w]]
           queue == [w \in Windows |-> IF w \in Registered THEN {} ELSE ui.queue[w]]
<1>1. x = [ui EXCEPT !.pending = EmptyTracker, !.routes = << >>, !.active = active, !.queue = queue]
  BY DEF SaveSettings
<1>2. IsUi(ui)
  BY InvParts DEF Sound, UiOK
<1>3. \A w \in Windows : \/ active[w] = NoRequest /\ queue[w] = {}
                         \/ w \notin Registered /\ active[w] = ui.active[w] /\ queue[w] = ui.queue[w]
  OBVIOUS
<1> HIDE DEF x, active, queue
<1>4. x.pending = EmptyTracker /\ x.routes = << >> /\ x.active = active /\ x.queue = queue
  BY <1>1, <1>2 DEF IsUi
<1>5. ASSUME NEW w \in Windows PROVE RequestsOf(x, w) = {}
  <2>1. w \notin Registered => RequestsOf(ui, w) = {}
    BY DEF Tidy
  <2> QED BY <1>3, <1>4, <2>1 DEF RequestsOf
<1>6. Tidied({}) /\ RoutesOK(x, {})
  BY <1>4 DEF Tidied, KeysDiffer, RoutesOK
<1>7. Tidy(x, {})
  BY <1>4, <1>5, <1>6, EmptyTrackerOK DEF Tidy
<1>8. \A key : Led(x, key, {})
  BY <1>5 DEF Led
<1> QED BY <1>5, <1>7, <1>8 DEF Still, x

(***************************************************************************)
(* Tabs and windows besides: a view belongs to one window, and is not      *)
(* destroyed before it has left.                                           *)
(***************************************************************************)
LEMMA WindowsChange ==
  ASSUME RoutingInv, NEW w \in Windows, NEW v \in Views
  PROVE  /\ OpenWindow(w, v) => Registered \union {w} \subseteq Registered'
         /\ CloseWindow(w) => w \in Registered /\ Registered \subseteq Registered' \union {w}
<1> DEFINE later == windows'
<1>1. windows \in Seq(Windows)
  BY InvParts
<1>2. ASSUME OpenWindow(w, v) PROVE Registered \union {w} \subseteq Registered'
  <2>1. later = Append(windows, w)
    BY <1>2 DEF OpenWindow
  <2> HIDE DEF later
  <2>2. /\ DOMAIN windows = 1 .. Len(windows) /\ DOMAIN later = 1 .. Len(windows) + 1
        /\ later[Len(windows) + 1] = w /\ \A i \in 1 .. Len(windows) : later[i] = windows[i]
        /\ Len(windows) \in Nat
    BY <1>1, <2>1
  <2>3. w \in Range(later) /\ Registered \subseteq Range(later)
    BY <2>2 DEF Registered, Range
  <2> QED BY <2>3 DEF Registered, later
<1>3. ASSUME CloseWindow(w) PROVE w \in Registered /\ Registered \subseteq Registered' \union {w}
  <2>1. w \in Registered /\ later = WindowsBut(w)
    BY <1>3 DEF CloseWindow, WindowsBut
  <2> HIDE DEF later
  <2>2. \A o \in Registered : o # w => \E i \in DOMAIN later : later[i] = o
    BY <1>1, <2>1, WindowLeaves
  <2>3. Registered \subseteq Range(later) \union {w}
    BY <2>2 DEF Range
  <2> QED BY <2>1, <2>3 DEF Registered, later
<1> QED BY <1>2, <1>3

LEMMA TabsStay ==
  ASSUME RoutingInv, TypesOK, TabsOK, Next
  PROVE  TabsOK'
<1>1. /\ tabs \in [Windows -> SUBSET Views] /\ status = [x \in Views |-> status[x]]
      /\ \A w \in Windows : \A v \in tabs[w] : v \in Views /\ status[v] \in {"open", "loading", "closing"}
      /\ \A w, o \in Windows : \A v \in tabs[w] : v \in tabs[o] => w = o
      /\ \A w \in Windows \ Registered : tabs[w] = {}
  BY InvParts DEF TabsOK
<1>2. ASSUME UNCHANGED <<tabs, windows>>,
             \/ UNCHANGED status
             \/ \E v \in Views, s \in {"open", "loading", "closing"} : status' = [status EXCEPT ![v] = s]
             \/ \E v \in Views : status[v] = "removed" /\ \A x \in Views \ {v} : status'[x] = status[x]
      PROVE  TabsOK'
  <2>1. \A w \in Windows : \A v \in tabs[w] : status'[v] \in {"open", "loading", "closing"}
    BY <1>1, <1>2
  <2> QED BY <1>1, <1>2, <2>1 DEF TabsOK, Registered
<1>3. ASSUME NEW w \in Windows, NEW v \in Views, NEW new, tabs' = [tabs EXCEPT ![w] = new],
             new = {v} \/ new = tabs[w] \union {v}, status[v] = "unborn",
             status' = [status EXCEPT ![v] = "open"], Registered \union {w} \subseteq Registered'
      PROVE  TabsOK'
  <2>1. \A o \in Windows : v \notin tabs[o]
    BY <1>1, <1>3
  <2>2. \A o \in Windows : tabs'[o] = IF o = w THEN new ELSE tabs[o]
    BY <1>1, <1>3
  <2>3. \A x \in Views : status'[x] = IF x = v THEN "open" ELSE status[x]
    BY <1>1, <1>3
  <2>4. \A o \in Windows : \A x \in tabs'[o] : status'[x] \in {"open", "loading", "closing"}
    BY <1>1, <1>3, <2>2, <2>3
  <2>5. \A o, p \in Windows : \A x \in tabs'[o] : x \in tabs'[p] => o = p
    BY <1>1, <1>3, <2>1, <2>2
  <2>6. \A o \in Windows \ Registered' : tabs'[o] = {}
    BY <1>1, <1>3, <2>2
  <2> QED BY <2>4, <2>5, <2>6 DEF TabsOK
<1>4. ASSUME NEW w \in Windows, NEW gone \in SUBSET tabs[w], tabs' = [tabs EXCEPT ![w] = @ \ gone],
             \A x \in Views \ gone : status'[x] = status[x],
             Registered \subseteq Registered' \union {w}, gone = tabs[w] \/ windows' = windows
      PROVE  TabsOK'
  <2>1. \A o \in Windows : tabs'[o] = tabs[o] \ gone
    BY <1>1, <1>4
  <2>2. \A o \in Windows \ Registered' : tabs'[o] = {}
    BY <1>1, <1>4, <2>1 DEF Registered
  <2> QED BY <1>1, <1>4, <2>1, <2>2 DEF TabsOK
<1>5. ASSUME NEW key \in Keys, NEW source \in Sources, BlockRequest(key, source) \/ Deliver(key, source)
      PROVE  TabsOK'
  BY <1>2, <1>5 DEF BlockRequest, Deliver, Route
<1>6. ASSUME NEW w \in Windows, NEW v \in Views,
             \/ OpenWindow(w, v) \/ OpenTab(w, v) \/ SwitchTab(w, v)
             \/ CloseTab(w, v) \/ FinishClosingTab(w, v)
      PROVE  TabsOK'
  <2>1. CASE OpenWindow(w, v)
    <3>1. Registered \union {w} \subseteq Registered'
      BY <2>1, WindowsChange
    <3> QED BY <1>3, <2>1, <3>1 DEF OpenWindow
  <2>2. CASE OpenTab(w, v)
    BY <1>3, <2>2 DEF OpenTab, Registered
  <2>3. CASE SwitchTab(w, v) \/ CloseTab(w, v)
    BY <1>2, <2>3 DEF SwitchTab, CloseTab
  <2>4. CASE FinishClosingTab(w, v)
    <3>1. /\ v \in tabs[w] /\ tabs' = [tabs EXCEPT ![w] = @ \ {v}] /\ windows' = windows
          /\ status' = [status EXCEPT ![v] = "removed"]
      BY <2>4 DEF FinishClosingTab
    <3>2. {v} \in SUBSET tabs[w] /\ \A x \in Views \ {v} : status'[x] = status[x]
      BY <1>1, <3>1
    <3>3. Registered' = Registered
      BY <3>1 DEF Registered
    <3> QED BY <1>4, <3>1, <3>2, <3>3
  <2> QED BY <1>6, <2>1, <2>2, <2>3, <2>4
<1>7. ASSUME NEW w \in Windows, CloseWindow(w) PROVE TabsOK'
  <2>1. /\ tabs' = [tabs EXCEPT ![w] = {}]
        /\ status' = [x \in Views |-> IF x \in tabs[w] THEN "gone" ELSE status[x]]
    BY <1>7 DEF CloseWindow
  <2>2. Registered \subseteq Registered' \union {w}
    BY <1>7, WindowsChange, RoutingAssumption
  <2> DEFINE gone == tabs[w]
  <2>3. tabs' = [tabs EXCEPT ![w] = @ \ gone] /\ \A x \in Views \ gone : status'[x] = status[x]
    BY <2>1
  <2> HIDE DEF gone
  <2>4. gone \in SUBSET tabs[w] /\ gone = tabs[w]
    BY DEF gone
  <2> QED BY <1>4, <2>2, <2>3, <2>4
<1>8. ASSUME NEW w \in Windows, NEW decision, NEW lasting, Resolve(w, decision, lasting)
      PROVE  TabsOK'
  BY <1>2, <1>8 DEF Resolve
<1>9. ASSUME NEW v \in Views, LoadStarted(v) \/ DeleteView(v) \/ \E page \in Urls : Commit(v, page)
      PROVE  TabsOK'
  <2>1. UNCHANGED <<tabs, windows>>
    BY <1>9 DEF LoadStarted, DeleteView, Commit
  <2>2. \/ \E s \in {"open", "loading", "closing"} : status' = [status EXCEPT ![v] = s]
        \/ status[v] = "removed" /\ status' = [status EXCEPT ![v] = "gone"]
    BY <1>9 DEF LoadStarted, DeleteView, Commit
  <2>3. status' = [status EXCEPT ![v] = "gone"] => \A x \in Views \ {v} : status'[x] = status[x]
    BY <1>1
  <2> QED BY <1>2, <2>1, <2>2, <2>3
<1>10. CASE SaveSettings
  BY <1>2, <1>10 DEF SaveSettings
<1> QED BY <1>5, <1>6, <1>7, <1>8, <1>9, <1>10 DEF Next

LEMMA TypesStay ==
  ASSUME RoutingInv, TypesOK, Tidy(ui, {}), Next
  PROVE  TypesOK'
<1> DEFINE States == {"unborn", "open", "loading", "closing", "removed", "gone"}
<1>1. ASSUME UNCHANGED <<policy, session, url>>,
             \/ UNCHANGED status
             \/ \E v \in Views, s \in States : status' = [status EXCEPT ![v] = s]
      PROVE  TypesOK'
  BY <1>1 DEF TypesOK
<1>2. ASSUME NEW key \in Keys, NEW source \in Sources, BlockRequest(key, source) \/ Deliver(key, source)
      PROVE  TypesOK'
  BY <1>1, <1>2 DEF BlockRequest, Deliver, Route
<1>3. ASSUME NEW w \in Windows, NEW v \in Views,
             \/ OpenWindow(w, v) \/ OpenTab(w, v) \/ SwitchTab(w, v)
             \/ CloseTab(w, v) \/ FinishClosingTab(w, v)
      PROVE  TypesOK'
  BY <1>1, <1>3 DEF OpenWindow, OpenTab, SwitchTab, CloseTab, FinishClosingTab, Unmoved
<1>4. ASSUME NEW w \in Windows, CloseWindow(w) PROVE TypesOK'
  <2>1. /\ UNCHANGED <<policy, session, url>>
        /\ status' = [x \in Views |-> IF x \in tabs[w] THEN "gone" ELSE status[x]]
    BY <1>4 DEF CloseWindow, Unmoved
  <2> QED BY <2>1 DEF TypesOK
<1>5. ASSUME NEW w \in Windows, NEW decision \in {"allow", "block"}, NEW lasting, Resolve(w, decision, lasting)
      PROVE  TypesOK'
  <2> DEFINE key == ui.active[w].key
  <2>1. key \in Keys
    <3>1. ui.active[w] \in RequestsOf(ui, w)
      BY <1>5 DEF Resolve, RequestsOf
    <3> QED BY <3>1 DEF Tidy, Tidied, Askable
  <2>2. /\ UNCHANGED <<url, status>>
        /\ IF lasting THEN Lifecycle!ResolvePersistently(key, decision)
                      ELSE Lifecycle!ResolveForSession(key, decision)
    BY <1>5 DEF Resolve
  <2> HIDE DEF key
  <2>3. policy' \in Lifecycle!Policy
    BY <2>1, <2>2 DEF TypesOK, Lifecycle!Policy, Lifecycle!Evaluations,
                      Lifecycle!ResolvePersistently, Lifecycle!ResolveForSession
  <2>4. session' \in [Keys -> Lifecycle!Decisions \union {Lifecycle!Undecided}]
    BY <2>1, <2>2 DEF TypesOK, Lifecycle!Decisions, Lifecycle!Undecided,
                      Lifecycle!ResolvePersistently, Lifecycle!ResolveForSession
  <2> QED BY <2>2, <2>3, <2>4 DEF TypesOK
<1>6. ASSUME NEW v \in Views, LoadStarted(v) \/ DeleteView(v) PROVE TypesOK'
  BY <1>1, <1>6 DEF LoadStarted, DeleteView, Unmoved
<1>7. ASSUME NEW v \in Views, NEW page \in Urls, Commit(v, page) PROVE TypesOK'
  BY <1>7 DEF TypesOK, Commit, Unmoved
<1>8. CASE SaveSettings
  BY <1>8, PoliciesAssumption DEF TypesOK, SaveSettings
<1> QED BY <1>2, <1>3, <1>4, <1>5, <1>6, <1>7, <1>8 DEF Next

LEMMA StepIsStill ==
  ASSUME AgreeInv, Next
  PROVE  /\ Still(ui')
         /\ \A o \in Windows : o \notin Registered' => RequestsOf(ui', o) = {}
<1>1. RoutingInv /\ TypesOK /\ TabsOK /\ Tidy(ui, {})
  BY DEF AgreeInv
<1>2. ASSUME Still(ui'), Registered \subseteq Registered'
      PROVE  /\ Still(ui')
             /\ \A o \in Windows : o \notin Registered' => RequestsOf(ui', o) = {}
  BY <1>2 DEF Still, Tidy
<1>3. Kept(ui') => Still(ui')
  BY DEF Kept, Keeps, Still
<1>4. windows' = windows => Registered' = Registered
  BY DEF Registered
<1>5. ASSUME NEW key \in Keys, NEW source \in Sources, BlockRequest(key, source) \/ Deliver(key, source)
      PROVE  Still(ui') /\ windows' = windows
  <2>1. CASE BlockRequest(key, source)
    BY <1>1, <2>1, BlockStill DEF BlockRequest
  <2>2. CASE Deliver(key, source)
    BY <1>1, <2>2, RouteStill DEF Deliver, Route
  <2> QED BY <1>5, <2>1, <2>2
<1>6. ASSUME NEW w \in Windows, NEW v \in Views,
             \/ OpenWindow(w, v) \/ OpenTab(w, v) \/ SwitchTab(w, v)
             \/ CloseTab(w, v) \/ FinishClosingTab(w, v)
      PROVE  Still(ui') /\ Registered \subseteq Registered'
  <2>1. Kept(ui')
    BY <1>1, <1>6, TabMovesKeep
  <2>2. OpenWindow(w, v) => Registered \subseteq Registered'
    BY <1>1, WindowsChange
  <2>3. OpenTab(w, v) \/ SwitchTab(w, v) \/ CloseTab(w, v) \/ FinishClosingTab(w, v) => windows' = windows
    BY DEF OpenTab, SwitchTab, CloseTab, FinishClosingTab
  <2> QED BY <1>3, <1>4, <1>6, <2>1, <2>2, <2>3
<1>7. ASSUME NEW w \in Windows, CloseWindow(w)
      PROVE  /\ Still(ui')
             /\ \A o \in Windows : o \notin Registered' => RequestsOf(ui', o) = {}
  <2>1. Kept(ui') /\ RequestsOf(ui', w) = {}
    BY <1>1, <1>7, CloseWindowKept
  <2>2. Registered \subseteq Registered' \union {w}
    BY <1>1, <1>7, WindowsChange, RoutingAssumption
  <2>3. \A o \in Windows : o \notin Registered => RequestsOf(ui', o) = {}
    BY <1>3, <2>1 DEF Still, Tidy
  <2> QED BY <1>3, <2>1, <2>2, <2>3
<1>8. ASSUME NEW w \in Windows, NEW decision, NEW lasting, Resolve(w, decision, lasting)
      PROVE  Still(ui') /\ windows' = windows
  <2>1. Still(ui')
    BY <1>1, <1>8, ResolveStill
  <2> QED BY <1>8, <2>1 DEF Resolve
<1>9. ASSUME NEW v \in Views, LoadStarted(v) \/ DeleteView(v) \/ \E page \in Urls : Commit(v, page)
      PROVE  Still(ui') /\ windows' = windows
  <2>1. CASE LoadStarted(v)
    BY <1>1, <1>3, <2>1, LoadStartedKept DEF LoadStarted
  <2>2. CASE DeleteView(v) \/ \E page \in Urls : Commit(v, page)
    BY <1>1, <2>2 DEF Still, DeleteView, Commit
  <2> QED BY <1>9, <2>1, <2>2
<1>10. CASE SaveSettings
  <2>1. Still(ui')
    BY <1>1, <1>10, SaveSettingsStill
  <2>2. windows' = windows
    BY <1>10 DEF SaveSettings
  <2> QED BY <1>2, <1>4, <2>1, <2>2
<1> QED BY <1>2, <1>4, <1>5, <1>6, <1>7, <1>8, <1>9, <1>10 DEF Next

THEOREM AgreeInvariance == Spec => []AgreeInv
<1>1. Init => AgreeInv
  <2> SUFFICES ASSUME Init PROVE AgreeInv
    OBVIOUS
  <2>1. RoutingInv
    BY InvInit
  <2>2. TypesOK
    BY RoutingAssumption, PoliciesAssumption DEF Init, TypesOK, Lifecycle!Undecided
  <2>3. TabsOK
    <3>1. MainWin \in Registered
      BY DEF Init, Registered, Range
    <3> QED BY <3>1, RoutingAssumption DEF Init, TabsOK
  <2>4. Tidy(ui, {})
    <3>1. /\ ui.pending = EmptyTracker /\ ui.routes = << >>
          /\ \A w \in Windows : ui.active[w] = NoRequest /\ ui.queue[w] = {}
      BY DEF Init, UiInit
    <3>2. \A w \in Windows : RequestsOf(ui, w) = {}
      BY <3>1 DEF RequestsOf
    <3> QED BY <3>1, <3>2, EmptyTrackerOK DEF Tidy, Tidied, KeysDiffer, RoutesOK
  <2> QED BY <2>1, <2>2, <2>3, <2>4 DEF AgreeInv
<1>2. AgreeInv /\ RoutingInv' /\ [Next]_vars => AgreeInv'
  <2> SUFFICES ASSUME AgreeInv, RoutingInv', [Next]_vars PROVE AgreeInv'
    OBVIOUS
  <2>1. CASE Next
    <3>1. TypesOK' /\ TabsOK'
      BY <2>1, TypesStay, TabsStay DEF AgreeInv
    <3>2. Tidy(ui, {})'
      <4>1. Tidy(ui', {}) /\ \A o \in Windows : o \notin Registered' => RequestsOf(ui', o) = {}
        BY <2>1, StepIsStill DEF Still
      <4> QED BY <4>1 DEF Tidy
    <3> QED BY <3>1, <3>2 DEF AgreeInv
  <2>2. CASE UNCHANGED vars
    BY <2>2 DEF vars, AgreeInv, TypesOK, TabsOK, Tidy, Registered
  <2> QED BY <2>1, <2>2
<1> QED BY <1>1, <1>2, RoutingInvariance, PTL DEF Spec

LedOnce == \A key \in Keys : AgreeInv /\ Led(ui, key, {}) => AskedOnce(key)

LEMMA LedIsOnce == LedOnce
<1> SUFFICES ASSUME NEW key \in Keys, AgreeInv, Led(ui, key, {}) PROVE AskedOnce(key)
  BY DEF LedOnce
<1>1. TabsOK /\ Tidy(ui, {})
  BY DEF AgreeInv
<1>2. \A w \in Windows : \A r \in RequestsOf(ui, w) : r.key = key =>
        /\ ui.routes[key] = [window |-> w, anchor |-> r.anchor]
        /\ ui.routes[key].window = w /\ ui.routes[key].anchor = r.anchor
        /\ RouteIsLive(key)
  BY <1>1, LedIsLive DEF Led
<1>3. ASSUME NEW w1 \in Windows, NEW w2 \in Windows,
             NEW r1 \in RequestsOf(ui, w1), NEW r2 \in RequestsOf(ui, w2), r1.key = key, r2.key = key
      PROVE  w1 = w2 /\ r1 = r2
  <2>1. w1 = w2
    BY <1>2, <1>3
  <2> QED BY <1>1, <1>3, <2>1 DEF Tidy, Tidied, KeysDiffer
<1>4. ASSUME NEW w \in Windows, NEW v \in Views, RouteIsLive(key), ui.routes[key] = [window |-> w, anchor |-> v]
      PROVE  \E r \in RequestsOf(ui, w) : r.key = key /\ r.anchor = v
  <2>1. PICK r \in RequestsOf(ui, w) : r.key = key
    BY <1>1, <1>4 DEF Tidy, RoutesOK, Has, RouteIsLive
  <2>2. r.anchor = v
    <3>1. ui.routes[key].anchor = v
      BY <1>4
    <3> QED BY <1>2, <2>1, <3>1
  <2> QED BY <2>1, <2>2
<1> QED BY <1>2, <1>3, <1>4 DEF AskedOnce

(***************************************************************************)
(* Whatever windows, tabs, notifications and answers do to one another: a  *)
(* window asks once about a key, a route that is followed leads to a       *)
(* prompt of its key, and no handler gives a key a second prompt or a      *)
(* route that leads elsewhere, but when its prompt is stranded.            *)
(***************************************************************************)
THEOREM RoutesLeadToOnePrompt == Spec => RoutesAgree
<1>1. AgreeInv => RoutesLeadToPrompts
  <2> SUFFICES ASSUME AgreeInv PROVE RoutesLeadToPrompts
    OBVIOUS
  <2>1. RoutingInv /\ TypesOK /\ Tidy(ui, {}) /\ UiOK(ui)
    BY InvParts DEF AgreeInv, Sound
  <2>2. ASSUME NEW w \in Windows, NEW r \in RequestsOf(ui, w)
        PROVE  r.key \in Keys /\ r.anchor \in Views /\ r.sources \in (SUBSET Sources) \ {{}}
    <3>1. Askable(r)
      BY <2>1 DEF Tidy, Tidied
    <3>2. IsRequest(r)
      BY <2>1 DEF UiOK, Numbered, RequestsOf
    <3> QED BY <3>1, <3>2 DEF Askable, Few, IsRequest
  <2>3. TypeOK
    BY <2>1, <2>2, InvParts DEF TypeOK, TypesOK, Counters, Tidy, TrackerOK, RoutesOK, AllRequests
  <2>4. \A key : RouteIsLive(key) => Has(ui, ui.routes[key].window, key)
    BY <2>1 DEF Tidy, RoutesOK, RouteIsLive
  <2> QED BY <2>1, <2>3, <2>4 DEF RoutesLeadToPrompts, Tidy, Tidied, KeysDiffer, Has
<1>2. AgreeInv /\ AgreeInv' /\ [Next]_vars => [\A key \in Keys : OnePromptStays(key)]_vars
  <2> SUFFICES ASSUME AgreeInv, AgreeInv', Next, NEW key \in Keys, AskedOnce(key), ~ Stranded(key),
                      ~ Stranded(key)'
               PROVE  AskedOnce(key)'
    BY DEF OnePromptStays
  <2>1. Led(ui, key, {})
    <3> SUFFICES ASSUME NEW w \in Windows, NEW r \in RequestsOf(ui, w), r.key = key
                 PROVE  /\ r.anchor \in tabs[w]
                        /\ key \in DOMAIN ui.routes /\ ui.routes[key] = [window |-> w, anchor |-> r.anchor]
      BY DEF Led
    <3>1. r.anchor \in tabs[w]
      BY DEF Stranded
    <3>2. r.anchor \in Views
      BY <3>1, InvParts DEF AgreeInv
    <3>3. RouteIsLive(key) /\ ui.routes[key] = [window |-> w, anchor |-> r.anchor]
      BY <3>2 DEF AskedOnce
    <3> QED BY <3>1, <3>3 DEF RouteIsLive
  <2>2. Led(ui', key, {})
    BY <2>1, StepIsStill DEF Still
  <2>3. Led(ui, key, {})'
    <3>1. \A w \in Windows : \A r \in RequestsOf(ui', w) : r.key = key => r.anchor \in tabs'[w]
      BY DEF Stranded
    <3> QED BY <2>2, <3>1 DEF Led
  <2>4. LedOnce'
    BY LedIsOnce, PTL
  <2> QED BY <2>3, <2>4 DEF LedOnce
<1> QED BY <1>1, <1>2, AgreeInvariance, PTL DEF Spec, RoutesAgree

----------------------------------------------------------------------------
(***************************************************************************)
(* The refinement of PromptLifecycle: first, what it takes for a source's  *)
(* notifications is their sum over the attempts.                           *)
(***************************************************************************)
Attempts == [0 .. MaxRetries -> Nat]

Sums(counts, upTo) ==
  upTo[0] = counts[0] /\ \A a \in 1 .. MaxRetries : upTo[a] = upTo[a - 1] + counts[a]

LEMMA TotalSums ==
  ASSUME NEW counts \in Attempts
  PROVE  \E upTo : Sums(counts, upTo) /\ Total(counts) = upTo[MaxRetries]
<1> DEFINE Steps(f, m) == [a \in 0 .. m |-> IF a = 0 THEN counts[0] ELSE f[a - 1] + counts[a]]
           upTo == CHOOSE f : f = Steps(f, MaxRetries)
<1>1. Total(counts) = upTo[MaxRetries]
  BY DEF Total
<1>2. MaxRetries \in Nat
  BY RoutingAssumption
<1>3. upTo = Steps(upTo, MaxRetries)
  <2> DEFINE Good(m) == \E f : f = Steps(f, m)
  <2>1. Good(0)
    <3> DEFINE f == [a \in 0 .. 0 |-> counts[0]]
    <3>1. f = Steps(f, 0)
      OBVIOUS
    <3> QED BY <3>1
  <2>2. ASSUME NEW m \in Nat, Good(m) PROVE Good(m + 1)
    <3>1. PICK f : f = Steps(f, m)
      BY <2>2
    <3> DEFINE g == [a \in 0 .. m + 1 |-> IF a = m + 1 THEN f[m] + counts[a] ELSE f[a]]
    <3>2. \A a \in 0 .. m : g[a] = f[a]
      OBVIOUS
    <3>3. \A a \in 0 .. m : f[a] = IF a = 0 THEN counts[0] ELSE f[a - 1] + counts[a]
      BY <3>1
    <3>4. g[m + 1] = f[m] + counts[m + 1]
      OBVIOUS
    <3> HIDE DEF g
    <3>5. \A a \in 0 .. m + 1 : g[a] = IF a = 0 THEN counts[0] ELSE g[a - 1] + counts[a]
      <4> SUFFICES ASSUME NEW a \in 0 .. m + 1 PROVE g[a] = IF a = 0 THEN counts[0] ELSE g[a - 1] + counts[a]
        OBVIOUS
      <4>1. CASE a = m + 1
        BY <3>2, <3>4, <4>1
      <4>2. CASE a # m + 1 /\ a # 0
        <5>1. a \in 0 .. m /\ a - 1 \in 0 .. m
          BY <4>2
        <5> QED BY <3>2, <3>3, <4>2, <5>1
      <4>3. CASE a = 0
        BY <3>2, <3>3, <4>3
      <4> QED BY <4>1, <4>2, <4>3
    <3>6. g = Steps(g, m + 1)
      BY <3>5 DEF g
    <3> QED BY <3>6
  <2>3. Good(MaxRetries)
    <3> HIDE DEF Good
    <3>1. SUFFICES ASSUME ~ Good(MaxRetries) PROVE FALSE
      OBVIOUS
    <3>2. PICK n \in { m \in Nat : ~ Good(m) } : \A k \in { m \in Nat : ~ Good(m) } : n <= k
      BY <1>2, <3>1, LeastNumber
    <3>3. n # 0 /\ n - 1 \in Nat
      BY <2>1, <3>2
    <3>4. Good(n - 1)
      BY <3>2, <3>3
    <3> QED BY <2>2, <3>2, <3>3, <3>4
  <2> QED BY <2>3
<1> HIDE DEF upTo
<1>4. \A a \in 0 .. MaxRetries : upTo[a] = IF a = 0 THEN counts[0] ELSE upTo[a - 1] + counts[a]
  BY <1>3
<1> HIDE DEF Steps
<1>5. Sums(counts, upTo)
  BY <1>2, <1>4 DEF Sums
<1> QED BY <1>1, <1>5

LEMMA TotalOfNone ==
  Total([a \in 0 .. MaxRetries |-> 0]) = 0
<1> DEFINE counts == [a \in 0 .. MaxRetries |-> 0]
<1>1. MaxRetries \in Nat /\ counts \in Attempts
  BY RoutingAssumption DEF Attempts
<1>2. \A a \in 0 .. MaxRetries : counts[a] = 0
  OBVIOUS
<1> HIDE DEF counts
<1>3. PICK upTo : Sums(counts, upTo) /\ Total(counts) = upTo[MaxRetries]
  BY <1>1, TotalSums
<1> DEFINE S == { a \in 0 .. MaxRetries : upTo[a] = 0 }
<1>4. 0 \in S /\ \A a \in 1 .. MaxRetries : a - 1 \in S => a \in S
  BY <1>1, <1>2, <1>3 DEF Sums
<1>5. MaxRetries \in S
  <2> HIDE DEF S
  <2> QED BY <1>1, <1>4, UpTo
<1> QED BY <1>3, <1>5 DEF counts

\* One notification more of an attempt.
LEMMA TotalOfMore ==
  ASSUME NEW counts \in Attempts, NEW more \in Attempts, NEW b \in 0 .. MaxRetries,
         more[b] = counts[b] + 1, \A a \in 0 .. MaxRetries : a # b => more[a] = counts[a]
  PROVE  Total(counts) \in Nat /\ Total(more) = Total(counts) + 1
<1>1. MaxRetries \in Nat
  BY RoutingAssumption
<1>2. PICK f : Sums(counts, f) /\ Total(counts) = f[MaxRetries]
  BY TotalSums
<1>3. PICK g : Sums(more, g) /\ Total(more) = g[MaxRetries]
  BY TotalSums
<1> DEFINE S == { a \in 0 .. MaxRetries : f[a] \in Nat /\ g[a] = IF a < b THEN f[a] ELSE f[a] + 1 }
<1>4. \A a \in 0 .. MaxRetries : counts[a] \in Nat
  BY DEF Attempts
<1>5. 0 \in S
  BY <1>1, <1>2, <1>3, <1>4 DEF Sums
<1>6. ASSUME NEW a \in 1 .. MaxRetries, a - 1 \in S PROVE a \in S
  <2>1. /\ f[a - 1] \in Nat /\ g[a - 1] = IF a - 1 < b THEN f[a - 1] ELSE f[a - 1] + 1
        /\ f[a] = f[a - 1] + counts[a] /\ g[a] = g[a - 1] + more[a]
        /\ a \in 0 .. MaxRetries /\ counts[a] \in Nat
    BY <1>2, <1>3, <1>4, <1>6 DEF Sums
  <2>2. CASE a < b
    BY <2>1, <2>2
  <2>3. CASE a = b
    BY <2>1, <2>3
  <2>4. CASE a > b
    BY <2>1, <2>4
  <2> QED BY <2>2, <2>3, <2>4
<1>7. MaxRetries \in S
  <2> HIDE DEF S
  <2> QED BY <1>1, <1>5, <1>6, UpTo
<1> QED BY <1>2, <1>3, <1>7

Notices(f) == [key \in Keys |-> [source \in Sources |-> Total(f[key][source])]]

\* g has one notification of the source more than f.
OneMore(g, f, key, source, attempt) ==
  /\ f \in Counters /\ g \in Counters
  /\ g[key][source][attempt] = f[key][source][attempt] + 1
  /\ \A a \in 0 .. MaxRetries : a # attempt => g[key][source][a] = f[key][source][a]
  /\ \A k \in Keys, s \in Sources : k # key \/ s # source => g[k][s] = f[k][s]

LEMMA NoticesOfMore ==
  ASSUME NEW key \in Keys, NEW source \in Sources, NEW attempt \in 0 .. MaxRetries,
         NEW f, NEW g, OneMore(g, f, key, source, attempt)
  PROVE  /\ Notices(g) = [Notices(f) EXCEPT ![key][source] = @ + 1]
         /\ Notices(f) = [Notices(g) EXCEPT ![key][source] = @ - 1]
         /\ Notices(g)[key][source] > 0
<1> DEFINE few == f[key][source]
           many == g[key][source]
<1>1. /\ few \in Attempts /\ many \in Attempts /\ many[attempt] = few[attempt] + 1
      /\ \A a \in 0 .. MaxRetries : a # attempt => many[a] = few[a]
  BY DEF OneMore, Counters, Attempts
<1> HIDE DEF few, many
<1>2. Total(few) \in Nat /\ Total(many) = Total(few) + 1
  BY <1>1, TotalOfMore
<1> DEFINE N == Notices(f)
           M == Notices(g)
<1>3. \A k \in Keys, s \in Sources : N[k][s] = Total(f[k][s]) /\ M[k][s] = Total(g[k][s])
  BY DEF Notices
<1>4. N[key][source] \in Nat /\ M[key][source] = N[key][source] + 1
  BY <1>2, <1>3 DEF few, many
<1>5. \A k \in Keys, s \in Sources : k # key \/ s # source => M[k][s] = N[k][s]
  BY <1>3 DEF OneMore
<1>6. /\ N = [k \in Keys |-> [s \in Sources |-> N[k][s]]]
      /\ M = [k \in Keys |-> [s \in Sources |-> M[k][s]]]
  BY <1>3 DEF Notices
<1> HIDE DEF N, M
<1>7. M = [N EXCEPT ![key][source] = @ + 1]
  BY <1>4, <1>5, <1>6, SMTT(30)
<1>8. N = [M EXCEPT ![key][source] = @ - 1]
  BY <1>4, <1>5, <1>6
<1> QED BY <1>4, <1>7, <1>8 DEF N, M

LEMMA CountersMore ==
  ASSUME NEW f \in Counters, NEW key \in Keys, NEW source \in Sources, NEW attempt \in 0 .. MaxRetries,
         NEW g
  PROVE  /\ g = [f EXCEPT ![key][source][attempt] = @ + 1] => OneMore(g, f, key, source, attempt)
         /\ g = [f EXCEPT ![key][source][attempt] = @ - 1] /\ f[key][source][attempt] > 0 =>
              OneMore(f, g, key, source, attempt)
<1> DEFINE n == f[key][source][attempt]
<1>1. n \in Nat
  BY DEF Counters
<1>2. ASSUME NEW m \in Nat, g = [f EXCEPT ![key][source][attempt] = m]
      PROVE  /\ g \in Counters /\ g[key][source][attempt] = m
             /\ \A a \in 0 .. MaxRetries : a # attempt => g[key][source][a] = f[key][source][a]
             /\ \A k \in Keys, s \in Sources : k # key \/ s # source => g[k][s] = f[k][s]
  <2>1. Counts(g, f, key, source, attempt, m)
    BY <1>2 DEF Counts
  <2>2. /\ g \in Counters /\ g[key][source][attempt] = m
        /\ \A k \in Keys, s \in Sources : k # key \/ s # source => g[k][s] = f[k][s]
    BY <2>1, CounterChanges
  <2>3. \A a \in 0 .. MaxRetries : a # attempt => g[key][source][a] = f[key][source][a]
    BY <1>2 DEF Counters
  <2> QED BY <2>2, <2>3
<1>3. ASSUME g = [f EXCEPT ![key][source][attempt] = @ + 1] PROVE OneMore(g, f, key, source, attempt)
  <2>1. n + 1 \in Nat /\ g = [f EXCEPT ![key][source][attempt] = n + 1]
    BY <1>1, <1>3
  <2> QED BY <1>2, <2>1 DEF OneMore
<1>4. ASSUME g = [f EXCEPT ![key][source][attempt] = @ - 1], f[key][source][attempt] > 0
      PROVE  OneMore(f, g, key, source, attempt)
  <2>1. n - 1 \in Nat /\ g = [f EXCEPT ![key][source][attempt] = n - 1] /\ n = (n - 1) + 1
    BY <1>1, <1>4
  <2>2. /\ g \in Counters /\ g[key][source][attempt] = n - 1
        /\ \A a \in 0 .. MaxRetries : a # attempt => g[key][source][a] = f[key][source][a]
        /\ \A k \in Keys, s \in Sources : k # key \/ s # source => g[k][s] = f[k][s]
    BY <1>2, <2>1
  <2> QED BY <2>1, <2>2 DEF OneMore
<1> QED BY <1>3, <1>4

(***************************************************************************)
(* Then, every handler takes a step of PromptLifecycle, or none.           *)
(***************************************************************************)
LEMMA SameTracker ==
  ASSUME NEW a, TrackerOK(a), NEW b, TrackerOK(b), a.sources = b.sources
  PROVE  a = b
<1>1. a = [sources |-> a.sources, size |-> a.size] /\ b = [sources |-> b.sources, size |-> b.size]
  BY DEF TrackerOK, Tracker
<1>2. a.size = Cardinality(a.sources) /\ b.size = Cardinality(b.sources)
  BY DEF TrackerOK, TrackerConsistent
<1> QED BY <1>1, <1>2

\* PromptLifecycle's variables before and after a step, in the terms used here.
Shown == UNION { SourcePairs(r) : r \in AllRequests(ui) }

NoticesNow == [key \in Keys |-> [source \in Sources |-> Total(inflight[key][source])]]

LEMMA AbstractState ==
  /\ Shown = Held(ui) /\ Shown' = Held(ui')
  /\ NoticesNow = Notices(inflight) /\ NoticesNow' = Notices(inflight')
BY DEF Shown, Held, PairsOf, NoticesNow, Notices

LEMMA BlockRefines ==
  ASSUME AgreeInv, NEW key \in Keys, NEW source \in Sources, BlockRequest(key, source)
  PROVE  Lifecycle!BlockUndecided(key, source)
<1>1. Still(ui') /\ SameQuestions(ui', ui)
  BY BlockStill DEF AgreeInv
<1>2. ui'.pending = Record(ui.pending, key, source)
  <2>1. ui' = [ui EXCEPT !.pending = Record(ui.pending, key, source)]
    BY DEF BlockRequest
  <2>2. IsUi(ui)
    BY InvParts DEF AgreeInv, Sound, UiOK
  <2> QED BY <2>1, <2>2 DEF IsUi
<1>3. Shown' = Shown /\ ui'.refused = ui.refused
  BY <1>1, QuestionsStay, AbstractState DEF SameQuestions
<1>4. NoticesNow' = [NoticesNow EXCEPT ![key][source] = @ + 1]
  <2>1. 0 \in 0 .. MaxRetries /\ inflight \in Counters
    BY RoutingAssumption, InvParts DEF AgreeInv
  <2>2. OneMore(inflight', inflight, key, source, 0)
    BY <2>1, CountersMore DEF BlockRequest
  <2> QED BY <2>1, <2>2, NoticesOfMore, AbstractState
<1>5. /\ Lifecycle!InForce(key) = "ask" /\ MayRecord(ui.pending, key, source)
      /\ UNCHANGED <<policy, session>>
  BY DEF BlockRequest
<1> QED BY <1>2, <1>3, <1>4, <1>5
        DEF Lifecycle!BlockUndecided, Lifecycle!MayRecord, MayRecord, Lifecycle!Record, Record,
            Lifecycle!SourcesOf, SourcesOf, Lifecycle!IsPending, IsPending, Lifecycle!Cardinality, Cardinality,
            Shown, NoticesNow

(***************************************************************************)
(* What a handler that moves tabs or windows dismisses or loses.           *)
(***************************************************************************)
LEMMA MovesRefine ==
  ASSUME AgreeInv, Kept(ui'), UNCHANGED <<policy, session, inflight>>
  PROVE  \E gone, lost \in SUBSET Shown : Lifecycle!DismissSources(gone, lost)
<1>1. PICK gone, lost : Flows(ui, {}, ui', {}, gone, lost)
  BY DEF Kept, Keeps, Flow
<1> DEFINE H == Held(ui)
           X == Held(ui')
<1>2. /\ gone \subseteq H /\ lost \subseteq H
      /\ ui'.pending.sources = ui.pending.sources \ gone
      /\ ui'.refused = ui.refused \union lost
      /\ H \ (gone \union lost) \subseteq X /\ X \subseteq H
      /\ \A pair \in lost : FullIn(H, pair)
  <2>1. H \union {} = H /\ X \union {} = X
    OBVIOUS
  <2> HIDE DEF H, X
  <2> QED BY <1>1, <2>1 DEF Flows, H, X
<1>3. ui'.pending = Forget(ui.pending, gone)
  <2>1. TrackerOK(ui.pending) /\ TrackerOK(ui'.pending)
    BY DEF AgreeInv, Kept, Tidy
  <2>2. TrackerOK(Forget(ui.pending, gone)) /\ Forget(ui.pending, gone).sources = ui.pending.sources \ gone
    BY <2>1, ForgetOK DEF Forget
  <2> QED BY <1>2, <2>1, <2>2, SameTracker
<1> HIDE DEF H, X
<1>4. Shown = H /\ Shown' = X
  BY AbstractState DEF H, X
<1>5. \E again \in SUBSET (gone \union lost) : Shown' = (Shown \ (gone \union lost)) \union again
  <2> DEFINE again == X \intersect (gone \union lost)
  <2>1. X = (H \ (gone \union lost)) \union again /\ again \in SUBSET (gone \union lost)
    BY <1>2
  <2> QED BY <1>4, <2>1
<1>6. \A pair \in lost :
        \E others \in SUBSET { p \in Shown : p[1] = pair[1] } :
          <<pair[1], pair[2]>> \notin others /\ Cardinality(others) = MaxSourcesPerRequest
  <2> SUFFICES ASSUME NEW pair \in lost
               PROVE  \E others \in SUBSET { p \in Shown : p[1] = pair[1] } :
                        <<pair[1], pair[2]>> \notin others /\ Cardinality(others) = MaxSourcesPerRequest
    OBVIOUS
  <2>1. pair = <<pair[1], pair[2]>>
    BY <1>2, <1>4 DEF Shown, SourcePairs
  <2> QED BY <1>2, <1>4, <2>1 DEF FullIn
<1>7. \A pair \in lost : Lifecycle!IsFull(pair[1], pair[2])
  BY <1>6 DEF Lifecycle!IsFull, Lifecycle!PromptOf, Lifecycle!Cardinality, Cardinality, Shown
<1>8. Lifecycle!DismissSources(gone, lost)
  <2>1. gone \union lost \subseteq Shown
    BY <1>2, <1>4
  <2>2. NoticesNow' = NoticesNow
    BY DEF NoticesNow
  <2> QED BY <1>2, <1>3, <1>5, <1>7, <2>1, <2>2
          DEF Lifecycle!DismissSources, Lifecycle!Forget, Forget, Lifecycle!Cardinality, Cardinality,
              Shown, NoticesNow
<1> QED BY <1>2, <1>4, <1>8

LEMMA JoinRefines ==
  ASSUME AgreeInv, NEW key \in Keys, NEW source \in Sources, Lifecycle!Routed(key, source),
         UNCHANGED <<policy, session>>, Still(ui'),
         NEW gone, NEW lost, Joins(ui, Given(key, {source}), ui', gone, lost)
  PROVE  \/ Lifecycle!RefuseSource(key, source)
         \/ gone \in SUBSET (Shown \union {<<key, source>>}) /\ Lifecycle!JoinPrompt(key, source, gone)
<1> DEFINE H == Held(ui)
           X == Held(ui')
           pair == <<key, source>>
<1>1. Given(key, {source}) = {pair}
  BY DEF Given
<1>2. TrackerOK(ui.pending) /\ TrackerOK(ui'.pending)
  BY DEF AgreeInv, Still, Tidy
<1>3. Shown = H /\ Shown' = X
  BY AbstractState
<1> HIDE DEF H, X, pair
<1>4. /\ gone \subseteq H \union {pair} /\ lost \subseteq {pair}
      /\ ui'.pending.sources = ui.pending.sources \ gone
      /\ ui'.refused = ui.refused \union lost
      /\ (H \union {pair}) \ (gone \union lost) \subseteq X /\ X \subseteq H \union {pair}
      /\ lost # {} => gone = {}
      /\ lost = {pair} => X = H /\ FullIn(H, pair)
  <2>1. X \union {} = X
    OBVIOUS
  <2> QED BY <1>1, <2>1 DEF Joins, Flows, H, X
<1>5. CASE lost = {}
  <2>1. ui'.pending = Forget(ui.pending, gone)
    <3>1. TrackerOK(Forget(ui.pending, gone)) /\ Forget(ui.pending, gone).sources = ui.pending.sources \ gone
      BY <1>2, ForgetOK DEF Forget
    <3> QED BY <1>2, <1>4, <3>1, SameTracker
  <2>2. \E again \in SUBSET gone : Shown' = ((Shown \union {pair}) \ gone) \union again
    <3> DEFINE again == X \intersect gone
    <3>1. X = ((H \union {pair}) \ gone) \union again /\ again \in SUBSET gone
      BY <1>4, <1>5
    <3> QED BY <1>3, <3>1
  <2>3. gone \subseteq Shown \union {pair} /\ ui'.refused = ui.refused
    BY <1>3, <1>4, <1>5
  <2>4. Lifecycle!Dismissing(ui.pending, Shown \union {pair}, gone)
    BY <2>1, <2>2, <2>3
       DEF Lifecycle!Dismissing, Lifecycle!Forget, Forget, Lifecycle!Cardinality, Cardinality, Shown
  <2>5. Lifecycle!JoinPrompt(key, source, gone)
    BY <2>3, <2>4 DEF Lifecycle!JoinPrompt, Shown, pair
  <2> QED BY <2>3, <2>5 DEF pair
<1>6. CASE lost # {}
  <2>1. lost = {pair} /\ gone = {}
    BY <1>4, <1>6
  <2>2. ui'.pending = ui.pending
    <3>1. ui'.pending.sources = ui.pending.sources
      BY <1>4, <2>1
    <3> QED BY <1>2, <3>1, SameTracker
  <2>3. Shown' = Shown /\ ui'.refused = ui.refused \union {pair}
    BY <1>3, <1>4, <2>1
  <2>4. \E others \in SUBSET { p \in Shown : p[1] = key } :
          pair \notin others /\ Cardinality(others) = MaxSourcesPerRequest
    <3>1. pair[1] = key
      BY DEF pair
    <3> QED BY <1>3, <1>4, <2>1, <3>1 DEF FullIn
  <2>5. Lifecycle!IsFull(key, source)
    BY <2>4 DEF Lifecycle!IsFull, Lifecycle!PromptOf, Lifecycle!Cardinality, Cardinality, Shown, pair
  <2>6. Lifecycle!RefuseSource(key, source)
    BY <2>2, <2>3, <2>5 DEF Lifecycle!RefuseSource, Shown, pair
  <2> QED BY <2>6
<1> QED BY <1>5, <1>6

LEMMA RouteRefines ==
  ASSUME AgreeInv, NEW key \in Keys, NEW source \in Sources, NEW attempt \in 0 .. MaxRetries,
         Route(key, source, attempt)
  PROVE  \/ Lifecycle!DropStaleNotice(key, source) \/ Lifecycle!GiveUp(key, source)
         \/ /\ NoticesNow[key][source] > 0
            /\ \/ Lifecycle!RefuseSource(key, source)
               \/ \E gone \in SUBSET (Shown \union {<<key, source>>}) : Lifecycle!JoinPrompt(key, source, gone)
         \/ UNCHANGED Lifecycle!lifecycleVars
<1> DEFINE taken == [inflight EXCEPT ![key][source][attempt] = @ - 1]
           known == IsPending(ui.pending, key, source)
           bare == WithoutDeadRoute(key)
<1>1. /\ inflight[key][source][attempt] > 0 /\ inflight \in Counters
      /\ UNCHANGED <<policy, session>>
  BY InvParts DEF Route, AgreeInv
<1>2. \/ /\ ~ (known /\ AsksNow(key)) /\ inflight' = taken
         /\ ui' = [ui EXCEPT !.pending = IF known THEN RemoveKey(@, key) ELSE @]
      \/ /\ known /\ AsksNow(key) /\ inflight' = taken
         /\ \E order \in CandidateOrders(source) : order # << >> /\ ui' = RouteTo(key, source, order)
      \/ attempt < MaxRetries /\ ui' = bare /\ inflight' = Retried(taken, key, source, attempt)
      \/ known /\ inflight' = taken /\ ui' = [bare EXCEPT !.pending = RemoveSource(@, key, source)]
  BY DEF Route
<1>3. IsUi(ui) /\ RoutingInv /\ TabsOK /\ Tidy(ui, {})
  BY InvParts DEF AgreeInv, Sound, UiOK
<1>4. OneMore(inflight, taken, key, source, attempt)
  BY <1>1, CountersMore
<1>5. NoticesNow[key][source] > 0
  BY <1>4, NoticesOfMore, AbstractState
<1>6. ASSUME inflight' = taken PROVE Lifecycle!TakeNotice(key, source)
  <2>1. NoticesNow' = [NoticesNow EXCEPT ![key][source] = @ - 1]
    BY <1>4, <1>6, NoticesOfMore, AbstractState
  <2> QED BY <1>5, <2>1 DEF Lifecycle!TakeNotice, NoticesNow
<1>7. SameRequests(bare, ui) /\ bare.pending = ui.pending
  BY <1>3, BareStill
<1> HIDE DEF bare, taken
<1>8. CASE /\ ~ (known /\ AsksNow(key)) /\ inflight' = taken
           /\ ui' = [ui EXCEPT !.pending = IF known THEN RemoveKey(@, key) ELSE @]
  <2> DEFINE pending == IF known THEN RemoveKey(ui.pending, key) ELSE ui.pending
             x == ui'
  <2>1. x = [ui EXCEPT !.pending = pending]
    BY <1>8
  <2> HIDE DEF pending, x
  <2>2. SameQuestions(x, ui) /\ x.pending = pending
    BY <1>3, <2>1 DEF IsUi, SameQuestions
  <2>3. Held(x) = Held(ui) /\ x.refused = ui.refused
    BY <2>2, QuestionsStay DEF SameQuestions
  <2>4. Shown' = Shown /\ ui'.refused = ui.refused /\ ui'.pending = pending
    BY <2>2, <2>3, AbstractState DEF x
  <2>5. known => Lifecycle!InForceOf(policy, [session EXCEPT ![key] = Lifecycle!Undecided], key) # "ask"
    BY <1>8 DEF AsksNow
  <2>6. Lifecycle!DropStaleNotice(key, source)
    BY <1>1, <1>6, <1>8, <2>4, <2>5
       DEF Lifecycle!DropStaleNotice, Lifecycle!IsPending, IsPending, Lifecycle!RemoveKey, RemoveKey,
           Lifecycle!SourcesOf, SourcesOf, Lifecycle!Cardinality, Cardinality, Shown, pending
  <2> QED BY <2>6
<1>9. CASE /\ known /\ AsksNow(key) /\ inflight' = taken
           /\ \E order \in CandidateOrders(source) : order # << >> /\ ui' = RouteTo(key, source, order)
  <2>1. Still(ui') /\ \E gone, lost : Joins(ui, Given(key, {source}), ui', gone, lost)
    BY <1>3, <1>9, RouteToStill
  <2>2. PICK gone, lost : Joins(ui, Given(key, {source}), ui', gone, lost)
    BY <2>1
  <2>3. Lifecycle!Routed(key, source)
    BY <1>6, <1>9 DEF Lifecycle!Routed, Lifecycle!IsPending, IsPending, AsksNow
  <2> QED BY <1>1, <1>5, <2>1, <2>2, <2>3, JoinRefines
<1>10. CASE attempt < MaxRetries /\ ui' = bare /\ inflight' = Retried(taken, key, source, attempt)
  <2> DEFINE later == attempt + 1
             again == inflight'
  <2>1. later \in 0 .. MaxRetries /\ taken \in Counters
    <3>1. attempt + 1 \in 0 .. MaxRetries
      BY <1>10, RoutingAssumption
    <3> QED BY <1>4, <3>1 DEF OneMore
  <2>2. again = [taken EXCEPT ![key][source][later] = @ + 1]
    BY <1>10 DEF Retried
  <2> HIDE DEF later, again
  <2>3. OneMore(again, taken, key, source, later)
    BY <2>1, <2>2, CountersMore
  <2>4. Notices(again) = Notices(inflight)
    BY <1>4, <2>1, <2>3, NoticesOfMore
  <2>5. NoticesNow' = NoticesNow
    BY <2>4, AbstractState DEF again
  <2>6. ui'.pending = ui.pending /\ ui'.refused = ui.refused /\ Held(ui') = Held(ui)
    <3>1. \A w : RequestsOf(bare, w) = RequestsOf(ui, w)
      BY <1>7 DEF SameRequests, RequestsOf
    <3> QED BY <1>7, <1>10, <3>1 DEF SameRequests, Held, AllRequests
  <2>7. Shown' = Shown
    BY <2>6, AbstractState
  <2>8. UNCHANGED Lifecycle!lifecycleVars
    BY <1>1, <2>5, <2>6, <2>7 DEF Lifecycle!lifecycleVars, Shown, NoticesNow
  <2> QED BY <2>8
<1>11. CASE known /\ inflight' = taken /\ ui' = [bare EXCEPT !.pending = RemoveSource(@, key, source)]
  <2> DEFINE pending == RemoveSource(ui.pending, key, source)
             x == ui'
  <2>1. x = [bare EXCEPT !.pending = pending]
    BY <1>7, <1>11
  <2> HIDE DEF pending, x
  <2>2. x.pending = pending /\ x.refused = ui.refused /\ Held(x) = Held(ui)
    <3>1. SameRequests(x, ui) /\ x.pending = pending
      BY <1>7, <2>1 DEF SameRequests, IsUi
    <3>2. \A w : RequestsOf(x, w) = RequestsOf(ui, w)
      BY <3>1 DEF SameRequests, RequestsOf
    <3> QED BY <3>1, <3>2 DEF SameRequests, Held, AllRequests
  <2>3. Shown' = Shown /\ ui'.refused = ui.refused /\ ui'.pending = RemoveSource(ui.pending, key, source)
    BY <2>2, AbstractState DEF x, pending
  <2>4. Lifecycle!GiveUp(key, source)
    BY <1>1, <1>6, <1>11, <2>3
       DEF Lifecycle!GiveUp, Lifecycle!IsPending, IsPending, Lifecycle!RemoveSource, RemoveSource, Shown
  <2> QED BY <2>4
<1> QED BY <1>2, <1>8, <1>9, <1>10, <1>11

(***************************************************************************)
(* An answer takes its prompt away; only what a stranded prompt of the key *)
(* holds is left.                                                          *)
(***************************************************************************)
LEMMA ResolveRefines ==
  ASSUME AgreeInv, NEW w \in Windows, NEW decision \in {"allow", "block"}, NEW lasting \in BOOLEAN,
         Resolve(w, decision, lasting)
  PROVE  \E key \in { pair[1] : pair \in Shown } :
           \E left \in SUBSET { pair \in Shown : pair[1] = key }, gone \in SUBSET Shown :
             Lifecycle!Decide(key, lasting, left, gone)
<1> DEFINE r == ui.active[w]
           key == r.key
           of == { pair \in Shown : pair[1] = key }
           x == ui'
           H == Held(ui)
<1>1. RoutingInv /\ Tidy(ui, {}) /\ r # NoRequest
  BY DEF AgreeInv, Resolve
<1>2. PICK y : Answered(y, w, lasting) /\ Sound(y, status, InFlight, {w}) /\ x = ShowNext(y, w)
  BY <1>1, ResolveParts
<1>3. /\ Still(y) /\ y.refused = ui.refused /\ UiOK(y)
      /\ y.pending = Lifecycle!Resolved(key, lasting)
      /\ RequestsOf(y, w) = RequestsOf(ui, w) \ {r}
      /\ \A o \in Windows \ {w} : RequestsOf(y, o) = RequestsOf(ui, o)
  BY <1>1, <1>2, AnsweredStill DEF Sound, Answered
<1>4. r \in RequestsOf(ui, w) /\ r \in AllRequests(ui)
  BY <1>1 DEF RequestsOf, AllRequests
<1>5. PICK s : s \in r.sources
  <2>1. Few(r.sources)
    BY <1>1, <1>4 DEF Tidy, Tidied, Askable
  <2> QED BY <2>1 DEF Few
<1>6. <<key, s>> \in Shown /\ <<key, s>>[1] = key
  <2>1. <<key, s>> \in SourcePairs(r)
    BY <1>5 DEF SourcePairs
  <2> QED BY <1>4, <2>1 DEF Shown
<1> DEFINE Y == Held(y)
           left == Y \intersect of
<1>7. Y \subseteq Shown /\ Shown \ of \subseteq Y
  <2>1. \A o \in Windows : RequestsOf(y, o) \subseteq RequestsOf(ui, o)
    BY <1>3
  <2>2. Y \subseteq Shown
    BY <2>1 DEF Held, PairsOf, AllRequests, Shown
  <2>3. ASSUME NEW pair \in Shown, pair[1] # key PROVE pair \in Y
    <3>1. PICK o \in Windows : \E q \in RequestsOf(ui, o) : pair \in SourcePairs(q)
      BY DEF Shown, AllRequests
    <3>2. PICK q \in RequestsOf(ui, o) : pair \in SourcePairs(q)
      BY <3>1
    <3>3. q # r
      BY <2>3, <3>2 DEF SourcePairs
    <3>4. q \in RequestsOf(y, o)
      BY <1>3, <3>3
    <3> QED BY <3>2, <3>4 DEF Held, PairsOf, AllRequests
  <2> QED BY <2>2, <2>3
<1> HIDE DEF x, H, Y
<1>8. PICK gone : Flows(y, {}, x, {}, gone, {})
  BY <1>2, <1>3, ShowNextKept DEF Still
<1>9. Tidy(x, {})
  BY <1>2, <1>3, ShowNextKept DEF Still
<1> DEFINE X == Held(x)
<1>10. /\ gone \subseteq Y /\ x.pending.sources = y.pending.sources \ gone
       /\ x.refused = ui.refused /\ Y \ gone \subseteq X /\ X \subseteq Y
  <2>1. Y \union {} = Y /\ X \union {} = X /\ y.refused \union {} = y.refused /\ gone \union {} = gone
    OBVIOUS
  <2> HIDE DEF X
  <2> QED BY <1>3, <1>8, <2>1 DEF Flows, Y, X
<1>11. x.pending = Forget(y.pending, gone)
  <2>1. TrackerOK(y.pending) /\ TrackerOK(x.pending)
    BY <1>3, <1>9 DEF Still, Tidy
  <2>2. TrackerOK(Forget(y.pending, gone)) /\ Forget(y.pending, gone).sources = y.pending.sources \ gone
    BY <2>1, ForgetOK DEF Forget
  <2> QED BY <1>10, <2>1, <2>2, SameTracker
<1>12. Shown' = X
  BY AbstractState DEF X, x
<1> HIDE DEF X, r, of
<1>13. \E again \in SUBSET gone : Shown' = (((Shown \ of) \union left) \ gone) \union again
  <2> DEFINE again == X \intersect gone
  <2>1. (Shown \ of) \union left = Y
    BY <1>7
  <2>2. X = (Y \ gone) \union again /\ again \in SUBSET gone
    BY <1>10
  <2> HIDE DEF again, left
  <2> QED BY <1>12, <2>1, <2>2
<1>14. gone \subseteq (Shown \ of) \union left
  BY <1>7, <1>10
<1>15. left \subseteq of
  OBVIOUS
<1> HIDE DEF left
<1>16. Lifecycle!PromptOf(key) = of /\ Lifecycle!Prompted(key)
  <2>1. <<key, s>> \in of
    BY <1>6 DEF of
  <2> QED BY <2>1 DEF Lifecycle!PromptOf, Lifecycle!Prompted, Shown, of
<1>17. Lifecycle!Dismissing(Lifecycle!Resolved(key, lasting), (Shown \ of) \union left, gone)
  <2> DEFINE tracker == Lifecycle!Resolved(key, lasting)
  <2>1. tracker = y.pending
    BY <1>3 DEF r
  <2> HIDE DEF tracker
  <2>2. ui'.pending = Forget(tracker, gone)
    BY <1>11, <2>1 DEF x
  <2>3. Lifecycle!Dismissing(tracker, (Shown \ of) \union left, gone)
    BY <1>13, <1>14, <2>2
       DEF Lifecycle!Dismissing, Lifecycle!Forget, Forget, Lifecycle!Cardinality, Cardinality, Shown
  <2> QED BY <2>3 DEF tracker
<1>18. /\ \E d \in Lifecycle!Decisions : IF lasting THEN Lifecycle!ResolvePersistently(key, d)
                                                     ELSE Lifecycle!ResolveForSession(key, d)
       /\ inflight' = inflight
  <2>1. decision \in Lifecycle!Decisions
    BY DEF Lifecycle!Decisions
  <2> QED BY <2>1 DEF Resolve, r
<1>19. ui'.refused = ui.refused /\ NoticesNow' = NoticesNow
  BY <1>10, <1>18 DEF x, NoticesNow
<1>20. Lifecycle!Decide(key, lasting, left, gone)
  BY <1>15, <1>16, <1>17, <1>18, <1>19 DEF Lifecycle!Decide, Shown, NoticesNow
<1>21. key \in { pair[1] : pair \in Shown }
  BY <1>6
<1>22. gone \in SUBSET Shown /\ left \in SUBSET { pair \in Shown : pair[1] = key }
  BY <1>7, <1>10, <1>15 DEF of
<1> HIDE DEF key
<1> QED BY <1>20, <1>21, <1>22

LEMMA SaveSettingsRefines ==
  ASSUME AgreeInv, SaveSettings
  PROVE  Lifecycle!SaveSettings
<1>1. \A w \in Windows : RequestsOf(ui', w) = {}
  BY SaveSettingsStill DEF AgreeInv
<1>2. Shown' = {}
  BY <1>1 DEF Shown, AllRequests
<1>3. ui'.pending = EmptyTracker /\ ui'.refused = ui.refused
  <2>1. IsUi(ui)
    BY InvParts DEF AgreeInv, Sound, UiOK
  <2> DEFINE active == [w \in Windows |-> IF w \in Registered THEN NoRequest ELSE ui.active[w]]
             queue == [w \in Windows |-> IF w \in Registered THEN {} ELSE ui.queue[w]]
             x == ui'
  <2>2. x = [ui EXCEPT !.pending = EmptyTracker, !.routes = << >>, !.active = active, !.queue = queue]
    BY DEF SaveSettings
  <2> HIDE DEF active, queue, x
  <2>3. x.pending = EmptyTracker /\ x.refused = ui.refused
    BY <2>1, <2>2 DEF IsUi
  <2> QED BY <2>3 DEF x
<1>4. NoticesNow' = NoticesNow
  BY DEF SaveSettings, NoticesNow
<1>5. PICK updated \in Policies :
        /\ policy' = updated
        /\ session' = IF updated.enabled THEN session ELSE [key \in Keys |-> Lifecycle!Undecided]
  BY DEF SaveSettings
<1>6. Lifecycle!ApplySettings(updated)
  BY <1>3, <1>5 DEF Lifecycle!ApplySettings, Lifecycle!EmptyTracker, EmptyTracker
<1> QED BY <1>2, <1>3, <1>4, <1>6 DEF Lifecycle!SaveSettings, Shown, NoticesNow

LEMMA InitRefines ==
  ASSUME Init
  PROVE  Lifecycle!LifecycleInit
<1>1. /\ ui.pending = EmptyTracker /\ ui.refused = {}
      /\ \A w \in Windows : ui.active[w] = NoRequest /\ ui.queue[w] = {}
  BY DEF Init, UiInit
<1>2. Shown = {}
  <2>1. \A w \in Windows : RequestsOf(ui, w) = {}
    BY <1>1 DEF RequestsOf
  <2> QED BY <2>1 DEF Shown, AllRequests
<1>3. NoticesNow = [key \in Keys |-> [source \in Sources |-> 0]]
  <2>1. \A key \in Keys, source \in Sources : inflight[key][source] = [a \in 0 .. MaxRetries |-> 0]
    BY DEF Init
  <2>2. \A key \in Keys, source \in Sources : Total(inflight[key][source]) = 0
    BY <2>1, TotalOfNone
  <2> QED BY <2>2 DEF NoticesNow
<1> QED BY <1>1, <1>2, <1>3
        DEF Init, Lifecycle!LifecycleInit, Lifecycle!NoNotices, Lifecycle!EmptyTracker, EmptyTracker,
            Shown, NoticesNow

LEMMA StepRefines ==
  ASSUME AgreeInv, Next
  PROVE  Lifecycle!LifecycleNext \/ UNCHANGED Lifecycle!lifecycleVars
<1>1. ASSUME \E gone, lost \in SUBSET Shown : Lifecycle!DismissSources(gone, lost)
      PROVE  Lifecycle!LifecycleNext
  BY <1>1 DEF Lifecycle!LifecycleNext, Shown
<1>2. RoutingInv /\ TabsOK /\ Tidy(ui, {})
  BY DEF AgreeInv
<1>3. ASSUME NEW key \in Keys, NEW source \in Sources, BlockRequest(key, source)
      PROVE  Lifecycle!LifecycleNext
  BY <1>3, BlockRefines DEF Lifecycle!LifecycleNext
<1>4. ASSUME NEW key \in Keys, NEW source \in Sources, Deliver(key, source)
      PROVE  Lifecycle!LifecycleNext \/ UNCHANGED Lifecycle!lifecycleVars
  <2>1. \/ Lifecycle!DropStaleNotice(key, source) \/ Lifecycle!GiveUp(key, source)
        \/ /\ NoticesNow[key][source] > 0
           /\ \/ Lifecycle!RefuseSource(key, source)
              \/ \E gone \in SUBSET (Shown \union {<<key, source>>}) : Lifecycle!JoinPrompt(key, source, gone)
        \/ UNCHANGED Lifecycle!lifecycleVars
    BY <1>4, RouteRefines DEF Deliver
  <2> QED BY <2>1 DEF Lifecycle!LifecycleNext, Shown, NoticesNow
<1>5. ASSUME Kept(ui'), UNCHANGED <<policy, session, inflight>>
      PROVE  Lifecycle!LifecycleNext
  BY <1>1, <1>5, MovesRefine
<1>6. ASSUME NEW w \in Windows, NEW v \in Views,
             \/ OpenWindow(w, v) \/ OpenTab(w, v) \/ SwitchTab(w, v)
             \/ CloseTab(w, v) \/ FinishClosingTab(w, v)
      PROVE  Lifecycle!LifecycleNext
  <2>1. Kept(ui')
    BY <1>2, <1>6, TabMovesKeep
  <2>2. UNCHANGED <<policy, session, inflight>>
    BY <1>6 DEF OpenWindow, OpenTab, SwitchTab, CloseTab, FinishClosingTab, Unmoved
  <2> QED BY <1>5, <2>1, <2>2
<1>7. ASSUME NEW w \in Windows, CloseWindow(w) PROVE Lifecycle!LifecycleNext
  <2>1. Kept(ui')
    BY <1>2, <1>7, CloseWindowKept
  <2>2. UNCHANGED <<policy, session, inflight>>
    BY <1>7 DEF CloseWindow, Unmoved
  <2> QED BY <1>5, <2>1, <2>2
<1>8. ASSUME NEW w \in Windows, NEW decision \in {"allow", "block"}, NEW lasting \in BOOLEAN,
             Resolve(w, decision, lasting)
      PROVE  Lifecycle!LifecycleNext
  <2>1. \E key \in { pair[1] : pair \in Shown } :
          \E left \in SUBSET { pair \in Shown : pair[1] = key }, gone \in SUBSET Shown :
            Lifecycle!Decide(key, lasting, left, gone)
    BY <1>8, ResolveRefines
  <2> QED BY <2>1 DEF Lifecycle!LifecycleNext, Lifecycle!PromptOf, Shown
<1>9. ASSUME NEW v \in Views, LoadStarted(v) PROVE Lifecycle!LifecycleNext
  <2>1. Kept(ui')
    BY <1>2, <1>9, LoadStartedKept
  <2>2. UNCHANGED <<policy, session, inflight>>
    BY <1>9 DEF LoadStarted, Unmoved
  <2> QED BY <1>5, <2>1, <2>2
<1>10. ASSUME NEW v \in Views, DeleteView(v) \/ \E page \in Urls : Commit(v, page)
       PROVE  UNCHANGED Lifecycle!lifecycleVars
  <2>1. UNCHANGED <<policy, session, inflight, ui>>
    BY <1>10 DEF DeleteView, Commit, Unmoved
  <2> QED BY <2>1 DEF Lifecycle!lifecycleVars
<1>11. CASE SaveSettings
  BY <1>11, SaveSettingsRefines DEF Lifecycle!LifecycleNext
<1> QED BY <1>3, <1>4, <1>6, <1>7, <1>8, <1>9, <1>10, <1>11 DEF Next

(***************************************************************************)
(* All windows, controllers, routes and retry timers together are the one  *)
(* pipeline of PromptLifecycle: a handler records, announces, prompts,     *)
(* decides and dismisses as it promises, or changes nothing it shows.      *)
(***************************************************************************)
THEOREM WindowsImplementLifecycle == Spec => ImplementsLifecycle
<1>1. Init => Lifecycle!LifecycleInit
  BY InitRefines
<1>2. AgreeInv /\ [Next]_vars => [Lifecycle!LifecycleNext]_Lifecycle!lifecycleVars
  <2>1. ASSUME AgreeInv, Next PROVE Lifecycle!LifecycleNext \/ UNCHANGED Lifecycle!lifecycleVars
    BY <2>1, StepRefines
  <2>2. ASSUME UNCHANGED vars PROVE UNCHANGED Lifecycle!lifecycleVars
    BY <2>2 DEF vars, Lifecycle!lifecycleVars
  <2> QED BY <2>1, <2>2
<1> QED BY <1>1, <1>2, AgreeInvariance, PTL DEF Spec, ImplementsLifecycle, Lifecycle!LifecycleSpec

=============================================================================
