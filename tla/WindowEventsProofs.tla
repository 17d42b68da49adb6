-------------------------- MODULE WindowEventsProofs --------------------------
(***************************************************************************)
(* Theorems about WindowEvents, for every set of windows and dialogs and    *)
(* every bound: what is pending when an application polls late is sound,    *)
(* and a visible window that needs drawing is asked to draw.  The inductive *)
(* invariant Sound speaks of what the queue and the window list hold; only  *)
(* the order of the two activation events (Ordered) is about positions.     *)
(***************************************************************************)
EXTENDS WindowEvents, SubsequenceProofs, SequenceTheorems

---------------------------------------------------------------------------
(* The invariant. *)

\* What the manager can name without naming a closed window.
Nameable(m, w) == w \in Windows /\ (PairedDialogs => w \in Entries(m.list))

Holds(m, w) == Event("update", w) \in Entries(m.queue)

\* Every window that is named is open.
NamesOpen(m) ==
  LET known == Entries(m.list) \cup {None}
  IN /\ \A e \in Entries(m.queue) : e.message \in known
     /\ m.flushed \subseteq known
     /\ \A p \in Polarity : m.slot[p] \in known
     /\ m.front \in known

\* What holds between any two steps of a trap, but for the windows of X, which
\* the step is about to ask to draw.
Coherent(m, X) ==
  /\ m \in WindowManager
  /\ Distinct(m.list)
  /\ m.visible \subseteq Entries(m.list)
  /\ Distinct(m.queue)
  /\ \A e \in Entries(m.queue) : e.what \in Polarity => e.message = m.slot[e.what]
  /\ \A w \in m.flushed : ~Holds(m, w)
  /\ PairedDialogs => NamesOpen(m)
  /\ \A w \in (m.visible \cap m.dirty) \ X :
                     Holds(m, w) \/ w \in m.flushed \/ w \in m.told \/ w \in m.missed

\* The window that loses activation hears of it first.
Ordered(q) ==
  \A i, j \in DOMAIN q : q[i].what = "deactivate" /\ q[j].what = "activate" => i < j

Sound(m, X) == Coherent(m, X) /\ Ordered(m.queue)

WindowsInv ==
  /\ Sound(wm, {})
  /\ remembered \in Seq(Windows \cup {None})
  /\ entered \subseteq Dialogs
  /\ PairedDialogs => Entries(remembered) \subseteq Open(wm) \cup {None}

---------------------------------------------------------------------------
(* The operators of the manager, through what its sequences hold. *)

\* A record of the manager has the fields' types.
LEMMA ManagerFields ==
  ASSUME NEW m \in WindowManager
  PROVE  /\ m.list \in Seq(Windows) /\ m.visible \subseteq Windows /\ m.dirty \subseteq Windows
         /\ m.front \in Windows \cup {None} /\ m.queue \in Seq(Events)
         /\ m.flushed \subseteq Windows /\ m.slot \in [Polarity -> Windows \cup {None}]
         /\ m.told \subseteq Windows /\ m.missed \subseteq Windows
BY DEF WindowManager

\* The open windows are what WindowList holds, and a window is marked when the queue holds
\* its update event.
LEMMA OpenIsList ==
  ASSUME NEW m \in WindowManager
  PROVE  /\ Open(m) = Entries(m.list)
         /\ \A w : IsOpen(m, w) <=> w \in Entries(m.list)
         /\ \A w : Marked(m, w) <=> Holds(m, w)
         /\ Entries(m.list) \subseteq Windows
         /\ Entries(m.queue) \subseteq Events
<1>1. m.list \in Seq(Windows) /\ m.queue \in Seq(Events)
  BY ManagerFields
<1>2. DOMAIN m.list = 1..Len(m.list) /\ DOMAIN m.queue = 1..Len(m.queue)
  BY <1>1
<1>3. Entries(m.list) \subseteq Windows /\ Entries(m.queue) \subseteq Events
  BY <1>1 DEF Entries
<1>4. \A w : IsOpen(m, w) <=> w \in Entries(m.list)
  BY <1>2 DEF IsOpen, Contains, Entries
<1>5. \A w : Marked(m, w) <=> Holds(m, w)
  BY <1>2 DEF Marked, Holds, Contains, Entries
<1> QED BY <1>3, <1>4, <1>5 DEF Open

\* The fields of an event.
LEMMA EventFields ==
  ASSUME NEW what \in Kinds, NEW w \in Windows
  PROVE  /\ Event(what, w) \in Events
         /\ Event(what, w).what = what /\ Event(what, w).message = w
BY DEF Event, Events

\* An event is its kind and its window.
LEMMA EventsEqual ==
  ASSUME NEW e \in Events, NEW f \in Events, e.what = f.what, e.message = f.message
  PROVE  e = f
BY DEF Events

\* The update event of a window is the update that names it.
LEMMA UpdateOf ==
  ASSUME NEW e \in Events, e.what = "update"
  PROVE  e = Event("update", e.message)
BY DEF Events, Event

\* What is left of an ordered queue is ordered.
LEMMA OrderedLeft ==
  ASSUME NEW q \in Seq(Events), Ordered(q), NEW r, NEW h, LeftBy(r, q, h),
         r \in Seq(Events)
  PROVE  Ordered(r)
<1>1. DOMAIN r = 1..Len(r) /\ DOMAIN q = 1..Len(q) /\ Len(r) \in Nat /\ Len(q) \in Nat
  OBVIOUS
<1>2. SUFFICES ASSUME NEW i \in DOMAIN r, NEW j \in DOMAIN r,
                      r[i].what = "deactivate", r[j].what = "activate", ~ (i < j)
               PROVE  FALSE
  BY DEF Ordered
<1>3. h[i] \in DOMAIN q /\ h[j] \in DOMAIN q /\ r[i] = q[h[i]] /\ r[j] = q[h[j]]
  BY DEF LeftBy
<1>4. h[i] < h[j]
  BY <1>2, <1>3 DEF Ordered
<1>5. i = j \/ j < i
  BY <1>1, <1>2
<1>6. j < i => h[j] < h[i]
  BY DEF LeftBy
<1> QED BY <1>1, <1>3, <1>4, <1>5, <1>6

\* Updates behind an ordered queue leave it ordered.
LEMMA OrderedBefore ==
  ASSUME NEW q \in Seq(Events), Ordered(q), NEW r \in Seq(Events), NEW n \in Nat,
         Len(r) = Len(q) + n,
         \A i \in 1..Len(q) : r[i] = q[i],
         \A i \in 1..n : r[Len(q) + i].what = "update"
  PROVE  Ordered(r)
<1>1. SUFFICES ASSUME NEW i \in 1..Len(r), NEW j \in 1..Len(r),
                      r[i].what = "deactivate", r[j].what = "activate"
               PROVE  i < j
  BY DEF Ordered
<1>2. \A k \in 1..Len(r) : k \in 1..Len(q) \/ r[k].what = "update"
  <2> TAKE k \in 1..Len(r)
  <2>1. k \notin 1..Len(q) => (k - Len(q)) \in 1..n /\ k = Len(q) + (k - Len(q))
    OBVIOUS
  <2> QED BY <2>1
<1>3. i \in 1..Len(q) /\ j \in 1..Len(q)
  BY <1>1, <1>2
<1>4. DOMAIN q = 1..Len(q)
  OBVIOUS
<1> QED BY <1>1, <1>3, <1>4 DEF Ordered

\* The activate event goes behind everything: whatever the order was, it is right again.
LEMMA OrderedByActivate ==
  ASSUME NEW q \in Seq(Events), NEW w \in Windows
  PROVE  Ordered(Append(Among(q, {e \in Events : e.what # "activate"}), Event("activate", w)))
<1> DEFINE T == {e \in Events : e.what # "activate"}
<1>1. PICK r : r = Among(q, T)
  OBVIOUS
<1>2. r \in Seq(Events) /\ Entries(r) \subseteq T
  BY <1>1, AmongProperties
<1>3. PICK s : s = Append(r, Event("activate", w))
  OBVIOUS
<1>4. /\ Len(r) \in Nat /\ DOMAIN s = 1..(Len(r) + 1)
      /\ \A i \in 1..Len(r) : s[i] = r[i]
      /\ s[Len(r) + 1] = Event("activate", w)
      /\ DOMAIN r = 1..Len(r)
  BY <1>2, <1>3
<1>5. \A i \in 1..Len(r) : s[i].what # "activate"
  BY <1>2, <1>4 DEF Entries
<1>6. Event("activate", w).what = "activate"
  BY DEF Event
<1>7. Ordered(s)
  <2> SUFFICES ASSUME NEW i \in 1..(Len(r) + 1), NEW j \in 1..(Len(r) + 1),
                      s[i].what = "deactivate", s[j].what = "activate"
               PROVE  i < j
    BY <1>4 DEF Ordered
  <2>1. j = Len(r) + 1
    BY <1>4, <1>5
  <2>2. i # Len(r) + 1
    BY <1>4, <1>6
  <2> QED BY <1>4, <2>1, <2>2
<1> QED BY <1>1, <1>3, <1>7

\* An entry slipped in at a place is in the sequence once, beside what was there.
LEMMA InsertAtProperties ==
  ASSUME NEW S, NEW s \in Seq(S), NEW w \in S, NEW k \in 1..(Len(s) + 1)
  PROVE  /\ InsertAt(s, k, w) \in Seq(S)
         /\ Entries(InsertAt(s, k, w)) = Entries(s) \cup {w}
         /\ Distinct(s) /\ w \notin Entries(s) => Distinct(InsertAt(s, k, w))
<1>1. PICK r : r = InsertAt(s, k, w)
  OBVIOUS
<1>2. /\ Len(s) \in Nat /\ k \in Nat /\ DOMAIN s = 1..Len(s)
      /\ \A i \in 1..Len(s) : s[i] \in S
  OBVIOUS
<1>3. PICK a, b : a = SubSeq(s, 1, k - 1) /\ b = SubSeq(s, k, Len(s))
  OBVIOUS
<1>4. /\ a \in Seq(S) /\ Len(a) = k - 1 /\ \A i \in 1..(k - 1) : a[i] = s[i]
  BY <1>2, <1>3
<1>5. /\ b \in Seq(S) /\ Len(b) = Len(s) - k + 1
      /\ \A i \in 1..(Len(s) - k + 1) : b[i] = s[k + i - 1]
  BY <1>2, <1>3
<1>6. r = (a \o <<w>>) \o b
  BY <1>1, <1>3 DEF InsertAt
<1>7. PICK c : c = a \o <<w>>
  OBVIOUS
<1>8. /\ c \in Seq(S) /\ Len(c) = k
      /\ \A i \in 1..(k - 1) : c[i] = s[i]
      /\ c[k] = w
  BY <1>2, <1>4, <1>7
<1>9. /\ r \in Seq(S) /\ Len(r) = Len(s) + 1
      /\ \A i \in 1..k : r[i] = c[i]
      /\ \A i \in (k + 1)..(Len(s) + 1) : r[i] = b[i - k]
  <2>1. r = c \o b
    BY <1>6, <1>7
  <2>2. /\ Len(b) \in Nat /\ k + Len(b) = Len(s) + 1
    BY <1>2, <1>5
  <2>3. r \in Seq(S) /\ Len(r) = Len(c) + Len(b)
    BY <1>5, <1>8, <2>1
  <2>4. \A i \in 1..(Len(c) + Len(b)) : r[i] = IF i <= Len(c) THEN c[i] ELSE b[i - Len(c)]
    BY <1>5, <1>8, <2>1
  <2>5. ASSUME NEW i \in 1..k PROVE r[i] = c[i]
    BY <1>2, <1>8, <2>2, <2>4
  <2>6. ASSUME NEW i \in (k + 1)..(Len(s) + 1) PROVE r[i] = b[i - k]
    BY <1>2, <1>8, <2>2, <2>4
  <2> QED BY <1>8, <2>2, <2>3, <2>5, <2>6
<1>10. /\ \A i \in 1..(k - 1) : r[i] = s[i]
       /\ r[k] = w
       /\ \A i \in (k + 1)..(Len(s) + 1) : r[i] = s[i - 1]
  <2>1. \A i \in (k + 1)..(Len(s) + 1) : (i - k) \in 1..(Len(s) - k + 1) /\ k + (i - k) - 1 = i - 1
    BY <1>2
  <2> QED BY <1>2, <1>5, <1>8, <1>9, <2>1
<1>11. Entries(r) = Entries(s) \cup {w}
  <2> DOMAIN r = 1..(Len(s) + 1)
    BY <1>9
  <2>1. ASSUME NEW i \in 1..(Len(s) + 1) PROVE r[i] \in Entries(s) \cup {w}
    <3>1. CASE i < k
      BY <3>1, <1>2, <1>10 DEF Entries
    <3>2. CASE i = k
      BY <3>2, <1>10
    <3>3. CASE k < i
      <4>1. r[i] = s[i - 1] /\ i - 1 \in 1..Len(s)
        BY <3>3, <1>2, <1>10
      <4> QED BY <4>1, <1>2 DEF Entries
    <3> QED BY <3>1, <3>2, <3>3, <1>2
  <2>2. w \in Entries(r)
    BY <1>2, <1>10 DEF Entries
  <2>3. ASSUME NEW i \in 1..Len(s) PROVE s[i] \in Entries(r)
    <3>1. CASE i < k
      BY <3>1, <1>2, <1>9, <1>10 DEF Entries
    <3>2. CASE ~ (i < k)
      <4>0. DOMAIN r = 1..(Len(s) + 1)
        BY <1>9
      <4>1. i + 1 \in (k + 1)..(Len(s) + 1) /\ (i + 1) - 1 = i /\ i + 1 \in DOMAIN r
        BY <3>2, <1>2, <4>0
      <4>2. r[i + 1] = s[i]
        BY <4>1, <1>10
      <4> QED BY <4>1, <4>2 DEF Entries
    <3> QED BY <3>1, <3>2
  <2> QED BY <1>2, <2>1, <2>2, <2>3 DEF Entries
<1>12. ASSUME Distinct(s), w \notin Entries(s) PROVE Distinct(r)
  <2>1. \A i \in 1..Len(s) : s[i] # w
    BY <1>2, <1>12 DEF Entries
  <2>2. \A i, j \in 1..Len(s) : i # j => s[i] # s[j]
    BY <1>2, <1>12 DEF Distinct
  <2> SUFFICES ASSUME NEW i \in 1..(Len(s) + 1), NEW j \in 1..(Len(s) + 1), i < j
               PROVE  r[i] # r[j]
    BY <1>2, <1>9 DEF Distinct
  <2>3. CASE j < k
    BY <2>2, <2>3, <1>2, <1>10
  <2>4. CASE j = k
    BY <2>1, <2>4, <1>2, <1>10
  <2>5. CASE k < j
    <3>1. r[j] = s[j - 1] /\ j - 1 \in 1..Len(s)
      BY <2>5, <1>2, <1>10
    <3>2. CASE i < k
      BY <3>1, <3>2, <2>5, <2>2, <1>2, <1>10
    <3>3. CASE i = k
      BY <3>1, <3>3, <2>1, <1>10
    <3>4. CASE k < i
      <4>1. r[i] = s[i - 1] /\ i - 1 \in 1..Len(s) /\ i - 1 # j - 1
        BY <3>4, <1>2, <1>10
      <4> QED BY <3>1, <4>1, <2>2
    <3> QED BY <3>2, <3>3, <3>4, <1>2
  <2> QED BY <2>3, <2>4, <2>5, <1>2
<1> QED BY <1>1, <1>9, <1>11, <1>12

\* The first of a sequence, if there is one, is in it.
LEMMA FirstOrIn ==
  ASSUME NEW S, NEW s \in Seq(S), NEW default
  PROVE  FirstOr(s, default) \in Entries(s) \cup {default}
<1>1. s # <<>> => 1 \in DOMAIN s /\ Head(s) = s[1]
  OBVIOUS
<1> QED BY <1>1 DEF FirstOr, Entries

\* The window that stands in for a front window that went away is open.
LEMMA FrontIsListed ==
  ASSUME NEW m \in WindowManager
  PROVE  /\ FirstVisible(m) \in Entries(m.list) \cup {None}
         /\ FrontForInternalState(m) \in Entries(m.list) \cup {None}
         /\ FrontForInternalState(m) \in Windows \cup {None}
<1>1. m.list \in Seq(Windows)
  BY ManagerFields
<1>2. Among(m.list, m.visible) \in Seq(Windows)
      /\ Entries(Among(m.list, m.visible)) \subseteq Entries(m.list)
  BY <1>1, AmongProperties
<1>3. FirstVisible(m) \in Entries(m.list) \cup {None}
  BY <1>2, FirstOrIn DEF FirstVisible
<1>4. FirstOr(m.list, None) \in Entries(m.list) \cup {None}
  BY <1>1, FirstOrIn
<1>5. FrontForInternalState(m) \in Entries(m.list) \cup {None}
  BY <1>3, <1>4 DEF FrontForInternalState
<1> QED BY <1>3, <1>5, OpenIsList

---------------------------------------------------------------------------
(* Events. *)

\* What changes only events leaves the list, visibility and the active window.
OnlyEvents(r, m) ==
  Entries(r.list) = Entries(m.list) /\ r.visible = m.visible /\ r.front = m.front

\* A queued activation replaces the pending one of its polarity and is the one its slot
\* names; an activate event goes behind the deactivate event.
LEMMA QueueActivationSound ==
  ASSUME NEW X, NEW m, Coherent(m, X), NEW what \in Polarity, NEW w, Nameable(m, w)
  PROVE  /\ Coherent(QueueActivation(m, what, w), X)
         /\ OnlyEvents(QueueActivation(m, what, w), m)
         /\ what = "activate" => Ordered(QueueActivation(m, what, w).queue)
<1> DEFINE T == {e \in Events : e.what # what}
<1>1. PICK r : r = QueueActivation(m, what, w)
  OBVIOUS
<1>2. PICK q : q = Append(Among(m.queue, T), Event(what, w))
  OBVIOUS
<1>0. m \in WindowManager /\ w \in Windows /\ w # None /\ Event(what, w) \in Events
      /\ what \in Kinds /\ what # "update"
  BY WindowsAssumption, EventFields DEF Coherent, Nameable, Kinds, Polarity
<1>3. Among(m.queue, T) \in Seq(Events) /\ Entries(Among(m.queue, T)) = Entries(m.queue) \cap T
      /\ Distinct(Among(m.queue, T))
  BY <1>0, ManagerFields, AmongProperties DEF Coherent
<1>4. Event(what, w).what = what /\ Event(what, w).message = w
  BY <1>0, EventFields
<1>5. /\ q \in Seq(Events)
      /\ Entries(q) = (Entries(m.queue) \cap T) \cup {Event(what, w)}
      /\ Distinct(q)
  <2>1. Event(what, w) \notin T
    BY <1>4
  <2> HIDE DEF T
  <2> QED BY <1>0, <1>2, <1>3, <2>1, PushProperties
<1>6. r = [m EXCEPT !.queue = q, !.slot[what] = w]
  BY <1>0, <1>1, <1>2 DEF QueueActivation
<1>7. /\ r \in WindowManager /\ r.queue = q
      /\ r.list = m.list /\ r.visible = m.visible /\ r.dirty = m.dirty /\ r.front = m.front
      /\ r.flushed = m.flushed /\ r.told = m.told /\ r.missed = m.missed
      /\ r.slot = [m.slot EXCEPT ![what] = w]
  BY <1>0, <1>5, <1>6 DEF WindowManager
<1>8. Entries(m.queue) \subseteq Events
  BY <1>0, OpenIsList
<1>9. \A x : Holds(r, x) <=> Holds(m, x)
  BY <1>0, <1>4, <1>5, <1>7, <1>8 DEF Holds, Event
<1>10. \A e \in Entries(q) : e.what \in Polarity => e.message = r.slot[e.what]
  <2>1. what \in DOMAIN m.slot /\ \A p \in Polarity : p # what => r.slot[p] = m.slot[p]
    BY <1>0, <1>7, ManagerFields
  <2>2. r.slot[what] = w
    BY <1>7, <2>1
  <2> QED BY <1>4, <1>5, <2>1, <2>2 DEF Coherent
<1>11. PairedDialogs => NamesOpen(r)
  <2> SUFFICES ASSUME PairedDialogs PROVE NamesOpen(r)
    OBVIOUS
  <2>1. NamesOpen(m) /\ w \in Entries(m.list)
    BY DEF Coherent, Nameable
  <2>2. \A p \in Polarity : r.slot[p] \in Entries(m.list) \cup {None}
    BY <1>0, <1>7, <2>1, ManagerFields DEF NamesOpen
  <2> QED BY <1>4, <1>5, <1>7, <2>1, <2>2 DEF NamesOpen
<1>12. Coherent(r, X)
  BY <1>5, <1>7, <1>9, <1>10, <1>11 DEF Coherent
<1>13. what = "activate" => Ordered(r.queue)
  BY <1>0, <1>2, <1>7, ManagerFields, OrderedByActivate
<1> QED BY <1>1, <1>7, <1>12, <1>13 DEF OnlyEvents

\* The same when there may be no window to name.
LEMMA QueueActivationOrNone ==
  ASSUME NEW X, NEW m, Sound(m, X), NEW w, w = None \/ Nameable(m, w)
  PROVE  /\ Sound(QueueActivation(m, "activate", w), X)
         /\ OnlyEvents(QueueActivation(m, "activate", w), m)
<1>1. CASE w = None
  BY <1>1 DEF QueueActivation, Sound, OnlyEvents
<1>2. CASE Nameable(m, w)
  BY <1>2, QueueActivationSound DEF Sound, Polarity
<1> QED BY <1>1, <1>2

\* A switch of the active window tells the old window, if there is one, then the new one.
LEMMA SwitchEventsSound ==
  ASSUME NEW X, NEW m, Coherent(m, X), NEW old, old = None \/ Nameable(m, old),
         NEW new, Nameable(m, new)
  PROVE  Sound(SwitchEvents(m, old, new), X) /\ OnlyEvents(SwitchEvents(m, old, new), m)
<1>1. PICK r : r = QueueActivation(m, "deactivate", old)
  OBVIOUS
<1>2. Coherent(r, X) /\ OnlyEvents(r, m)
  <2>1. CASE old = None
    BY <1>1, <2>1 DEF QueueActivation, OnlyEvents
  <2>2. CASE Nameable(m, old)
    BY <1>1, <2>2, QueueActivationSound DEF Polarity
  <2> QED BY <2>1, <2>2
<1>3. Nameable(r, new)
  BY <1>2 DEF Nameable, OnlyEvents
<1>4. PICK s : s = QueueActivation(r, "activate", new)
  OBVIOUS
<1>5. Coherent(s, X) /\ OnlyEvents(s, r) /\ Ordered(s.queue)
  BY <1>2, <1>3, <1>4, QueueActivationSound DEF Polarity
<1>6. s = SwitchEvents(m, old, new)
  BY <1>1, <1>4 DEF SwitchEvents
<1> QED BY <1>2, <1>5, <1>6 DEF Sound, OnlyEvents

\* An update event is queued once for a window, and not for one whose marker was put aside.
LEMMA QueueUpdateSound ==
  ASSUME NEW X, NEW m, NEW w, Sound(m, X \cup {w}), Nameable(m, w)
  PROVE  /\ Sound(QueueUpdate(m, w), X)
         /\ OnlyEvents(QueueUpdate(m, w), m)
         /\ Holds(QueueUpdate(m, w), w) \/ w \in QueueUpdate(m, w).flushed
<1>0. m \in WindowManager /\ w \in Windows /\ (Marked(m, w) <=> Holds(m, w))
  BY OpenIsList DEF Sound, Coherent, Nameable
<1>1. PICK r : r = QueueUpdate(m, w)
  OBVIOUS
<1>2. CASE Holds(m, w) \/ w \in m.flushed
  <2>1. r = m
    BY <1>0, <1>1, <1>2 DEF QueueUpdate
  <2>2. Sound(m, X)
    BY <1>2 DEF Sound, Coherent
  <2> QED BY <1>1, <1>2, <2>1, <2>2 DEF OnlyEvents
<1>3. CASE ~Holds(m, w) /\ w \notin m.flushed
  <2>1. PICK q : q = Append(m.queue, Event("update", w))
    OBVIOUS
  <2>2. Event("update", w) \in Events /\ Event("update", w).what = "update"
        /\ Event("update", w).message = w /\ \A x : Event("update", x) = Event("update", w) => x = w
    BY <1>0, EventFields DEF Kinds, Event
  <2>3. /\ q \in Seq(Events) /\ Entries(q) = Entries(m.queue) \cup {Event("update", w)}
        /\ Distinct(q)
    BY <1>0, <1>3, <2>1, <2>2, ManagerFields, PushProperties DEF Sound, Coherent, Holds
  <2>4. r = [m EXCEPT !.queue = q, !.told = @ \ {w}, !.missed = @ \ {w}]
    BY <1>0, <1>1, <1>3, <2>1 DEF QueueUpdate
  <2>5. /\ r \in WindowManager /\ r.queue = q
        /\ r.list = m.list /\ r.visible = m.visible /\ r.dirty = m.dirty /\ r.front = m.front
        /\ r.flushed = m.flushed /\ r.told = m.told \ {w} /\ r.missed = m.missed \ {w}
        /\ r.slot = m.slot
    BY <1>0, <2>3, <2>4 DEF WindowManager
  <2>6. \A x : Holds(r, x) <=> Holds(m, x) \/ x = w
    BY <2>2, <2>3, <2>5 DEF Holds
  <2>7. Ordered(q)
    <3>1. m.queue \in Seq(Events) /\ Len(q) = Len(m.queue) + 1
          /\ (\A i \in 1..Len(m.queue) : q[i] = m.queue[i])
          /\ \A i \in 1..1 : q[Len(m.queue) + i] = Event("update", w)
      BY <1>0, <2>1, <2>2, ManagerFields
    <3> QED BY <2>2, <2>3, <3>1, OrderedBefore DEF Sound
  <2>8. PairedDialogs => NamesOpen(r)
    BY <2>2, <2>3, <2>5 DEF NamesOpen, Sound, Coherent, Nameable
  <2>9. "update" \notin Polarity
    BY DEF Polarity
  <2>10. \A e \in Entries(q) : e.what \in Polarity => e.message = r.slot[e.what]
    BY <2>2, <2>3, <2>5, <2>9 DEF Sound, Coherent
  <2>11. Coherent(r, X)
    BY <1>3, <2>3, <2>5, <2>6, <2>8, <2>10 DEF Sound, Coherent
  <2> QED BY <1>1, <2>5, <2>6, <2>7, <2>11 DEF Sound, OnlyEvents
<1> QED BY <1>2, <1>3

\* A window made dirty is asked to draw.
LEMMA InvalidateSound ==
  ASSUME NEW X, NEW m, NEW w, Sound(m, X \cup {w}), Nameable(m, w)
  PROVE  Sound(Invalidate(m, w), X) /\ OnlyEvents(Invalidate(m, w), m)
<1>1. PICK r : r = QueueUpdate(m, w)
  OBVIOUS
<1>2. Sound(r, X) /\ OnlyEvents(r, m) /\ (Holds(r, w) \/ w \in r.flushed)
  BY <1>1, QueueUpdateSound
<1>3. PICK s : s = [r EXCEPT !.dirty = @ \cup {w}]
  OBVIOUS
<1>4. s = Invalidate(m, w)
  BY <1>1, <1>3 DEF Invalidate
<1>5. r \in WindowManager /\ w \in Windows
  BY <1>2 DEF Sound, Coherent, Nameable
<1>6. /\ s \in WindowManager /\ s.queue = r.queue
      /\ s.list = r.list /\ s.visible = r.visible /\ s.dirty = r.dirty \cup {w} /\ s.front = r.front
      /\ s.flushed = r.flushed /\ s.told = r.told /\ s.missed = r.missed /\ s.slot = r.slot
  BY <1>3, <1>5 DEF WindowManager
<1>7. Sound(s, X)
  BY <1>2, <1>6 DEF Sound, Coherent, Holds, NamesOpen
<1> QED BY <1>2, <1>4, <1>6, <1>7 DEF OnlyEvents

\* A queue that grows by the update events of distinct unmarked windows.
LEMMA UpdatesAppended ==
  ASSUME NEW q \in Seq(Events), Distinct(q), Ordered(q),
         NEW due \in Seq(Windows), Distinct(due),
         \A w \in Entries(due) : Event("update", w) \notin Entries(q)
  PROVE  LET r == q \o [i \in 1..Len(due) |-> Event("update", due[i])]
         IN /\ r \in Seq(Events) /\ Distinct(r) /\ Ordered(r)
            /\ Entries(r) = Entries(q) \cup {Event("update", w) : w \in Entries(due)}
<1>1. PICK u : u = [i \in 1..Len(due) |-> Event("update", due[i])]
  OBVIOUS
<1>2. \A i \in 1..Len(due) : due[i] \in Windows
  OBVIOUS
<1>3. \A i \in 1..Len(due) : u[i] \in Events /\ u[i].what = "update" /\ u[i].message = due[i]
  BY <1>1, <1>2, EventFields DEF Kinds
<1>4. u \in Seq(Events) /\ Len(u) = Len(due)
  BY <1>1, <1>3
<1>5. PICK r : r = q \o u
  OBVIOUS
<1>6. /\ Len(q) \in Nat /\ Len(u) \in Nat /\ DOMAIN q = 1..Len(q) /\ DOMAIN due = 1..Len(u)
      /\ r \in Seq(Events) /\ Len(r) = Len(q) + Len(u) /\ DOMAIN r = 1..(Len(q) + Len(u))
      /\ \A i \in 1..Len(q) : r[i] = q[i]
      /\ \A i \in 1..Len(u) : r[Len(q) + i] = u[i]
  <2>1. Len(q) \in Nat /\ Len(u) \in Nat /\ DOMAIN q = 1..Len(q) /\ DOMAIN due = 1..Len(u)
    <3>1. Len(q) \in Nat /\ DOMAIN q = 1..Len(q)
      OBVIOUS
    <3>2. Len(due) \in Nat /\ DOMAIN due = 1..Len(due)
      OBVIOUS
    <3> QED BY <3>1, <3>2, <1>4
  <2>2. r \in Seq(Events) /\ Len(r) = Len(q) + Len(u)
    BY <1>4, <1>5, ConcatProperties
  <2>3. /\ \A i \in 1..Len(q) : r[i] = q[i]
        /\ \A i \in 1..Len(u) : r[Len(q) + i] = u[i]
    BY <1>4, <1>5, <2>1
  <2>4. DOMAIN r = 1..(Len(q) + Len(u))
    BY <2>2
  <2> QED BY <2>1, <2>2, <2>3, <2>4
<1>7. \A i \in 1..(Len(q) + Len(u)) :
        i \in 1..Len(q) \/ \E k \in 1..Len(u) : i = Len(q) + k
  <2> TAKE i \in 1..(Len(q) + Len(u))
  <2>1. i \notin 1..Len(q) => (i - Len(q)) \in 1..Len(u) /\ i = Len(q) + (i - Len(q))
    BY <1>6
  <2> QED BY <2>1
<1>8. Ordered(r)
  <2>1. \A i \in 1..Len(u) : r[Len(q) + i].what = "update"
    BY <1>3, <1>4, <1>6
  <2> QED BY <1>6, <2>1, OrderedBefore
<1>9. Distinct(r)
  <2>1. \A i \in 1..Len(q), k \in 1..Len(u) : q[i] # u[k]
    <3> TAKE i \in 1..Len(q), k \in 1..Len(u)
    <3>1. u[k] = Event("update", due[k])
      BY <1>1, <1>4
    <3>2. due[k] \in Entries(due) /\ q[i] \in Entries(q)
      BY <1>6 DEF Entries
    <3> QED BY <3>1, <3>2
  <2>2. \A k, l \in 1..Len(u) : k # l => u[k] # u[l]
    <3> TAKE k, l \in 1..Len(u)
    <3>1. u[k].message = due[k] /\ u[l].message = due[l]
      BY <1>3, <1>4
    <3>2. k # l => due[k] # due[l]
      BY <1>6 DEF Distinct
    <3> QED BY <3>1, <3>2
  <2>3. \A i, j \in 1..Len(q) : i # j => q[i] # q[j]
    BY <1>6 DEF Distinct
  <2> SUFFICES ASSUME NEW i \in 1..(Len(q) + Len(u)), NEW j \in 1..(Len(q) + Len(u)), i # j
               PROVE  r[i] # r[j]
    BY <1>6 DEF Distinct
  <2>4. CASE i \in 1..Len(q) /\ j \in 1..Len(q)
    BY <2>3, <2>4, <1>6
  <2>5. CASE i \in 1..Len(q) /\ j \notin 1..Len(q)
    <3>1. PICK l \in 1..Len(u) : j = Len(q) + l
      BY <2>5, <1>7
    <3> QED BY <3>1, <2>1, <2>5, <1>6
  <2>6. CASE i \notin 1..Len(q) /\ j \in 1..Len(q)
    <3>1. PICK k \in 1..Len(u) : i = Len(q) + k
      BY <2>6, <1>7
    <3> QED BY <3>1, <2>1, <2>6, <1>6
  <2>7. CASE i \notin 1..Len(q) /\ j \notin 1..Len(q)
    <3>1. PICK k \in 1..Len(u) : i = Len(q) + k
      BY <2>7, <1>7
    <3>2. PICK l \in 1..Len(u) : j = Len(q) + l
      BY <2>7, <1>7
    <3> QED BY <3>1, <3>2, <2>2, <1>6
  <2> QED BY <2>4, <2>5, <2>6, <2>7
<1>10. Entries(r) = Entries(q) \cup {Event("update", w) : w \in Entries(due)}
  <2>1. Entries(due) = {due[i] : i \in 1..Len(u)}
    BY <1>6 DEF Entries
  <2>2. \A k \in 1..Len(u) : u[k] = Event("update", due[k])
    BY <1>1, <1>4
  <2>3. ASSUME NEW e \in Entries(r)
        PROVE  e \in Entries(q) \cup {Event("update", w) : w \in Entries(due)}
    <3>1. PICK i \in 1..(Len(q) + Len(u)) : e = r[i]
      BY <1>6 DEF Entries
    <3>2. CASE i \in 1..Len(q)
      BY <3>1, <3>2, <1>6 DEF Entries
    <3>3. CASE i \notin 1..Len(q)
      <4>1. PICK k \in 1..Len(u) : i = Len(q) + k
        BY <3>3, <1>7
      <4>2. e = Event("update", due[k]) /\ due[k] \in Entries(due)
        BY <3>1, <4>1, <1>6, <2>1, <2>2
      <4> QED BY <4>2
    <3> QED BY <3>2, <3>3
  <2>4. Entries(q) \subseteq Entries(r)
    BY <1>6 DEF Entries
  <2>5. ASSUME NEW w \in Entries(due) PROVE Event("update", w) \in Entries(r)
    <3>1. PICK k \in 1..Len(u) : w = due[k]
      BY <2>1
    <3>2. Len(q) + k \in DOMAIN r /\ r[Len(q) + k] = Event("update", w)
      BY <3>1, <1>6, <2>2
    <3> QED BY <3>2 DEF Entries
  <2> QED BY <2>3, <2>4, <2>5
<1> QED BY <1>1, <1>5, <1>6, <1>8, <1>9, <1>10

\* The windows that others exposed are all asked to draw, each once.
LEMMA InvalidateEachSound ==
  ASSUME NEW X, NEW m, NEW ws, Sound(m, X)
  PROVE  Sound(InvalidateEach(m, ws), X) /\ OnlyEvents(InvalidateEach(m, ws), m)
<1> DEFINE T == {w \in ws \cap Open(m) : ~Marked(m, w) /\ w \notin m.flushed}
<1>0. m \in WindowManager /\ Distinct(m.list) /\ Distinct(m.queue) /\ Ordered(m.queue)
  BY DEF Sound, Coherent
<1>1. PICK due : due = Among(m.list, T)
  OBVIOUS
<1>2. due \in Seq(Windows) /\ Distinct(due) /\ Entries(due) = Entries(m.list) \cap T
  BY <1>0, <1>1, ManagerFields, AmongProperties
<1>3. \A w \in Entries(due) : ~Holds(m, w) /\ w \notin m.flushed
  BY <1>0, <1>2, OpenIsList
<1>4. PICK q : q = m.queue \o [i \in 1..Len(due) |-> Event("update", due[i])]
  OBVIOUS
<1>5. /\ q \in Seq(Events) /\ Distinct(q) /\ Ordered(q)
      /\ Entries(q) = Entries(m.queue) \cup {Event("update", w) : w \in Entries(due)}
  BY <1>0, <1>2, <1>3, <1>4, ManagerFields, UpdatesAppended DEF Holds
<1>6. PICK r : r = InvalidateEach(m, ws)
  OBVIOUS
<1>7. Open(m) = Entries(m.list) /\ Entries(m.list) \subseteq Windows
  BY <1>0, OpenIsList
<1>8. r = [m EXCEPT !.queue = q, !.told = @ \ T, !.missed = @ \ T,
                    !.dirty = @ \cup (ws \cap Entries(m.list))]
  BY <1>1, <1>4, <1>6, <1>7 DEF InvalidateEach
<1>9. /\ r \in WindowManager /\ r.queue = q /\ r.dirty = m.dirty \cup (ws \cap Entries(m.list))
      /\ r.list = m.list /\ r.visible = m.visible /\ r.front = m.front
      /\ r.flushed = m.flushed /\ r.told = m.told \ T /\ r.missed = m.missed \ T
      /\ r.slot = m.slot
  <2>1. m.dirty \cup (ws \cap Entries(m.list)) \in SUBSET Windows
    BY <1>0, <1>7, ManagerFields
  <2> HIDE DEF T
  <2> QED BY <1>0, <1>5, <1>8, <2>1 DEF WindowManager
<1>10. \A w \in Entries(due) : Event("update", w).what = "update" /\ Event("update", w).message = w
  BY <1>2, <1>7, EventFields DEF Kinds
<1>11. \A w : Holds(r, w) <=> Holds(m, w) \/ w \in Entries(due)
  <2>1. \A w, x : Event("update", w) = Event("update", x) => w = x
    BY DEF Event
  <2> QED BY <1>5, <1>9, <2>1 DEF Holds
<1>12. \A w \in Entries(m.list) \cap ws : Holds(r, w) \/ w \in r.flushed
  <2> TAKE w \in Entries(m.list) \cap ws
  <2>1. w \in T \/ Holds(m, w) \/ w \in m.flushed
    BY <1>0, <1>7, OpenIsList
  <2> HIDE DEF T
  <2> QED BY <2>1, <1>2, <1>9, <1>11
<1>13. PairedDialogs => NamesOpen(r)
  <2>1. Entries(due) \subseteq Entries(m.list)
    BY <1>2
  <2> QED BY <2>1, <1>5, <1>9, <1>10 DEF NamesOpen, Sound, Coherent
<1>14. \A e \in Entries(q) : e.what \in Polarity => e.message = r.slot[e.what]
  BY <1>5, <1>9, <1>10 DEF Sound, Coherent, Polarity
<1>15. \A w \in (r.visible \cap r.dirty) \ X :
                       Holds(r, w) \/ w \in r.flushed \/ w \in r.told \/ w \in r.missed
  <2>1. T \subseteq Entries(m.list) \cap ws
    BY <1>7
  <2> HIDE DEF T
  <2> QED BY <1>9, <1>11, <1>12, <2>1 DEF Sound, Coherent
<1>16. \A w \in r.flushed : ~Holds(r, w)
  BY <1>3, <1>9, <1>11 DEF Sound, Coherent
<1>17. r.visible \subseteq Entries(r.list) /\ Distinct(r.list)
  BY <1>9 DEF Sound, Coherent
<1>18. Coherent(r, X)
  BY <1>5, <1>9, <1>13, <1>14, <1>15, <1>16, <1>17 DEF Coherent
<1> QED BY <1>5, <1>6, <1>9, <1>18 DEF Sound, OnlyEvents

\* Events that are taken out of the queue leave the others as they were.
LEMMA QueueThinned ==
  ASSUME NEW q \in Seq(Events), Distinct(q), Ordered(q)
  PROVE  /\ \A T : /\ Among(q, T) \in Seq(Events) /\ Distinct(Among(q, T)) /\ Ordered(Among(q, T))
                   /\ Entries(Among(q, T)) = Entries(q) \cap T
         /\ \A e : /\ Without(q, e) \in Seq(Events) /\ Distinct(Without(q, e))
                   /\ Ordered(Without(q, e)) /\ Entries(Without(q, e)) = Entries(q) \ {e}
<1>1. ASSUME NEW T
      PROVE  /\ Among(q, T) \in Seq(Events) /\ Distinct(Among(q, T)) /\ Ordered(Among(q, T))
             /\ Entries(Among(q, T)) = Entries(q) \cap T
  BY AmongProperties, OrderedLeft
<1>2. ASSUME NEW e
      PROVE  /\ Without(q, e) \in Seq(Events) /\ Distinct(Without(q, e))
             /\ Ordered(Without(q, e)) /\ Entries(Without(q, e)) = Entries(q) \ {e}
  BY WithoutProperties, OrderedLeft
<1> QED BY <1>1, <1>2

\* A window whose update region was emptied waits for nothing.
LEMMA RepairedSound ==
  ASSUME NEW X, NEW m, NEW w \in Windows, Sound(m, X \cup {w})
  PROVE  Sound(Repaired(m, w), X) /\ OnlyEvents(Repaired(m, w), m)
<1>0. m \in WindowManager /\ m.queue \in Seq(Events)
  BY ManagerFields DEF Sound, Coherent
<1>1. PICK q : q = Without(m.queue, Event("update", w))
  OBVIOUS
<1>2. /\ q \in Seq(Events) /\ Distinct(q) /\ Ordered(q)
      /\ Entries(q) = Entries(m.queue) \ {Event("update", w)}
  BY <1>0, <1>1, QueueThinned DEF Sound, Coherent
<1>3. PICK r : r = Repaired(m, w)
  OBVIOUS
<1>4. /\ r \in WindowManager /\ r.queue = q /\ r.dirty = m.dirty \ {w}
      /\ r.list = m.list /\ r.visible = m.visible /\ r.front = m.front
      /\ r.flushed = m.flushed \ {w} /\ r.told = m.told \ {w} /\ r.missed = m.missed \ {w} /\ r.slot = m.slot
  BY <1>0, <1>1, <1>2, <1>3 DEF Repaired, ClearUpdates, WindowManager
<1>5. \A x : x # w => (Holds(r, x) <=> Holds(m, x))
  BY <1>2, <1>4 DEF Holds, Event
<1>6. ~Holds(r, w)
  BY <1>2, <1>4 DEF Holds
<1>7. PairedDialogs => NamesOpen(r)
  BY <1>2, <1>4 DEF Sound, Coherent, NamesOpen
<1>8. Coherent(r, X)
  BY <1>2, <1>4, <1>5, <1>6, <1>7 DEF Sound, Coherent
<1> QED BY <1>2, <1>3, <1>4, <1>8 DEF Sound, OnlyEvents

\* A hidden window is not asked to draw.
Hidden(m, w) == ClearUpdates([m EXCEPT !.visible = @ \ {w}], w)

\* Hiding a window takes its visibility and its markers together.
LEMMA HiddenSound ==
  ASSUME NEW X, NEW m, NEW w \in Windows, Sound(m, X)
  PROVE  /\ Sound(Hidden(m, w), X)
         /\ Entries(Hidden(m, w).list) = Entries(m.list) /\ Hidden(m, w).front = m.front
<1>0. m \in WindowManager /\ m.queue \in Seq(Events)
  BY ManagerFields DEF Sound, Coherent
<1>1. PICK q : q = Without(m.queue, Event("update", w))
  OBVIOUS
<1>2. /\ q \in Seq(Events) /\ Distinct(q) /\ Ordered(q)
      /\ Entries(q) = Entries(m.queue) \ {Event("update", w)}
  BY <1>0, <1>1, QueueThinned DEF Sound, Coherent
<1>3. PICK r : r = Hidden(m, w)
  OBVIOUS
<1>4. /\ r \in WindowManager /\ r.queue = q /\ r.dirty = m.dirty
      /\ r.list = m.list /\ r.visible = m.visible \ {w} /\ r.front = m.front
      /\ r.flushed = m.flushed \ {w} /\ r.told = m.told \ {w} /\ r.missed = m.missed \ {w} /\ r.slot = m.slot
  BY <1>0, <1>1, <1>2, <1>3 DEF Hidden, ClearUpdates, WindowManager
<1>5. \A x : x # w => (Holds(r, x) <=> Holds(m, x))
  BY <1>2, <1>4 DEF Holds, Event
<1>6. ~Holds(r, w)
  BY <1>2, <1>4 DEF Holds
<1>7. PairedDialogs => NamesOpen(r)
  BY <1>2, <1>4 DEF Sound, Coherent, NamesOpen
<1>8. Coherent(r, X)
  BY <1>2, <1>4, <1>5, <1>6, <1>7 DEF Sound, Coherent
<1> QED BY <1>2, <1>3, <1>4, <1>8 DEF Sound

\* A closed window takes with it everything that names it.
LEMMA UntrackSound ==
  ASSUME NEW X, NEW m, NEW w \in Windows, Sound(m, X)
  PROVE  /\ Sound(Untrack(m, w), X)
         /\ Entries(Untrack(m, w).list) = Entries(m.list) \ {w}
<1> DEFINE T == {e \in Events : e.message # w}
<1>0. /\ m \in WindowManager /\ m.queue \in Seq(Events) /\ m.list \in Seq(Windows)
      /\ m.slot \in [Polarity -> Windows \cup {None}] /\ w # None
      /\ Entries(m.queue) \subseteq Events
  BY ManagerFields, OpenIsList, WindowsAssumption DEF Sound, Coherent
<1>1. PICK q0, q : q0 = Without(m.queue, Event("update", w)) /\ q = Among(q0, T)
  OBVIOUS
<1>2. /\ q \in Seq(Events) /\ Distinct(q) /\ Ordered(q) /\ Entries(q) = Entries(m.queue) \cap T
  <2>1. Event("update", w) \notin T
    BY EventFields DEF Kinds
  <2>2. /\ q0 \in Seq(Events) /\ Distinct(q0) /\ Ordered(q0)
        /\ Entries(q0) = Entries(m.queue) \ {Event("update", w)}
    BY <1>0, <1>1, QueueThinned DEF Sound, Coherent
  <2> HIDE DEF T
  <2>3. /\ q \in Seq(Events) /\ Distinct(q) /\ Ordered(q) /\ Entries(q) = Entries(q0) \cap T
    BY <1>1, <2>2, QueueThinned
  <2> QED BY <2>1, <2>2, <2>3
<1>3. PICK l : l = Without(m.list, w)
  OBVIOUS
<1>4. l \in Seq(Windows) /\ Distinct(l) /\ Entries(l) = Entries(m.list) \ {w}
  BY <1>0, <1>3, WithoutProperties DEF Sound, Coherent
<1>5. PICK s : s = [p \in Polarity |-> IF m.slot[p] = w THEN None ELSE m.slot[p]]
  OBVIOUS
<1>6. PICK m1 : m1 = [ClearUpdates(m, w) EXCEPT
               !.queue = Among(@, {e \in Events : e.message # w}),
               !.slot  = [p \in Polarity |-> IF @[p] = w THEN None ELSE @[p]],
               !.list  = Without(@, w), !.visible = @ \ {w}, !.dirty = @ \ {w}]
  OBVIOUS
<1>7. /\ m1.queue = q /\ m1.list = l /\ m1.slot = s /\ m1.visible = m.visible \ {w}
      /\ m1.dirty = m.dirty \ {w} /\ m1.flushed = m.flushed \ {w} /\ m1.told = m.told \ {w} /\ m1.missed = m.missed \ {w}
      /\ m1.front = m.front
  BY <1>0, <1>1, <1>3, <1>5, <1>6 DEF ClearUpdates, WindowManager
<1>8. s \in [Polarity -> Windows \cup {None}] /\ \A p \in Polarity : m.slot[p] # w => s[p] = m.slot[p]
  BY <1>0, <1>5
<1>9. m1 \in WindowManager
  <2>1. PICK c : c = ClearUpdates(m, w)
    OBVIOUS
  <2>2. q0 \in Seq(Events)
    BY <1>0, <1>1, QueueThinned DEF Sound, Coherent
  <2>3. c \in WindowManager /\ c.queue = q0 /\ c.slot = m.slot /\ c.list = m.list
        /\ c.visible = m.visible /\ c.dirty = m.dirty
    BY <1>0, <1>1, <2>1, <2>2 DEF ClearUpdates, WindowManager
  <2>4. m1 = [c EXCEPT !.queue = q, !.slot = s, !.list = l, !.visible = m.visible \ {w},
                       !.dirty = m.dirty \ {w}]
    BY <1>1, <1>3, <1>5, <1>6, <2>1, <2>3
  <2> QED BY <1>0, <1>2, <1>4, <1>8, <2>3, <2>4 DEF WindowManager
<1>10. PICK r : r = Untrack(m, w)
  OBVIOUS
<1>11. r = IF m.front = w THEN [m1 EXCEPT !.front = FrontForInternalState(m1)] ELSE m1
  BY <1>6, <1>10 DEF Untrack
<1>12. FrontForInternalState(m1) \in (Windows \cup {None}) /\ FrontForInternalState(m1) \in Entries(l) \cup {None}
  BY <1>7, <1>9, FrontIsListed
<1>13. /\ r \in WindowManager
       /\ r.queue = q /\ r.list = l /\ r.slot = s /\ r.visible = m.visible \ {w}
       /\ r.dirty = m.dirty \ {w} /\ r.flushed = m.flushed \ {w} /\ r.told = m.told \ {w} /\ r.missed = m.missed \ {w}
       /\ (r.front = m.front /\ m.front # w) \/ r.front \in Entries(l) \cup {None}
  BY <1>7, <1>9, <1>11, <1>12 DEF WindowManager
<1>14. \A e \in Entries(q) : e.what \in Polarity => e.message = r.slot[e.what]
  BY <1>2, <1>8, <1>13 DEF Sound, Coherent
<1>15. \A x \in Windows : x # w => (Holds(r, x) <=> Holds(m, x))
  <2> TAKE x \in Windows
  <2> HAVE x # w
  <2>1. Event("update", x) \in T
    BY EventFields DEF Kinds
  <2> HIDE DEF T
  <2> QED BY <2>1, <1>2, <1>13 DEF Holds
<1>16. \A x \in r.flushed : ~Holds(r, x)
  BY <1>0, <1>13, <1>15, ManagerFields DEF Sound, Coherent
<1>17. PairedDialogs => NamesOpen(r)
  <2> SUFFICES ASSUME PairedDialogs PROVE NamesOpen(r)
    OBVIOUS
  <2>1. NamesOpen(m)
    BY DEF Sound, Coherent
  <2>2. \A p \in Polarity : r.slot[p] \in Entries(l) \cup {None}
    BY <1>4, <1>5, <1>13, <2>1 DEF NamesOpen
  <2>3. r.front \in Entries(l) \cup {None}
    BY <1>4, <1>13, <2>1 DEF NamesOpen
  <2> QED BY <1>2, <1>4, <1>13, <2>1, <2>2, <2>3 DEF NamesOpen
<1>18. \A x \in (r.visible \cap r.dirty) \ X :
                       Holds(r, x) \/ x \in r.flushed \/ x \in r.told \/ x \in r.missed
  BY <1>0, <1>13, <1>15, ManagerFields DEF Sound, Coherent
<1>19. r.visible \subseteq Entries(r.list)
  BY <1>4, <1>13 DEF Sound, Coherent
<1>20. Coherent(r, X)
  BY <1>2, <1>4, <1>13, <1>14, <1>16, <1>17, <1>18, <1>19 DEF Coherent
<1> QED BY <1>2, <1>4, <1>10, <1>13, <1>20 DEF Sound

---------------------------------------------------------------------------
(* The list, visibility and the active window. *)

\* The list may be reordered or grow: nothing that is named goes away.
LEMMA ListReplaced ==
  ASSUME NEW X, NEW m, Sound(m, X), NEW l \in Seq(Windows), Distinct(l),
         Entries(m.list) \subseteq Entries(l)
  PROVE  /\ Sound([m EXCEPT !.list = l], X)
         /\ [m EXCEPT !.list = l].list = l
         /\ [m EXCEPT !.list = l].visible = m.visible /\ [m EXCEPT !.list = l].front = m.front
<1>0. m \in WindowManager
  BY DEF Sound, Coherent
<1>1. PICK r : r = [m EXCEPT !.list = l]
  OBVIOUS
<1>2. /\ r \in WindowManager /\ r.list = l
      /\ r.queue = m.queue /\ r.visible = m.visible /\ r.dirty = m.dirty /\ r.front = m.front
      /\ r.flushed = m.flushed /\ r.told = m.told /\ r.missed = m.missed /\ r.slot = m.slot
  BY <1>0, <1>1 DEF WindowManager
<1>3. NamesOpen(m) => NamesOpen(r)
  BY <1>2 DEF NamesOpen
<1>4. Sound(r, X)
  BY <1>2, <1>3 DEF Sound, Coherent, Holds
<1> QED BY <1>1, <1>2, <1>4

\* A window that comes to the front of the list is in it once.
LEMMA TrackFrontSound ==
  ASSUME NEW X, NEW m, Sound(m, X), NEW w \in Windows
  PROVE  /\ Sound(TrackFront(m, w), X)
         /\ Entries(TrackFront(m, w).list) = Entries(m.list) \cup {w}
         /\ TrackFront(m, w).visible = m.visible /\ TrackFront(m, w).front = m.front
<1>0. m \in WindowManager /\ m.list \in Seq(Windows) /\ Distinct(m.list)
  BY ManagerFields DEF Sound, Coherent
<1>1. PICK rest : rest = Without(m.list, w)
  OBVIOUS
<1>2. rest \in Seq(Windows) /\ Distinct(rest) /\ Entries(rest) = Entries(m.list) \ {w}
  BY <1>0, <1>1, WithoutProperties
<1>3. PICK l : l = <<w>> \o rest
  OBVIOUS
<1>4. /\ Len(rest) \in Nat /\ DOMAIN rest = 1..Len(rest)
      /\ l \in Seq(Windows) /\ Len(l) = Len(rest) + 1 /\ DOMAIN l = 1..(Len(rest) + 1)
      /\ l[1] = w /\ \A i \in 2..(Len(rest) + 1) : l[i] = rest[i - 1]
  BY <1>2, <1>3
<1>5. \A i \in 2..(Len(rest) + 1) : l[i] = rest[i - 1] /\ i - 1 \in DOMAIN rest
  BY <1>4
<1>6. Entries(l) = Entries(rest) \cup {w}
  <2>1. Entries(l) \subseteq Entries(rest) \cup {w}
    BY <1>4, <1>5 DEF Entries
  <2>2. ASSUME NEW i \in DOMAIN rest PROVE rest[i] \in Entries(l)
    <3>1. i + 1 \in DOMAIN l /\ l[i + 1] = rest[i]
      BY <1>4
    <3> QED BY <3>1 DEF Entries
  <2>3. w \in Entries(l)
    BY <1>4 DEF Entries
  <2> QED BY <2>1, <2>2, <2>3 DEF Entries
<1>7. Distinct(l)
  <2> SUFFICES ASSUME NEW i \in 1..(Len(rest) + 1), NEW j \in 1..(Len(rest) + 1), i < j
               PROVE  l[i] # l[j]
    BY <1>4 DEF Distinct
  <2>1. l[j] = rest[j - 1] /\ j - 1 \in DOMAIN rest
    BY <1>5, <1>4
  <2>2. CASE i = 1
    BY <2>1, <2>2, <1>2, <1>4 DEF Entries
  <2>3. CASE i # 1
    <3>1. l[i] = rest[i - 1] /\ i - 1 \in DOMAIN rest /\ i - 1 # j - 1
      BY <2>3, <1>5, <1>4
    <3> QED BY <2>1, <3>1, <1>2 DEF Distinct
  <2> QED BY <2>2, <2>3
<1>8. TrackFront(m, w) = [m EXCEPT !.list = l]
  BY <1>0, <1>1, <1>3 DEF TrackFront, WindowManager
<1>9. Entries(l) = Entries(m.list) \cup {w}
  BY <1>2, <1>6
<1> QED BY <1>4, <1>7, <1>8, <1>9, ListReplaced

\* A window sent behind another, or to the back, stays in the list once.
LEMMA MoveBehindSound ==
  ASSUME NEW X, NEW m, Sound(m, X), NEW w \in Entries(m.list), NEW behind
  PROVE  /\ Sound(MoveBehind(m, w, behind), X)
         /\ OnlyEvents(MoveBehind(m, w, behind), m)
<1>0. m \in WindowManager /\ m.list \in Seq(Windows) /\ Distinct(m.list) /\ w \in Windows
  BY ManagerFields, OpenIsList DEF Sound, Coherent
<1>1. PICK rest : rest = Without(m.list, w)
  OBVIOUS
<1>2. rest \in Seq(Windows) /\ Distinct(rest) /\ Entries(rest) = Entries(m.list) \ {w}
  BY <1>0, <1>1, WithoutProperties
<1>3. PICK at : at = {i \in DOMAIN rest : rest[i] = behind}
  OBVIOUS
<1>4. PICK l : l = IF at = {} THEN Append(rest, w)
                   ELSE InsertAt(rest, 1 + CHOOSE i \in at : TRUE, w)
  OBVIOUS
<1>5. l \in Seq(Windows) /\ Distinct(l) /\ Entries(l) = Entries(rest) \cup {w}
  <2>1. CASE at = {}
    BY <2>1, <1>0, <1>2, <1>4, PushProperties
  <2>2. CASE at # {}
    <3>1. PICK k : k = CHOOSE i \in at : TRUE
      OBVIOUS
    <3>2. k \in at
      BY <2>2, <3>1
    <3>3. 1 + k \in 1..(Len(rest) + 1)
      BY <1>2, <1>3, <3>2
    <3>4. l = InsertAt(rest, 1 + k, w)
      BY <2>2, <1>4, <3>1
    <3> QED BY <1>0, <1>2, <3>3, <3>4, InsertAtProperties
  <2> QED BY <2>1, <2>2
<1>6. MoveBehind(m, w, behind) = [m EXCEPT !.list = l]
  BY <1>0, <1>1, <1>3, <1>4 DEF MoveBehind, WindowManager
<1>7. Entries(l) = Entries(m.list)
  BY <1>2, <1>5
<1> QED BY <1>5, <1>6, <1>7, ListReplaced DEF OnlyEvents

\* A window that becomes visible is due to be asked to draw.
LEMMA ShownSound ==
  ASSUME NEW X, NEW m, Sound(m, X), NEW w \in Entries(m.list)
  PROVE  LET r == [m EXCEPT !.visible = @ \cup {w}]
         IN /\ Sound(r, X \cup {w})
            /\ Entries(r.list) = Entries(m.list) /\ r.front = m.front
            /\ r \in WindowManager
<1>0. m \in WindowManager /\ w \in Windows
  BY OpenIsList DEF Sound, Coherent
<1>1. PICK r : r = [m EXCEPT !.visible = @ \cup {w}]
  OBVIOUS
<1>2. /\ r \in WindowManager /\ r.visible = m.visible \cup {w}
      /\ r.queue = m.queue /\ r.list = m.list /\ r.dirty = m.dirty /\ r.front = m.front
      /\ r.flushed = m.flushed /\ r.told = m.told /\ r.missed = m.missed /\ r.slot = m.slot
  BY <1>0, <1>1 DEF WindowManager
<1>3. Sound(r, X \cup {w})
  BY <1>2 DEF Sound, Coherent, Holds, NamesOpen
<1> QED BY <1>1, <1>2, <1>3

\* The active window may be set to any open window, or to none.
LEMMA FrontSound ==
  ASSUME NEW X, NEW m, Sound(m, X), NEW f, f = None \/ Nameable(m, f)
  PROVE  LET r == [m EXCEPT !.front = f]
         IN /\ Sound(r, X)
            /\ r.list = m.list /\ r.visible = m.visible /\ r.front = f
<1>0. m \in WindowManager /\ f \in Windows \cup {None}
  BY DEF Sound, Coherent, Nameable
<1>1. PICK r : r = [m EXCEPT !.front = f]
  OBVIOUS
<1>2. /\ r \in WindowManager /\ r.visible = m.visible
      /\ r.queue = m.queue /\ r.list = m.list /\ r.dirty = m.dirty /\ r.front = f
      /\ r.flushed = m.flushed /\ r.told = m.told /\ r.missed = m.missed /\ r.slot = m.slot
  BY <1>0, <1>1 DEF WindowManager
<1>3. Sound(r, X)
  BY <1>2 DEF Sound, Coherent, Holds, NamesOpen, Nameable
<1> QED BY <1>1, <1>2, <1>3

\* The active window can be named, and so can every open one.
LEMMA CanBeNamed ==
  ASSUME NEW X, NEW m, Sound(m, X)
  PROVE  /\ m.front = None \/ Nameable(m, m.front)
         /\ \A w \in Entries(m.list) : Nameable(m, w)
         /\ \A w : Sound(m, X \cup {w})
         /\ m \in WindowManager /\ Entries(m.list) \subseteq Windows /\ Entries(m.list) = Open(m)
<1>1. m \in WindowManager /\ (PairedDialogs => m.front \in Entries(m.list) \cup {None})
  BY DEF Sound, Coherent, NamesOpen
<1>2. m.front \in Windows \cup {None}
  BY <1>1, ManagerFields
<1>3. Entries(m.list) \subseteq Windows /\ Entries(m.list) = Open(m)
  BY <1>1, OpenIsList
<1>4. \A w : Sound(m, X \cup {w})
  BY DEF Sound, Coherent
<1> QED BY <1>1, <1>2, <1>3, <1>4 DEF Nameable

\* A window brought to the front and activated is due to draw; the old one is told first.
LEMMA ActivateAsFrontSound ==
  ASSUME NEW m, Sound(m, {}), NEW w \in Entries(m.list)
  PROVE  Sound(ActivateAsFront(m, w), {}) /\ Entries(ActivateAsFront(m, w).list) = Entries(m.list)
<1>0. w \in Windows /\ Nameable(m, w) /\ (m.front = None \/ Nameable(m, m.front))
  BY CanBeNamed
<1>1. CASE w = m.front
  <2>1. PICK t : t = TrackFront(m, w)
    OBVIOUS
  <2>2. Sound(t, {}) /\ Entries(t.list) = Entries(m.list)
    BY <1>0, <2>1, TrackFrontSound
  <2>3. Sound(t, {} \cup {w}) /\ Nameable(t, w)
    BY <2>2, CanBeNamed
  <2>4. ActivateAsFront(m, w) = Invalidate(t, w)
    BY <1>1, <2>1 DEF ActivateAsFront
  <2> QED BY <2>2, <2>3, <2>4, InvalidateSound DEF OnlyEvents
<1>2. CASE w # m.front
  <2>1. PICK s : s = SwitchEvents(m, m.front, w)
    OBVIOUS
  <2>2. Sound(s, {}) /\ OnlyEvents(s, m)
    BY <1>0, <2>1, SwitchEventsSound DEF Sound
  <2>3. PICK t : t = TrackFront(s, w)
    OBVIOUS
  <2>4. Sound(t, {}) /\ Entries(t.list) = Entries(m.list)
    <3>1. Entries(s.list) = Entries(m.list)
      BY <2>2 DEF OnlyEvents
    <3>2. Sound(t, {}) /\ Entries(t.list) = Entries(s.list) \cup {w}
      BY <1>0, <2>2, <2>3, TrackFrontSound
    <3> QED BY <3>1, <3>2
  <2>5. Nameable(t, w)
    BY <2>4, CanBeNamed
  <2>6. PICK f : f = [t EXCEPT !.front = w]
    OBVIOUS
  <2>7. Sound(f, {}) /\ f.list = t.list
    BY <2>4, <2>5, <2>6, FrontSound
  <2>8. Sound(f, {} \cup {w}) /\ Nameable(f, w)
    BY <2>4, <2>7, CanBeNamed
  <2>9. ActivateAsFront(m, w) = Invalidate(f, w)
    BY <1>2, <2>1, <2>3, <2>6 DEF ActivateAsFront
  <2>10. Sound(Invalidate(f, w), {}) /\ OnlyEvents(Invalidate(f, w), f)
    BY <2>8, InvalidateSound
  <2> QED BY <2>4, <2>7, <2>9, <2>10 DEF OnlyEvents
<1> QED BY <1>1, <1>2

\* A window made in front of the others becomes active after the old one is told.
LEMMA ActivateCreatedSound ==
  ASSUME NEW m, Sound(m, {}), NEW w \in Entries(m.list), NEW old, old = None \/ Nameable(m, old)
  PROVE  /\ Sound(ActivateCreated(m, w, old), {})
         /\ Entries(ActivateCreated(m, w, old).list) = Entries(m.list)
<1>1. CASE w = old
  BY <1>1 DEF ActivateCreated
<1>2. CASE w # old
  <2>1. PICK s : s = SwitchEvents(m, old, w)
    OBVIOUS
  <2>2. Sound(s, {}) /\ OnlyEvents(s, m)
    BY <2>1, SwitchEventsSound, CanBeNamed DEF Sound
  <2>3. Nameable(s, w)
    BY <2>2, CanBeNamed DEF OnlyEvents
  <2>4. ActivateCreated(m, w, old) = [s EXCEPT !.front = w]
    BY <1>2, <2>1 DEF ActivateCreated
  <2> QED BY <2>2, <2>3, <2>4, FrontSound DEF OnlyEvents
<1> QED BY <1>1, <1>2

\* A new window is listed, is the active one and, if it is shown, is asked to draw.
LEMMA MakeWindowSound ==
  ASSUME NEW m, Sound(m, {}), NEW w \in Windows, NEW shown \in BOOLEAN
  PROVE  /\ Sound(MakeWindow(m, w, shown), {})
         /\ Entries(MakeWindow(m, w, shown).list) = Entries(m.list) \cup {w}
<1>0. m \in WindowManager
  BY DEF Sound, Coherent
<1>1. PICK t : t = TrackFront(m, w)
  OBVIOUS
<1>2. Sound(t, {}) /\ Entries(t.list) = Entries(m.list) \cup {w} /\ t \in WindowManager
  BY <1>1, TrackFrontSound, CanBeNamed
<1>3. PICK r : r = TrackFront([m EXCEPT !.visible = IF shown THEN @ \cup {w} ELSE @ \ {w},
                                        !.dirty = IF shown THEN @ \cup {w} ELSE @ \ {w},
                                        !.front = w], w)
  OBVIOUS
<1>4. r = [t EXCEPT !.visible = IF shown THEN @ \cup {w} ELSE @ \ {w},
                    !.dirty = IF shown THEN @ \cup {w} ELSE @ \ {w},
                    !.front = w]
  BY <1>0, <1>1, <1>3 DEF TrackFront, WindowManager
<1>5. /\ r \in WindowManager
      /\ r.queue = t.queue /\ r.list = t.list /\ r.flushed = t.flushed /\ r.told = t.told /\ r.missed = t.missed
      /\ r.slot = t.slot /\ r.front = w
      /\ r.visible = IF shown THEN t.visible \cup {w} ELSE t.visible \ {w}
      /\ r.dirty = IF shown THEN t.dirty \cup {w} ELSE t.dirty \ {w}
  BY <1>2, <1>4 DEF WindowManager
<1>6. PairedDialogs => NamesOpen(r)
  BY <1>2, <1>5 DEF Sound, Coherent, NamesOpen
<1>7. r.visible \subseteq Entries(r.list) /\ Distinct(r.list)
  BY <1>2, <1>5 DEF Sound, Coherent
<1>8. \A x \in (r.visible \cap r.dirty) \ {w} :
                       Holds(r, x) \/ x \in r.flushed \/ x \in r.told \/ x \in r.missed
  BY <1>2, <1>5 DEF Sound, Coherent, Holds
<1>9. (\A x \in r.flushed : ~Holds(r, x)) /\ Distinct(r.queue) /\ Ordered(r.queue)
      /\ \A e \in Entries(r.queue) : e.what \in Polarity => e.message = r.slot[e.what]
  BY <1>2, <1>5 DEF Sound, Coherent, Holds
<1>10. Sound(r, {w})
  BY <1>5, <1>6, <1>7, <1>8, <1>9 DEF Sound, Coherent
<1>11. Nameable(r, w)
  BY <1>2, <1>5 DEF Nameable
<1>12. CASE shown
  <2>1. MakeWindow(m, w, shown) = QueueUpdate(r, w)
    BY <1>3, <1>12 DEF MakeWindow
  <2>2. Sound(QueueUpdate(r, w), {}) /\ OnlyEvents(QueueUpdate(r, w), r)
    BY <1>10, <1>11, QueueUpdateSound
  <2> QED BY <1>2, <1>5, <2>1, <2>2 DEF OnlyEvents
<1>13. CASE ~shown
  <2>1. MakeWindow(m, w, shown) = r
    BY <1>3, <1>13 DEF MakeWindow
  <2>2. Sound(r, {})
    BY <1>5, <1>10, <1>13 DEF Sound, Coherent
  <2> QED BY <1>2, <1>5, <2>1, <2>2
<1> QED BY <1>12, <1>13

\* A new window put behind others leaves the active window to whatever is in front.
LEMMA ApplyBehindSound ==
  ASSUME NEW m, Sound(m, {}), NEW w \in Entries(m.list), NEW behind, NEW exposed
  PROVE  /\ Sound(ApplyBehind(m, w, behind, exposed), {})
         /\ Entries(ApplyBehind(m, w, behind, exposed).list) = Entries(m.list)
<1>1. CASE behind = "first"
  BY <1>1 DEF ApplyBehind
<1>2. CASE behind # "first"
  <2>1. PICK b : b = MoveBehind(m, w, behind)
    OBVIOUS
  <2>2. Sound(b, {}) /\ Entries(b.list) = Entries(m.list) /\ b \in WindowManager
    BY <2>1, MoveBehindSound, CanBeNamed DEF OnlyEvents
  <2>3. FrontForInternalState(b) = None \/ Nameable(b, FrontForInternalState(b))
    BY <2>2, FrontIsListed, CanBeNamed
  <2>4. PICK f : f = [b EXCEPT !.front = FrontForInternalState(b)]
    OBVIOUS
  <2>5. Sound(f, {}) /\ f.list = b.list
    BY <2>2, <2>3, <2>4, FrontSound
  <2>6. ApplyBehind(m, w, behind, exposed) = InvalidateEach(f, exposed \cap VisibleAhead(b, w))
    BY <1>2, <2>1, <2>4 DEF ApplyBehind
  <2> QED BY <2>2, <2>5, <2>6, InvalidateEachSound DEF OnlyEvents
<1> QED BY <1>1, <1>2

---------------------------------------------------------------------------
(* The traps. *)

\* A trap that keeps the manager sound, closes no window and leaves what the dialogs
\* remember keeps the invariant.
LEMMA TrapKeeps ==
  ASSUME WindowsInv, NEW m, Sound(m, {}), Entries(wm.list) \subseteq Entries(m.list), Becomes(m)
  PROVE  WindowsInv'
<1>1. wm' = m /\ remembered' = remembered /\ entered' = entered
  BY DEF Becomes
<1>2. Open(wm) = Entries(wm.list) /\ Open(m) = Entries(m.list)
  BY CanBeNamed DEF WindowsInv
<1>3. Sound(wm', {})
  BY <1>1
<1>4. PairedDialogs => Entries(remembered') \subseteq Open(wm') \cup {None}
  BY <1>1, <1>2 DEF WindowsInv
<1> QED BY <1>1, <1>3, <1>4 DEF WindowsInv

\* The invariant, for what the traps use of it.
LEMMA InvNow ==
  ASSUME WindowsInv
  PROVE  /\ Sound(wm, {}) /\ wm \in WindowManager /\ Open(wm) = Entries(wm.list)
         /\ \A w : IsOpen(wm, w) <=> w \in Entries(wm.list)
         /\ Entries(wm.list) \subseteq Windows
         /\ wm.front = None \/ Nameable(wm, wm.front)
BY CanBeNamed, OpenIsList DEF WindowsInv

\* NewWindow lists the window and activates it only in front of the others.
LEMMA NewWindowKeeps ==
  ASSUME WindowsInv, NEW w \in Documents, NEW shown \in BOOLEAN, NEW behind, NEW exposed,
         NewWindow(w, shown, behind, exposed)
  PROVE  WindowsInv'
<1>1. PICK m0 : m0 = MakeWindow(wm, w, shown)
  OBVIOUS
<1>2. Sound(m0, {}) /\ Entries(m0.list) = Entries(wm.list) \cup {w}
  BY <1>1, InvNow, MakeWindowSound DEF Windows
<1>3. PICK made : made = ApplyBehind(m0, w, behind, exposed)
  OBVIOUS
<1>4. Sound(made, {}) /\ Entries(made.list) = Entries(wm.list) \cup {w}
  <2>1. w \in Entries(m0.list)
    BY <1>2
  <2> QED BY <2>1, <1>2, <1>3, ApplyBehindSound
<1>5. wm.front = None \/ Nameable(made, wm.front)
  BY <1>4, InvNow DEF Nameable
<1>6. PICK r : r = IF behind = "first" \/ (shown /\ wm.front = None /\ made.front = w)
                   THEN IF shown THEN ActivateCreated(made, w, wm.front)
                        ELSE [made EXCEPT !.front = wm.front]
                   ELSE made
  OBVIOUS
<1>7. Becomes(r)
  BY <1>1, <1>3, <1>6 DEF NewWindow
<1>8. Sound(ActivateCreated(made, w, wm.front), {})
      /\ Entries(ActivateCreated(made, w, wm.front).list) = Entries(made.list)
  BY <1>4, <1>5, ActivateCreatedSound
<1>9. Sound([made EXCEPT !.front = wm.front], {})
      /\ [made EXCEPT !.front = wm.front].list = made.list
  BY <1>4, <1>5, FrontSound
<1>10. Sound(r, {}) /\ Entries(r.list) = Entries(made.list)
  BY <1>4, <1>6, <1>8, <1>9
<1> QED BY <1>4, <1>7, <1>10, TrapKeeps

\* CloseWindow and DisposeWindow name the next window, which is open, never the closed one.
LEMMA CloseWindowKeeps ==
  ASSUME WindowsInv, NEW w, NEW exposed, CloseWindow(w, exposed)
  PROVE  WindowsInv'
<1>1. w \in Windows /\ w \in Entries(wm.list) /\ (PairedDialogs => w \notin Entries(remembered))
  <2>1. remembered \in Seq(Windows \cup {None})
    BY DEF WindowsInv
  <2>2. DOMAIN remembered = 1..Len(remembered)
    BY <2>1
  <2> QED BY <2>2, InvNow DEF CloseWindow, MayClose, Contains, Entries
<1>2. PICK u : u = Untrack(wm, w)
  OBVIOUS
<1>3. Sound(u, {}) /\ Entries(u.list) = Entries(wm.list) \ {w}
  BY <1>1, <1>2, InvNow, UntrackSound
<1>4. PICK gone : gone = InvalidateEach(u, exposed \cap VisibleBehind(wm, w))
  OBVIOUS
<1>5. Sound(gone, {}) /\ Entries(gone.list) = Entries(wm.list) \ {w}
  BY <1>3, <1>4, InvalidateEachSound DEF OnlyEvents
<1>6. PICK r : r = IF wm.front = w THEN QueueActivation(gone, "activate", gone.front) ELSE gone
  OBVIOUS
<1>7. Sound(r, {}) /\ Entries(r.list) = Entries(wm.list) \ {w}
  <2>1. gone.front = None \/ Nameable(gone, gone.front)
    BY <1>5, CanBeNamed
  <2> QED BY <2>1, <1>5, <1>6, QueueActivationOrNone DEF OnlyEvents
<1>8. wm' = r /\ remembered' = remembered /\ entered' = entered
  BY <1>2, <1>4, <1>6 DEF CloseWindow, Becomes
<1>9. PairedDialogs => Entries(remembered) \subseteq Open(r) \cup {None}
  BY <1>1, <1>7, InvNow, CanBeNamed DEF WindowsInv
<1>10. Sound(wm', {})
  BY <1>7, <1>8
<1> QED BY <1>8, <1>9, <1>10 DEF WindowsInv

\* ShowWindow activates the window if it is first in the list.
LEMMA ShowWindowKeeps ==
  ASSUME WindowsInv, NEW w, ShowWindow(w)
  PROVE  WindowsInv'
<1>1. w \in Entries(wm.list)
  BY InvNow DEF ShowWindow
<1>2. PICK q : q = QueueActivation(wm, "activate", w)
  OBVIOUS
<1>3. Sound(q, {}) /\ Entries(q.list) = Entries(wm.list)
  BY <1>1, <1>2, InvNow, CanBeNamed, QueueActivationOrNone DEF OnlyEvents
<1>4. PICK f : f = [q EXCEPT !.front = w]
  OBVIOUS
<1>5. Sound(f, {}) /\ Entries(f.list) = Entries(wm.list)
  BY <1>1, <1>3, <1>4, CanBeNamed, FrontSound
<1>6. PICK active : active = IF Head(wm.list) = w THEN f ELSE wm
  OBVIOUS
<1>7. Sound(active, {}) /\ Entries(active.list) = Entries(wm.list)
  BY <1>5, <1>6, InvNow
<1>8. PICK v : v = [active EXCEPT !.visible = @ \cup {w}]
  OBVIOUS
<1>9. Sound(v, {} \cup {w}) /\ Entries(v.list) = Entries(wm.list) /\ Nameable(v, w)
  <2>1. Sound(v, {} \cup {w}) /\ Entries(v.list) = Entries(wm.list)
    BY <1>1, <1>7, <1>8, ShownSound
  <2> QED BY <2>1, <1>1, CanBeNamed
<1>10. Sound(Invalidate(v, w), {}) /\ Entries(Invalidate(v, w).list) = Entries(wm.list)
  BY <1>9, InvalidateSound DEF OnlyEvents
<1>11. Becomes(Invalidate(v, w))
  BY <1>2, <1>4, <1>6, <1>8 DEF ShowWindow, Reveal
<1> QED BY <1>10, <1>11, TrapKeeps

\* HideWindow activates the next visible window if it hid the active one.
LEMMA HideWindowKeeps ==
  ASSUME WindowsInv, NEW w, NEW exposed, HideWindow(w, exposed)
  PROVE  WindowsInv'
<1>1. w \in Windows /\ w \in Entries(wm.list)
  BY InvNow DEF HideWindow
<1>2. PICK hidden : hidden = Hidden(wm, w)
  OBVIOUS
<1>3. Sound(hidden, {}) /\ Entries(hidden.list) = Entries(wm.list) /\ hidden \in WindowManager
  BY <1>1, <1>2, InvNow, HiddenSound, CanBeNamed
<1>4. PICK next : next = FirstVisible(hidden)
  OBVIOUS
<1>5. next = None \/ next \in Entries(hidden.list)
  BY <1>3, <1>4, FrontIsListed
<1>6. PICK active : active = IF wm.front # w THEN hidden
                             ELSE IF next # None THEN ActivateAsFront(hidden, next)
                             ELSE [hidden EXCEPT !.front = None]
  OBVIOUS
<1>7. Sound(active, {}) /\ Entries(active.list) = Entries(wm.list)
  <2>1. CASE wm.front # w
    BY <2>1, <1>3, <1>6
  <2>2. CASE wm.front = w /\ next # None
    BY <2>2, <1>3, <1>5, <1>6, ActivateAsFrontSound
  <2>3. CASE wm.front = w /\ next = None
    BY <2>3, <1>3, <1>6, FrontSound
  <2> QED BY <2>1, <2>2, <2>3
<1>8. PICK r : r = IF w \in wm.visible
                   THEN InvalidateEach(active, exposed \cap VisibleBehind(wm, w)) ELSE hidden
  OBVIOUS
<1>9. Sound(r, {}) /\ Entries(r.list) = Entries(wm.list)
  BY <1>3, <1>7, <1>8, InvalidateEachSound DEF OnlyEvents
<1>10. Becomes(r)
  BY <1>2, <1>4, <1>6, <1>8 DEF HideWindow, Hidden
<1> QED BY <1>9, <1>10, TrapKeeps

\* ShowHide shows a window; without a visible active window another takes its place.
LEMMA ShowOnlyKeeps ==
  ASSUME WindowsInv, NEW w, ShowOnly(w)
  PROVE  WindowsInv'
<1>1. w \in Entries(wm.list)
  BY InvNow DEF ShowOnly
<1>2. PICK shown : shown = [wm EXCEPT !.visible = @ \cup {w}]
  OBVIOUS
<1>3. Sound(shown, {w}) /\ Entries(shown.list) = Entries(wm.list) /\ shown \in WindowManager
  <2>1. {} \cup {w} = {w}
    OBVIOUS
  <2> QED BY <2>1, <1>1, <1>2, InvNow, ShownSound
<1>4. FrontForInternalState(shown) = None \/ Nameable(shown, FrontForInternalState(shown))
  BY <1>3, FrontIsListed, CanBeNamed
<1>5. PICK f : f = IF wm.front \in shown.visible THEN shown
                   ELSE [shown EXCEPT !.front = FrontForInternalState(shown)]
  OBVIOUS
<1>6. Sound(f, {w}) /\ f.list = shown.list
  BY <1>3, <1>4, <1>5, FrontSound
<1>7. PICK v : v = [f EXCEPT !.visible = @ \cup {w}]
  OBVIOUS
<1>8. Sound(v, {} \cup {w}) /\ Entries(v.list) = Entries(wm.list) /\ Nameable(v, w)
  <2>1. Sound(v, {w} \cup {w}) /\ Entries(v.list) = Entries(wm.list)
    BY <1>1, <1>3, <1>6, <1>7, ShownSound
  <2>2. {w} \cup {w} = {} \cup {w}
    OBVIOUS
  <2> QED BY <2>1, <2>2, <1>1, CanBeNamed
<1>9. Sound(Invalidate(v, w), {}) /\ Entries(Invalidate(v, w).list) = Entries(wm.list)
  BY <1>8, InvalidateSound DEF OnlyEvents
<1>10. Becomes(Invalidate(v, w))
  BY <1>2, <1>5, <1>7 DEF ShowOnly, Reveal
<1> QED BY <1>9, <1>10, TrapKeeps

\* ShowHide hides a window and activates no other.
LEMMA HideOnlyKeeps ==
  ASSUME WindowsInv, NEW w, NEW exposed, HideOnly(w, exposed)
  PROVE  WindowsInv'
<1>1. w \in Windows
  BY InvNow DEF HideOnly
<1>2. PICK hidden : hidden = Hidden(wm, w)
  OBVIOUS
<1>3. Sound(hidden, {}) /\ Entries(hidden.list) = Entries(wm.list)
  BY <1>1, <1>2, InvNow, HiddenSound
<1>4. PICK r : r = IF w \in wm.visible
                   THEN InvalidateEach(hidden, exposed \cap VisibleBehind(wm, w)) ELSE hidden
  OBVIOUS
<1>5. Sound(r, {}) /\ Entries(r.list) = Entries(wm.list)
  BY <1>3, <1>4, InvalidateEachSound DEF OnlyEvents
<1>6. Becomes(r)
  BY <1>2, <1>4 DEF HideOnly, Hidden
<1> QED BY <1>5, <1>6, TrapKeeps

\* SelectWindow, BringToFront, InvalRect, ValidRect and BeginUpdate are one operator each.
LEMMA SimpleTrapsKeep ==
  ASSUME WindowsInv, NEW w,
         \/ SelectWindow(w) \/ BringToFront(w) \/ InvalRect(w) \/ ValidRect(w) \/ BeginUpdate(w)
  PROVE  WindowsInv'
<1>1. w \in Entries(wm.list) /\ w \in Windows
  BY InvNow DEF SelectWindow, BringToFront, InvalRect, ValidRect, BeginUpdate
<1>2. Sound(wm, {} \cup {w}) /\ Nameable(wm, w)
  BY <1>1, InvNow, CanBeNamed
<1>3. CASE SelectWindow(w)
  BY <1>1, <1>3, InvNow, ActivateAsFrontSound, TrapKeeps DEF SelectWindow
<1>4. CASE BringToFront(w)
  <2>1. PICK t : t = TrackFront(wm, w)
    OBVIOUS
  <2>2. Sound(t, {}) /\ Entries(t.list) = Entries(wm.list)
    <3>1. Sound(t, {}) /\ Entries(t.list) = Entries(wm.list) \cup {w}
      BY <1>1, <2>1, InvNow, TrackFrontSound
    <3> QED BY <1>1, <3>1
  <2>3. Sound(t, {} \cup {w}) /\ Nameable(t, w)
    BY <1>1, <2>2, CanBeNamed
  <2>4. Sound(Invalidate(t, w), {}) /\ Entries(Invalidate(t, w).list) = Entries(wm.list)
    BY <2>2, <2>3, InvalidateSound DEF OnlyEvents
  <2> QED BY <1>4, <2>1, <2>4, TrapKeeps DEF BringToFront
<1>5. CASE InvalRect(w)
  BY <1>2, <1>5, InvalidateSound, TrapKeeps DEF InvalRect, OnlyEvents
<1>6. CASE ValidRect(w) \/ BeginUpdate(w)
  BY <1>1, <1>2, <1>6, RepairedSound, TrapKeeps DEF ValidRect, BeginUpdate, OnlyEvents
<1> QED BY <1>3, <1>4, <1>5, <1>6

\* SendBehind hands activation to whatever is in front now.
LEMMA SendBehindKeeps ==
  ASSUME WindowsInv, NEW w, NEW behind, NEW exposed, SendBehind(w, behind, exposed)
  PROVE  WindowsInv'
<1>1. w \in Entries(wm.list)
  BY InvNow DEF SendBehind
<1>2. PICK moved : moved = MoveBehind(wm, w, behind)
  OBVIOUS
<1>3. Sound(moved, {}) /\ Entries(moved.list) = Entries(wm.list) /\ moved \in WindowManager
      /\ moved.front = wm.front /\ Nameable(moved, w)
  BY <1>1, <1>2, InvNow, MoveBehindSound, CanBeNamed DEF OnlyEvents
<1>4. PICK next : next = FrontForInternalState(moved)
  OBVIOUS
<1>5. next \in Entries(wm.list)
  <2>a. moved.list \in Seq(Windows)
    BY <1>3, ManagerFields
  <2>b. Entries(<<>>) = {}
    BY DEF Entries
  <2>1. moved.list \in Seq(Windows) /\ moved.list # <<>>
    BY <1>1, <1>3, <2>a, <2>b
  <2>2. 1 \in DOMAIN moved.list /\ Head(moved.list) = moved.list[1]
    BY <2>1
  <2>3. Head(moved.list) \in Entries(moved.list)
    BY <2>2 DEF Entries
  <2>4. FirstVisible(moved) \in Entries(moved.list) \cup {None}
    BY <1>3, FrontIsListed
  <2> QED BY <1>3, <1>4, <2>1, <2>3, <2>4 DEF FrontForInternalState, FirstOr
<1>6. PICK f : f = [SwitchEvents(moved, w, next) EXCEPT !.front = next]
  OBVIOUS
<1>7. Sound(f, {}) /\ Entries(f.list) = Entries(wm.list)
  <2>1. Nameable(moved, next) /\ Coherent(moved, {})
    BY <1>3, <1>5, CanBeNamed DEF Sound
  <2>2. Sound(SwitchEvents(moved, w, next), {}) /\ OnlyEvents(SwitchEvents(moved, w, next), moved)
    BY <1>3, <2>1, SwitchEventsSound
  <2>3. Nameable(SwitchEvents(moved, w, next), next)
    BY <2>1, <2>2 DEF Nameable, OnlyEvents
  <2> QED BY <1>3, <1>6, <2>2, <2>3, FrontSound DEF OnlyEvents
<1>8. Sound(Invalidate(f, next), {}) /\ Entries(Invalidate(f, next).list) = Entries(wm.list)
  <2>1. Sound(f, {} \cup {next}) /\ Nameable(f, next)
    BY <1>5, <1>7, CanBeNamed
  <2> QED BY <1>7, <2>1, InvalidateSound DEF OnlyEvents
<1>9. PICK active : active = IF wm.front # w \/ next = w THEN moved ELSE Invalidate(f, next)
  OBVIOUS
<1>10. Sound(active, {}) /\ Entries(active.list) = Entries(wm.list)
  BY <1>3, <1>8, <1>9
<1>11. Sound(InvalidateEach(active, exposed), {})
       /\ Entries(InvalidateEach(active, exposed).list) = Entries(wm.list)
  BY <1>10, InvalidateEachSound DEF OnlyEvents
<1>12. Becomes(InvalidateEach(active, exposed))
  BY <1>2, <1>4, <1>6, <1>9 DEF SendBehind
<1> QED BY <1>11, <1>12, TrapKeeps

\* Markers put aside for closed windows are dropped: no visible window loses its own.
LEMMA PolledSound ==
  ASSUME NEW m, Sound(m, {}), NEW r, r = [m EXCEPT !.flushed = @ \cap Open(m)]
  PROVE  Sound(r, {}) /\ r.list = m.list
<1>0. m \in WindowManager /\ Open(m) = Entries(m.list)
  BY CanBeNamed
<1>1. /\ r \in WindowManager /\ r.flushed = m.flushed \cap Entries(m.list)
      /\ r.queue = m.queue /\ r.list = m.list /\ r.dirty = m.dirty /\ r.front = m.front
      /\ r.visible = m.visible /\ r.told = m.told /\ r.missed = m.missed /\ r.slot = m.slot
  BY <1>0 DEF WindowManager
<1>2. PairedDialogs => NamesOpen(r)
  BY <1>1 DEF NamesOpen, Sound, Coherent
<1>3. \A w \in (r.visible \cap r.dirty) \ {} :
                       Holds(r, w) \/ w \in r.flushed \/ w \in r.told \/ w \in r.missed
  BY <1>1 DEF Sound, Coherent, Holds
<1>4. \A w \in r.flushed : ~Holds(r, w)
  BY <1>1 DEF Sound, Coherent, Holds
<1> QED BY <1>1, <1>2, <1>3, <1>4 DEF Sound, Coherent

\* A returned update event is told to the application, which has its marker no more.
LEMMA TakeUpdateSound ==
  ASSUME NEW m, Sound(m, {}), NEW w \in Windows
  PROVE  Sound(TakeUpdate(m, w), {}) /\ TakeUpdate(m, w).list = m.list
<1>0. m \in WindowManager /\ m.queue \in Seq(Events) /\ (Marked(m, w) <=> Holds(m, w))
  BY ManagerFields, OpenIsList DEF Sound, Coherent
<1>1. PICK q : q = Without(m.queue, Event("update", w))
  OBVIOUS
<1>2. /\ q \in Seq(Events) /\ Distinct(q) /\ Ordered(q)
      /\ Entries(q) = Entries(m.queue) \ {Event("update", w)}
  BY <1>0, <1>1, QueueThinned DEF Sound, Coherent
<1>3. PICK r : r = TakeUpdate(m, w)
  OBVIOUS
<1>4. CASE Holds(m, w)
  <2>1. /\ r \in WindowManager /\ r.queue = q /\ r.dirty = m.dirty
        /\ r.list = m.list /\ r.visible = m.visible /\ r.front = m.front
        /\ r.flushed = m.flushed /\ r.told = m.told \cup {w} /\ r.missed = m.missed /\ r.slot = m.slot
    BY <1>0, <1>1, <1>2, <1>3, <1>4 DEF TakeUpdate, WindowManager
  <2>2. \A x : x # w => (Holds(r, x) <=> Holds(m, x))
    BY <1>2, <2>1 DEF Holds, Event
  <2>3. \A x : Holds(r, x) => Holds(m, x)
    BY <1>2, <2>1 DEF Holds
  <2>4. PairedDialogs => NamesOpen(r)
    BY <1>2, <2>1 DEF Sound, Coherent, NamesOpen
  <2>5. Coherent(r, {})
    BY <1>2, <2>1, <2>2, <2>3, <2>4 DEF Sound, Coherent
  <2> QED BY <1>2, <1>3, <2>1, <2>5 DEF Sound
<1>5. CASE ~Holds(m, w)
  <2>1. /\ r \in WindowManager /\ r.queue = m.queue /\ r.dirty = m.dirty
        /\ r.list = m.list /\ r.visible = m.visible /\ r.front = m.front
        /\ r.flushed = m.flushed \ {w} /\ r.told = m.told \cup {w} /\ r.missed = m.missed /\ r.slot = m.slot
    BY <1>0, <1>3, <1>5 DEF TakeUpdate, WindowManager
  <2>2. Coherent(r, {})
    BY <2>1 DEF Sound, Coherent, NamesOpen, Holds
  <2> QED BY <1>3, <2>1, <2>2 DEF Sound
<1> QED BY <1>4, <1>5

\* A returned activation event clears the slot that named it, and nothing else used it.
LEMMA TakeActivationSound ==
  ASSUME NEW m, Sound(m, {}), NEW e \in Entries(m.queue), e.what \in Polarity
  PROVE  Sound(TakeActivation(m, e), {}) /\ TakeActivation(m, e).list = m.list
<1>0. /\ m \in WindowManager /\ m.queue \in Seq(Events) /\ e \in Events
      /\ Entries(m.queue) \subseteq Events /\ m.slot \in [Polarity -> Windows \cup {None}]
  BY ManagerFields, OpenIsList DEF Sound, Coherent
<1>1. PICK q : q = Without(m.queue, e)
  OBVIOUS
<1>2. /\ q \in Seq(Events) /\ Distinct(q) /\ Ordered(q) /\ Entries(q) = Entries(m.queue) \ {e}
  BY <1>0, <1>1, QueueThinned DEF Sound, Coherent
<1>3. PICK r : r = TakeActivation(m, e)
  OBVIOUS
<1>4. PICK s : s = [m.slot EXCEPT ![e.what] = IF @ = e.message THEN None ELSE @]
  OBVIOUS
<1>5. s \in [Polarity -> Windows \cup {None}] /\ \A p \in Polarity : p # e.what => s[p] = m.slot[p]
  BY <1>0, <1>4
<1>6. /\ r \in WindowManager /\ r.queue = q /\ r.dirty = m.dirty
      /\ r.list = m.list /\ r.visible = m.visible /\ r.front = m.front
      /\ r.flushed = m.flushed /\ r.told = m.told /\ r.missed = m.missed /\ r.slot = s
  BY <1>0, <1>1, <1>2, <1>3, <1>4, <1>5 DEF TakeActivation, WindowManager
<1>7. \A x : Holds(r, x) <=> Holds(m, x)
  <2>1. \A x : Event("update", x) # e
    BY DEF Event, Polarity
  <2> QED BY <2>1, <1>2, <1>6 DEF Holds
<1>8. ASSUME NEW f \in Entries(q), f.what \in Polarity PROVE f.message = s[f.what]
  <2>1. f.message = m.slot[f.what] /\ e.message = m.slot[e.what]
    BY <1>2, <1>8 DEF Sound, Coherent
  <2>2. f.what # e.what
    BY <1>0, <1>2, <2>1, EventsEqual
  <2> QED BY <1>5, <1>8, <2>1, <2>2
<1>9. PairedDialogs => NamesOpen(r)
  <2>1. \A p \in Polarity : s[p] = m.slot[p] \/ s[p] = None
    BY <1>0, <1>4
  <2> QED BY <1>2, <1>6, <2>1 DEF NamesOpen, Sound, Coherent
<1>10. Coherent(r, {})
  BY <1>2, <1>6, <1>7, <1>8, <1>9 DEF Sound, Coherent
<1> QED BY <1>2, <1>3, <1>6, <1>10 DEF Sound

\* What a poll returns is taken back from wherever it was kept.
LEMMA GetNextEventKeeps ==
  ASSUME WindowsInv, NEW mask, GetNextEvent(mask)
  PROVE  WindowsInv'
<1>1. PICK polled : polled = IF "update" \in mask THEN [wm EXCEPT !.flushed = @ \cap Open(wm)] ELSE wm
  OBVIOUS
<1>2. Sound(polled, {}) /\ polled.list = wm.list
  BY <1>1, InvNow, PolledSound
<1>3. PICK matches : matches = Among(polled.queue, {e \in Events : Class(e) = "activation"})
  OBVIOUS
<1>4. PICK update : update = Preferred(polled)
  OBVIOUS
<1>5. PICK r : r = IF "activation" \in mask /\ matches # <<>> THEN TakeActivation(polled, Head(matches))
                   ELSE IF "update" \in mask /\ update # None THEN TakeUpdate(polled, update)
                   ELSE polled
  OBVIOUS
<1>6. Becomes(r)
  BY <1>1, <1>3, <1>4, <1>5 DEF GetNextEvent
<1>7. polled.queue \in Seq(Events) /\ polled.list \in Seq(Windows)
  BY <1>2, CanBeNamed, ManagerFields
<1>8. matches # <<>> => Head(matches) \in Entries(polled.queue) /\ Head(matches).what \in Polarity
  <2> SUFFICES ASSUME matches # <<>>
               PROVE  Head(matches) \in Entries(polled.queue) /\ Head(matches).what \in Polarity
    OBVIOUS
  <2>1. matches \in Seq(Events)
        /\ Entries(matches) = Entries(polled.queue) \cap {e \in Events : Class(e) = "activation"}
    BY <1>3, <1>7, AmongProperties
  <2>2. Head(matches) \in Entries(matches)
    <3>1. 1 \in DOMAIN matches /\ Head(matches) = matches[1]
      BY <2>1
    <3> QED BY <3>1 DEF Entries
  <2>3. \A e \in Events : Class(e) = "activation" => e.what \in Polarity
    BY DEF Class, Events, Kinds
  <2> QED BY <2>1, <2>2, <2>3
<1>9. update # None => update \in Windows
  <2>1. PICK T, U : T = {w \in polled.visible \cap polled.dirty : Marked(polled, w) \/ w \in polled.flushed}
                    /\ U = {e \in Events : e.what = "update" /\ ~IsOpen(polled, e.message)}
    OBVIOUS
  <2>2. PICK due, unknown : due = Among(polled.list, T) /\ unknown = Among(polled.queue, U)
    OBVIOUS
  <2>3. due \in Seq(Windows) /\ unknown \in Seq(Events)
    BY <1>7, <2>2, AmongProperties
  <2>4. due # <<>> => Head(due) \in Windows
    BY <2>3
  <2>5. unknown # <<>> => Head(unknown) \in Events
    BY <2>3
  <2>6. \A e \in Events : e.message \in Windows
    BY DEF Events
  <2>7. update = IF due # <<>> THEN Head(due)
                 ELSE IF unknown # <<>> THEN Head(unknown).message ELSE None
    BY <1>4, <2>1, <2>2 DEF Preferred
  <2> QED BY <2>4, <2>5, <2>6, <2>7
<1>10. Sound(r, {}) /\ r.list = wm.list
  <2>1. CASE "activation" \in mask /\ matches # <<>>
    BY <2>1, <1>2, <1>5, <1>8, TakeActivationSound
  <2>2. CASE ~("activation" \in mask /\ matches # <<>>) /\ "update" \in mask /\ update # None
    BY <2>2, <1>2, <1>5, <1>9, TakeUpdateSound
  <2>3. CASE ~("activation" \in mask /\ matches # <<>>) /\ ~("update" \in mask /\ update # None)
    BY <2>3, <1>2, <1>5
  <2> QED BY <2>1, <2>2, <2>3
<1> QED BY <1>6, <1>10, TrapKeeps

\* A flushed marker is put aside in the step that takes it from the queue.
LEMMA FlushEventsKeeps ==
  ASSUME WindowsInv, NEW mask, FlushEvents(mask)
  PROVE  WindowsInv'
<1> DEFINE T == {e \in Events : Class(e) \notin mask}
           F == {w \in Windows : "update" \in mask /\ Marked(wm, w)}
<1>0. /\ Sound(wm, {}) /\ wm \in WindowManager /\ wm.queue \in Seq(Events)
      /\ Entries(wm.queue) \subseteq Events /\ wm.flushed \subseteq Windows
      /\ wm.visible \subseteq Windows
  BY InvNow, ManagerFields, OpenIsList
<1>1. PICK q : q = Among(wm.queue, T)
  OBVIOUS
<1>2. /\ q \in Seq(Events) /\ Distinct(q) /\ Ordered(q) /\ Entries(q) = Entries(wm.queue) \cap T
  <2> HIDE DEF T
  <2> QED BY <1>0, <1>1, QueueThinned DEF Sound, Coherent
<1>3. PICK r : r = [wm EXCEPT !.queue = Among(@, T), !.flushed = @ \cup F]
  OBVIOUS
<1>4. Becomes(r)
  BY <1>3 DEF FlushEvents
<1>5. /\ r \in WindowManager /\ r.queue = q /\ r.dirty = wm.dirty
      /\ r.list = wm.list /\ r.visible = wm.visible /\ r.front = wm.front
      /\ r.flushed = wm.flushed \cup F /\ r.told = wm.told /\ r.missed = wm.missed /\ r.slot = wm.slot
  <2>1. F \subseteq Windows
    OBVIOUS
  <2> HIDE DEF F, T
  <2> QED BY <1>0, <1>1, <1>2, <1>3, <2>1 DEF WindowManager
<1>6. \A w \in Windows : Event("update", w) \in Events /\ Class(Event("update", w)) = "update"
  BY EventFields DEF Class, Kinds
<1>7. \A w \in Windows : Holds(r, w) <=> Holds(wm, w) /\ "update" \notin mask
  BY <1>2, <1>5, <1>6 DEF Holds
<1>8. \A w \in Windows : w \in F <=> Holds(wm, w) /\ "update" \in mask
  BY <1>0, OpenIsList
<1>9. \A w \in F : w = Event("update", w).message /\ Event("update", w) \in Entries(wm.queue)
  BY <1>8, EventFields DEF Holds, Kinds
<1>10. r.flushed \subseteq Windows
  BY <1>0, <1>5
<1> HIDE DEF F, T
<1>11. PairedDialogs => NamesOpen(r)
  <2> SUFFICES ASSUME PairedDialogs PROVE NamesOpen(r)
    OBVIOUS
  <2>1. NamesOpen(wm)
    BY <1>0 DEF Sound, Coherent
  <2>2. F \subseteq Entries(wm.list) \cup {None}
    BY <1>9, <2>1 DEF NamesOpen
  <2> QED BY <1>2, <1>5, <2>1, <2>2 DEF NamesOpen
<1>12. \A w \in r.flushed : ~Holds(r, w)
  BY <1>0, <1>5, <1>7, <1>8, <1>10 DEF Sound, Coherent
<1>13. \A w \in (r.visible \cap r.dirty) \ {} :
                       Holds(r, w) \/ w \in r.flushed \/ w \in r.told \/ w \in r.missed
  BY <1>0, <1>5, <1>7, <1>8 DEF Sound, Coherent
<1>14. Coherent(r, {})
  BY <1>0, <1>2, <1>5, <1>11, <1>12, <1>13 DEF Sound, Coherent
<1> QED BY <1>2, <1>4, <1>5, <1>14, TrapKeeps DEF Sound

---------------------------------------------------------------------------
(* Dialogs. *)

\* A new dialog remembers what was active, which is open.
LEMMA NewDialogKeeps ==
  ASSUME WindowsInv, NEW d \in Dialogs, NEW shown \in BOOLEAN, NEW drawn \in BOOLEAN,
         NEW behind, NEW exposed, NewDialog(d, shown, drawn, behind, exposed)
  PROVE  WindowsInv'
<1>0. d \in Windows
  BY DEF Windows
<1>1. PICK made : made = MakeWindow(wm, d, shown)
  OBVIOUS
<1>2. Sound(made, {}) /\ Entries(made.list) = Entries(wm.list) \cup {d}
  BY <1>0, <1>1, InvNow, MakeWindowSound
<1>3. PICK clean : clean = IF drawn THEN Repaired(made, d) ELSE made
  OBVIOUS
<1>4. Sound(clean, {}) /\ Entries(clean.list) = Entries(wm.list) \cup {d}
  <2>1. Sound(made, {} \cup {d})
    BY <1>2, CanBeNamed
  <2>2. Sound(Repaired(made, d), {}) /\ OnlyEvents(Repaired(made, d), made)
    BY <1>0, <2>1, RepairedSound
  <2> QED BY <1>2, <1>3, <2>2 DEF OnlyEvents
<1>5. PICK ready : ready = IF ~shown THEN made ELSE QueueUpdate(clean, d)
  OBVIOUS
<1>6. Sound(ready, {}) /\ Entries(ready.list) = Entries(wm.list) \cup {d}
  <2>1. Sound(clean, {} \cup {d}) /\ Nameable(clean, d)
    <3>1. d \in Entries(clean.list)
      BY <1>4
    <3> QED BY <3>1, <1>4, CanBeNamed
  <2>2. Sound(QueueUpdate(clean, d), {}) /\ OnlyEvents(QueueUpdate(clean, d), clean)
    BY <2>1, QueueUpdateSound
  <2> QED BY <1>2, <1>4, <1>5, <2>2 DEF OnlyEvents
<1>7. wm' = ApplyBehind(ready, d, behind, exposed)
  BY <1>1, <1>3, <1>5 DEF NewDialog
<1>8. Sound(wm', {}) /\ Entries(wm'.list) = Entries(wm.list) \cup {d}
  <2>1. d \in Entries(ready.list)
    BY <1>6
  <2> QED BY <1>6, <1>7, <2>1, ApplyBehindSound
<1>9. Open(wm') = Entries(wm.list) \cup {d}
  BY <1>8, CanBeNamed
<1>10. remembered' = Append(remembered, wm.front) /\ entered' = entered
  BY DEF NewDialog
<1>11. remembered \in Seq(Windows \cup {None}) /\ wm.front \in Windows \cup {None}
  BY InvNow, ManagerFields DEF WindowsInv
<1>12. remembered' \in Seq(Windows \cup {None})
       /\ Entries(remembered') = Entries(remembered) \cup {wm.front}
  BY <1>10, <1>11, PushProperties
<1>13. PairedDialogs => Entries(remembered') \subseteq Open(wm') \cup {None}
  BY <1>9, <1>12, InvNow DEF WindowsInv, Nameable
<1> QED BY <1>8, <1>10, <1>12, <1>13 DEF WindowsInv

\* What is left behind a position keeps its order, and nothing is in it twice.
LEMMA RestOfQueue ==
  ASSUME NEW q \in Seq(Events), Distinct(q), Ordered(q), NEW k \in DOMAIN q
  PROVE  LET r == SubSeq(q, k + 1, Len(q))
         IN /\ r \in Seq(Events) /\ Distinct(r) /\ Ordered(r)
            /\ Entries(r) \subseteq Entries(q)
            /\ \A i \in DOMAIN q : k < i => q[i] \in Entries(r)
<1>1. PICK r : r = SubSeq(q, k + 1, Len(q))
  OBVIOUS
<1>2. /\ DOMAIN q = 1..Len(q) /\ Len(q) \in Nat /\ k \in 1..Len(q)
      /\ r \in Seq(Events) /\ Len(r) = Len(q) - k /\ DOMAIN r = 1..(Len(q) - k)
      /\ \A i \in 1..(Len(q) - k) : r[i] = q[k + i]
  <2>1. DOMAIN q = 1..Len(q) /\ Len(q) \in Nat /\ k \in 1..Len(q)
    OBVIOUS
  <2>2. /\ r \in Seq(Events) /\ Len(r) = Len(q) - k
        /\ \A i \in 1..(Len(q) - k) : r[i] = q[k + i]
    BY <1>1, <2>1
  <2> QED BY <2>1, <2>2
<1>3. \A i \in 1..(Len(q) - k) : k + i \in DOMAIN q
  BY <1>2
<1>4. Distinct(r)
  <2> SUFFICES ASSUME NEW i \in 1..(Len(q) - k), NEW j \in 1..(Len(q) - k), i # j
               PROVE  r[i] # r[j]
    BY <1>2 DEF Distinct
  <2>1. k + i # k + j
    BY <1>2
  <2> QED BY <2>1, <1>2, <1>3 DEF Distinct
<1>5. Ordered(r)
  <2> SUFFICES ASSUME NEW i \in 1..(Len(q) - k), NEW j \in 1..(Len(q) - k),
                      r[i].what = "deactivate", r[j].what = "activate"
               PROVE  i < j
    BY <1>2 DEF Ordered
  <2>1. k + i < k + j
    BY <1>2, <1>3 DEF Ordered
  <2> QED BY <2>1, <1>2
<1>6. Entries(r) \subseteq Entries(q)
  BY <1>2, <1>3 DEF Entries
<1>7. ASSUME NEW i \in DOMAIN q, k < i PROVE q[i] \in Entries(r)
  <2>1. (i - k) \in 1..(Len(q) - k) /\ k + (i - k) = i
    BY <1>2, <1>7
  <2> QED BY <1>2, <2>1 DEF Entries
<1> QED BY <1>1, <1>2, <1>4, <1>5, <1>6, <1>7

\* A marker of m is still in the queue q, or its window has missed its update.
MarkersLeft(m, q, M) ==
  \A w \in Windows : Holds(m, w) => Event("update", w) \in Entries(q) \/ w \in M

\* The manager r is m with the queue q and the missed updates M.
MissedBut(r, m, q, M) ==
  /\ r \in WindowManager /\ r.queue = q /\ r.dirty = m.dirty
  /\ r.list = m.list /\ r.visible = m.visible /\ r.front = m.front
  /\ r.flushed = m.flushed /\ r.told = m.told /\ r.missed = M /\ r.slot = m.slot

\* A queue may lose the markers of windows that have missed their updates.
LEMMA QueueReplaced ==
  ASSUME NEW X, NEW m, Sound(m, X), NEW q \in Seq(Events), Distinct(q), Ordered(q),
         Entries(q) \subseteq Entries(m.queue), NEW M, m.missed \subseteq M, MarkersLeft(m, q, M),
         NEW r, MissedBut(r, m, q, M)
  PROVE  Sound(r, X)
<1>0. m \in WindowManager /\ m.visible \subseteq Windows
  BY ManagerFields DEF Sound, Coherent
<1>2. /\ r \in WindowManager /\ r.queue = q /\ r.dirty = m.dirty
      /\ r.list = m.list /\ r.visible = m.visible /\ r.front = m.front
      /\ r.flushed = m.flushed /\ r.told = m.told /\ r.missed = M /\ r.slot = m.slot
  BY DEF MissedBut
<1>3. PairedDialogs => NamesOpen(r)
  BY <1>2 DEF NamesOpen, Sound, Coherent
<1>4. \A w \in r.flushed : ~Holds(r, w)
  BY <1>2 DEF Sound, Coherent, Holds
<1>5. ASSUME NEW w \in (r.visible \cap r.dirty) \ X
      PROVE  Holds(r, w) \/ w \in r.flushed \/ w \in r.told \/ w \in r.missed
  <2>1. w \in (m.visible \cap m.dirty) \ X /\ w \in Windows
    BY <1>0, <1>2
  <2>2. Holds(m, w) \/ w \in m.flushed \/ w \in m.told \/ w \in m.missed
    BY <2>1 DEF Sound, Coherent
  <2>3. Holds(m, w) => Holds(r, w) \/ w \in r.missed
    BY <1>2, <2>1 DEF Holds, MarkersLeft
  <2> QED BY <1>2, <2>2, <2>3
<1>6. Coherent(r, X)
  BY <1>2, <1>3, <1>4, <1>5 DEF Sound, Coherent
<1> QED BY <1>2, <1>6 DEF Sound

\* ModalDialog drops what is ahead of the first update event and takes that: a window it
\* names, other than the dialog, has missed its update.
LEMMA ModalDialogKeeps ==
  ASSUME WindowsInv, ModalDialog
  PROVE  WindowsInv'
<1>1. PICK d : d = wm.front
  OBVIOUS
<1>2. PICK updates : updates = {i \in DOMAIN wm.queue : wm.queue[i].what = "update"}
  OBVIOUS
<1>3. PICK first : first = CHOOSE i \in updates : \A j \in updates : i <= j
  OBVIOUS
<1>4. /\ d \in Dialogs /\ d \in Windows
      /\ wm' = IF updates = {} THEN [wm EXCEPT !.queue = <<>>]
               ELSE Repaired([wm EXCEPT !.queue = SubSeq(@, first + 1, Len(@)),
                                        !.missed = @ \cup {wm.queue[first].message}], d)
      /\ entered' = entered \cup {d}
      /\ remembered' = remembered
  BY <1>1, <1>2, <1>3 DEF ModalDialog, Windows
<1>0. /\ Sound(wm, {}) /\ wm \in WindowManager /\ wm.queue \in Seq(Events)
      /\ Entries(wm.queue) \subseteq Events /\ DOMAIN wm.queue = 1..Len(wm.queue)
  BY InvNow, ManagerFields, OpenIsList
<1>5. \A w \in Windows : Holds(wm, w) => \E i \in updates : wm.queue[i] = Event("update", w)
  BY <1>2, EventFields DEF Holds, Entries, Kinds
<1>6. CASE updates = {}
  <2>1. <<>> \in Seq(Events) /\ Distinct(<<>>) /\ Ordered(<<>>) /\ Entries(<<>>) = {}
    BY DEF Distinct, Ordered, Entries
  <2>2. \A w \in Windows : ~Holds(wm, w)
    BY <1>5, <1>6
  <2>3. PICK r : r = [wm EXCEPT !.queue = <<>>, !.missed = wm.missed]
    OBVIOUS
  <2>4. Sound(r, {}) /\ r.list = wm.list
    <3>1. Entries(<<>>) \subseteq Entries(wm.queue) /\ wm.missed \in SUBSET Windows
      BY <1>0, <2>1, ManagerFields
    <3>2. MarkersLeft(wm, <<>>, wm.missed)
      BY <2>2 DEF MarkersLeft
    <3>3. wm.missed \subseteq wm.missed /\ <<>> \in Seq(Events)
      OBVIOUS
    <3>4. MissedBut(r, wm, <<>>, wm.missed)
      BY <1>0, <2>1, <2>3, <3>1 DEF WindowManager, MissedBut
    <3>5. Sound(r, {})
      BY <1>0, <2>1, <3>1, <3>2, <3>3, <3>4, QueueReplaced
    <3> QED BY <3>4, <3>5 DEF MissedBut
  <2>5. wm' = r
    BY <1>0, <1>4, <1>6, <2>3 DEF WindowManager
  <2>6. Open(wm') = Open(wm)
    BY <1>0, <2>4, <2>5, CanBeNamed
  <2> QED BY <1>4, <2>4, <2>5, <2>6 DEF WindowsInv
<1>7. CASE updates # {}
  <2>1. first \in updates /\ \A j \in updates : first <= j
    <3>1. updates \subseteq Nat
      BY <1>0, <1>2
    <3>2. \E i \in updates : \A j \in updates : i <= j
      BY <1>7, <3>1, LeastNatural
    <3> QED BY <1>3, <3>2
  <2>2. first \in DOMAIN wm.queue /\ wm.queue[first].what = "update"
        /\ wm.queue[first] \in Events
    BY <1>0, <1>2, <2>1
  <2>3. PICK q : q = SubSeq(wm.queue, first + 1, Len(wm.queue))
    OBVIOUS
  <2>4. /\ q \in Seq(Events) /\ Distinct(q) /\ Ordered(q)
        /\ Entries(q) \subseteq Entries(wm.queue)
        /\ \A i \in DOMAIN wm.queue : first < i => wm.queue[i] \in Entries(q)
    BY <1>0, <2>2, <2>3, RestOfQueue DEF Sound, Coherent
  <2>m. PICK M : M = wm.missed \cup {wm.queue[first].message}
    OBVIOUS
  <2>n. M \in SUBSET Windows /\ wm.missed \subseteq M /\ wm.queue[first].message \in M
    BY <1>0, <2>2, <2>m, ManagerFields DEF Events
  <2>5. ASSUME NEW w \in Windows, Holds(wm, w)
        PROVE  Event("update", w) \in Entries(q) \/ w \in M
    <3>1. PICK i \in updates : wm.queue[i] = Event("update", w)
      BY <1>5, <2>5
    <3>2. Event("update", w).message = w
      BY <2>5, EventFields DEF Kinds
    <3>3. CASE i = first
      BY <2>n, <3>1, <3>2, <3>3
    <3>4. CASE i # first
      <4>1. first <= i /\ i \in DOMAIN wm.queue
        BY <1>2, <2>1, <3>1
      <4>2. first < i
        BY <1>0, <2>2, <3>4, <4>1
      <4> QED BY <2>4, <3>1, <4>1, <4>2
    <3> QED BY <3>3, <3>4
  <2>6. PICK r : r = [wm EXCEPT !.queue = q, !.missed = M]
    OBVIOUS
  <2>7. Sound(r, {}) /\ r.list = wm.list
    <3>1. MarkersLeft(wm, q, M)
      BY <2>5 DEF MarkersLeft
    <3>2. MissedBut(r, wm, q, M)
      BY <1>0, <2>4, <2>6, <2>n DEF WindowManager, MissedBut
    <3>3. Sound(r, {})
      BY <1>0, <2>4, <2>n, <3>1, <3>2, QueueReplaced
    <3> QED BY <3>2, <3>3 DEF MissedBut
  <2>8. Sound(Repaired(r, d), {}) /\ OnlyEvents(Repaired(r, d), r)
    BY <1>4, <2>7, CanBeNamed, RepairedSound
  <2>9. wm' = Repaired(r, d)
    BY <1>0, <1>4, <1>7, <2>3, <2>6, <2>m DEF WindowManager
  <2>10. Open(wm') = Open(wm)
    BY <1>0, <2>7, <2>8, <2>9, CanBeNamed DEF OnlyEvents
  <2> QED BY <1>4, <2>8, <2>9, <2>10 DEF WindowsInv
<1> QED BY <1>6, <1>7

\* A closed dialog hands activation back to the window it remembers, which is still open
\* if the application closes no window that a dialog remembers.
LEMMA CloseDialogKeeps ==
  ASSUME WindowsInv, NEW d \in Dialogs, NEW exposed \in SUBSET Open(wm), CloseDialog(d, exposed)
  PROVE  WindowsInv'
<1>0. d \in Windows /\ d \in Entries(wm.list) /\ exposed \subseteq Windows
      /\ remembered \in Seq(Windows \cup {None}) /\ DOMAIN remembered = 1..Len(remembered)
  BY InvNow DEF Windows, CloseDialog, WindowsInv
<1>1. PairedDialogs => /\ d \notin Entries(remembered)
                       /\ Entries(remembered) \subseteq Entries(wm.list) \cup {None}
  BY <1>0, InvNow DEF CloseDialog, MayClose, Contains, Entries, WindowsInv
<1>2. PICK u : u = Untrack(wm, d)
  OBVIOUS
<1>3. Sound(u, {}) /\ Entries(u.list) = Entries(wm.list) \ {d}
  BY <1>0, <1>2, InvNow, UntrackSound
<1>4. PICK behind : behind = VisibleBehind(wm, d)
  OBVIOUS
<1>5. PICK gone : gone = InvalidateEach(u, IF d \in wm.visible THEN exposed \cap behind ELSE {})
  OBVIOUS
<1>6. Sound(gone, {}) /\ Entries(gone.list) = Entries(wm.list) \ {d}
  BY <1>3, <1>5, InvalidateEachSound DEF OnlyEvents
<1>7. PICK previous : previous = IF Last(remembered) = None THEN gone.front ELSE Last(remembered)
  OBVIOUS
<1>8. PICK again : again = IF Contains(gone.queue, Event("activate", previous)) THEN gone
                           ELSE QueueActivation(gone, "activate", previous)
  OBVIOUS
<1>9. PICK restored : restored = [again EXCEPT !.front = previous]
  OBVIOUS
<1>10. PICK handsBack : handsBack = (/\ \/ wm.front = d
                                        \/ /\ d \in entered /\ remembered # <<>>
                                           /\ Last(remembered) = wm.front
                                     /\ remembered # <<>>)
  OBVIOUS
<1>11. /\ IF handsBack
          THEN /\ wm' = IF d \in wm.visible /\ previous \in exposed \ behind
                        THEN Invalidate(restored, previous) ELSE restored
               /\ remembered' = Front(remembered)
          ELSE wm' = gone /\ remembered' = remembered
       /\ entered' = entered \ {d}
  BY <1>2, <1>4, <1>5, <1>7, <1>8, <1>9, <1>10 DEF CloseDialog
<1>12. CASE handsBack
  <2>1. Len(remembered) \in DOMAIN remembered
    <3>1. remembered # <<>>
      BY <1>10, <1>12
    <3> QED BY <1>0, <3>1
  <2>2. Last(remembered) \in Entries(remembered) /\ Last(remembered) \in Windows \cup {None}
    BY <1>0, <2>1 DEF Last, Entries
  <2>3. previous = None \/ Nameable(gone, previous)
    <3>1. gone.front = None \/ Nameable(gone, gone.front)
      BY <1>6, CanBeNamed
    <3>2. CASE Last(remembered) = None
      BY <1>7, <3>1, <3>2
    <3>3. CASE Last(remembered) # None
      <4>1. previous = Last(remembered) /\ previous \in Windows
        BY <1>7, <2>2, <3>3
      <4>2. PairedDialogs => previous \in Entries(gone.list)
        BY <1>1, <1>6, <2>2, <3>3, <4>1
      <4> QED BY <4>1, <4>2 DEF Nameable
    <3> QED BY <3>2, <3>3
  <2>4. Sound(again, {}) /\ Entries(again.list) = Entries(gone.list)
    BY <1>6, <1>8, <2>3, QueueActivationOrNone DEF OnlyEvents
  <2>5. Sound(restored, {}) /\ restored.list = again.list
    BY <1>9, <2>3, <2>4, FrontSound DEF Nameable
  <2>6. previous \in exposed => /\ Sound(Invalidate(restored, previous), {})
                                /\ OnlyEvents(Invalidate(restored, previous), restored)
    <3> HAVE previous \in exposed
    <3>1. Nameable(restored, previous)
      BY <1>0, <2>3, <2>4, <2>5, WindowsAssumption DEF Nameable
    <3>2. Sound(restored, {} \cup {previous})
      BY <2>5, CanBeNamed
    <3> QED BY <3>1, <3>2, InvalidateSound
  <2>7. Sound(wm', {}) /\ Entries(wm'.list) = Entries(wm.list) \ {d}
    BY <1>6, <1>11, <1>12, <2>4, <2>5, <2>6 DEF OnlyEvents
  <2>8. /\ remembered' \in Seq(Windows \cup {None})
        /\ Entries(remembered') \subseteq Entries(remembered)
    <3>1. remembered' = SubSeq(remembered, 1, Len(remembered) - 1)
      BY <1>11, <1>12 DEF Front
    <3>2. /\ remembered' \in Seq(Windows \cup {None}) /\ Len(remembered') = Len(remembered) - 1
          /\ \A i \in 1..(Len(remembered) - 1) : remembered'[i] = remembered[i]
      BY <1>0, <2>1, <3>1
    <3>3. DOMAIN remembered' = 1..(Len(remembered) - 1)
      BY <3>2
    <3> QED BY <1>0, <3>2, <3>3 DEF Entries
  <2>9. PairedDialogs => Entries(remembered') \subseteq Open(wm') \cup {None}
    <3>1. Open(wm') = Entries(wm.list) \ {d}
      BY <2>7, CanBeNamed
    <3> QED BY <1>1, <2>8, <3>1
  <2> QED BY <1>11, <2>7, <2>8, <2>9 DEF WindowsInv
<1>13. CASE ~handsBack
  <2>1. wm' = gone /\ remembered' = remembered
    BY <1>11, <1>13
  <2>2. PairedDialogs => Entries(remembered') \subseteq Open(wm') \cup {None}
    <3>1. Open(wm') = Entries(wm.list) \ {d}
      BY <1>6, <2>1, CanBeNamed
    <3> QED BY <1>1, <2>1, <3>1
  <2> QED BY <1>6, <1>11, <2>1, <2>2 DEF WindowsInv
<1> QED BY <1>10, <1>12, <1>13

---------------------------------------------------------------------------
(* The theorems. *)

\* Nothing is open, pending or remembered at first.
LEMMA InitWindows == Init => WindowsInv
<1> SUFFICES ASSUME Init PROVE WindowsInv
  OBVIOUS
<1>1. wm \in WindowManager /\ wm.list = <<>> /\ wm.queue = <<>> /\ wm.visible = {}
      /\ wm.flushed = {} /\ wm.front = None /\ \A p \in Polarity : wm.slot[p] = None
  BY DEF Init, WindowManager
<1>2. Entries(<<>>) = {} /\ Distinct(<<>>) /\ Ordered(<<>>)
  BY DEF Entries, Distinct, Ordered
<1>3. Sound(wm, {})
  <2>1. NamesOpen(wm) /\ Ordered(wm.queue) /\ Entries(wm.queue) = {} /\ Entries(wm.list) = {}
    BY <1>1, <1>2 DEF NamesOpen
  <2>2. Distinct(wm.list) /\ Distinct(wm.queue)
    BY <1>1, <1>2
  <2> QED BY <1>1, <2>1, <2>2 DEF Sound, Coherent
<1>4. remembered = <<>> /\ entered = {}
  BY DEF Init
<1>5. remembered \in Seq(Windows \cup {None}) /\ Entries(remembered) = {}
  BY <1>2, <1>4
<1> QED BY <1>3, <1>4, <1>5 DEF WindowsInv

\* Every trap of the Window Manager, the event loop and the dialogs keeps the invariant.
LEMMA StepWindows == WindowsInv /\ [Next]_vars => WindowsInv'
<1> SUFFICES ASSUME WindowsInv, [Next]_vars PROVE WindowsInv'
  OBVIOUS
<1>1. CASE WindowTraps
  <2>1. CASE \E w \in Open(wm) :
               \/ SelectWindow(w) \/ ShowWindow(w) \/ ShowOnly(w)
               \/ BringToFront(w) \/ InvalRect(w) \/ ValidRect(w) \/ BeginUpdate(w)
    BY <2>1, SimpleTrapsKeep, ShowWindowKeeps, ShowOnlyKeeps
  <2>2. CASE \E w \in Open(wm) : \E exposed \in SUBSET VisibleBehind(wm, w) :
               HideWindow(w, exposed) \/ HideOnly(w, exposed)
    BY <2>2, HideWindowKeeps, HideOnlyKeeps
  <2>3. CASE \E w \in Open(wm), exposed \in SUBSET Open(wm) :
               \E behind \in ({None} \cup Windows) \ {w} : SendBehind(w, behind, exposed)
    BY <2>3, SendBehindKeeps
  <2>4. CASE \E w \in Documents, exposed \in SUBSET wm.visible :
               \/ CloseWindow(w, exposed)
               \/ \E shown \in BOOLEAN, behind \in Behinds : NewWindow(w, shown, behind, exposed)
    BY <2>4, CloseWindowKeeps, NewWindowKeeps
  <2> QED BY <1>1, <2>1, <2>2, <2>3, <2>4 DEF WindowTraps
<1>2. CASE EventTraps
  BY <1>2, GetNextEventKeeps, FlushEventsKeeps DEF EventTraps
<1>3. CASE DialogTraps
  <2>1. CASE ModalDialog
    BY <2>1, ModalDialogKeeps
  <2>2. CASE \E d \in Dialogs, exposed \in SUBSET Open(wm) :
               \/ CloseDialog(d, exposed)
               \/ \E shown, drawn \in BOOLEAN, behind \in Behinds :
                    NewDialog(d, shown, drawn, behind, exposed)
    BY <2>2, CloseDialogKeeps, NewDialogKeeps
  <2> QED BY <1>3, <2>1, <2>2 DEF DialogTraps
<1>4. CASE UNCHANGED vars
  <2>1. wm' = wm /\ remembered' = remembered /\ entered' = entered
    BY <1>4 DEF vars
  <2>2. Open(wm') = Open(wm)
    BY <2>1
  <2> QED BY <2>1, <2>2 DEF WindowsInv
<1> QED BY <1>1, <1>2, <1>3, <1>4 DEF Next

\* The invariant holds in every state.
LEMMA AlwaysWindows == Spec => []WindowsInv
BY InitWindows, StepWindows, PTL DEF Spec

\* Type correctness: whatever the traps do, and whatever an application closes, the
\* manager's list, queue, slots and sets hold windows and events.
THEOREM WindowsTypes == Spec => []WindowsTypeOK
<1>1. WindowsInv => WindowsTypeOK
  BY DEF WindowsInv, Sound, Coherent, WindowsTypeOK
<1> QED BY <1>1, AlwaysWindows, PTL

\* RedrawsDue, for every number of windows and dialogs: a visible window with something to
\* draw has a marker in the queue, or one that FlushEvents put aside, or has been told,
\* through every opening, hiding, reordering, flush and poll, unless ModalDialog took its
\* update event for its own dialog's.
THEOREM VisibleWindowsAreRedrawn == Spec => []RedrawsDue
<1>1. WindowsInv => RedrawsDue
  <2> SUFFICES ASSUME WindowsInv, NEW w \in (wm.visible \cap wm.dirty) \ wm.missed
               PROVE  Marked(wm, w) \/ w \in wm.flushed \/ w \in wm.told
    BY DEF RedrawsDue, Awaited
  <2>1. w \in (wm.visible \cap wm.dirty) \ {}
    OBVIOUS
  <2>2. Holds(wm, w) \/ w \in wm.flushed \/ w \in wm.told \/ w \in wm.missed
    BY <2>1 DEF WindowsInv, Sound, Coherent
  <2> QED BY <2>2, InvNow, OpenIsList
<1> QED BY <1>1, AlwaysWindows, PTL

\* One marker for a window and one pending event of each polarity, in the order of the
\* switch and as the low-memory slots name it, whatever windows the application closes.
LEMMA PendingOnce == WindowsInv => OneMarker /\ OneChangePending
<1> SUFFICES ASSUME WindowsInv PROVE OneMarker /\ OneChangePending
  OBVIOUS
<1>1. /\ wm \in WindowManager /\ Distinct(wm.queue) /\ Ordered(wm.queue)
      /\ wm.queue \in Seq(Events)
      /\ \A e \in Entries(wm.queue) : e.what \in Polarity => e.message = wm.slot[e.what]
      /\ \A w \in wm.flushed : ~Holds(wm, w)
  BY InvNow, ManagerFields DEF WindowsInv, Sound, Coherent
<1>2. \A i \in DOMAIN wm.queue : wm.queue[i] \in Events /\ wm.queue[i] \in Entries(wm.queue)
  BY <1>1 DEF Entries
<1>3. OneMarker
  BY <1>1, OpenIsList DEF OneMarker, Distinct
<1>4. ASSUME NEW i \in DOMAIN wm.queue, NEW j \in DOMAIN wm.queue
      PROVE  LET e == wm.queue[i] f == wm.queue[j]
             IN /\ e.what \in Polarity => e.message = wm.slot[e.what]
                /\ e.what = f.what /\ e.what \in Polarity => i = j
                /\ e.what = "deactivate" /\ f.what = "activate" => i < j
  <2>1. wm.queue[i].what \in Polarity => wm.queue[i].message = wm.slot[wm.queue[i].what]
    BY <1>1, <1>2
  <2>2. wm.queue[j].what \in Polarity => wm.queue[j].message = wm.slot[wm.queue[j].what]
    BY <1>1, <1>2
  <2>3. wm.queue[i].what = wm.queue[j].what /\ wm.queue[i].what \in Polarity
          => wm.queue[i] = wm.queue[j]
    BY <1>2, <2>1, <2>2, EventsEqual
  <2>4. wm.queue[i] = wm.queue[j] => i = j
    BY <1>1 DEF Distinct
  <2>5. wm.queue[i].what = "deactivate" /\ wm.queue[j].what = "activate" => i < j
    BY <1>1 DEF Ordered
  <2> QED BY <2>1, <2>3, <2>4, <2>5
<1>5. OneChangePending
  BY <1>4 DEF OneChangePending
<1> QED BY <1>3, <1>5

\* The half of PendingEventsSound that needs nothing of the application: at most one
\* redraw for a window and one switch of the active window is ever pending, even when a
\* dialog hands activation back to a window that was closed.
THEOREM OneOfEachPending == Spec => [](OneMarker /\ OneChangePending)
BY PendingOnce, AlwaysWindows, PTL

\* PendingEventsSound, for every number of windows and dialogs: an application that closes
\* no window a dialog remembers is told about open windows only.
THEOREM PendingIsSound ==
  ASSUME PairedDialogs
  PROVE  Spec => []PendingEventsSound
<1>1. WindowsInv => PendingEventsSound
  <2> SUFFICES ASSUME WindowsInv PROVE PendingEventsSound
    OBVIOUS
  <2>1. NamesOpen(wm) /\ Open(wm) = Entries(wm.list)
    BY InvNow DEF WindowsInv, Sound, Coherent
  <2>2. \A i \in DOMAIN wm.queue : wm.queue[i] \in Entries(wm.queue)
    BY DEF Entries
  <2>3. NoStaleWindow
    BY <2>1, <2>2 DEF NoStaleWindow, NamesOpen
  <2> QED BY <2>3, PendingOnce DEF PendingEventsSound
<1> QED BY <1>1, AlwaysWindows, PTL

=============================================================================
