-------------------------- MODULE PaneAdviceProofs --------------------------
(***************************************************************************)
(* Proofs about PaneAdvice: what a poll advises, and the snapshots it      *)
(* takes, for any panes, listings, gates and lengths of the quota windows. *)
(***************************************************************************)
EXTENDS PaneAdvice, FiniteSetTheorems, TLAPS

-----------------------------------------------------------------------------
(* The arithmetic of the windows *)

LEMMA ProductsGrow ==
    ASSUME NEW d \in Nat, NEW a \in Int, NEW b \in Int, a <= b PROVE d * a <= d * b
  OBVIOUS

\* Quotient and remainder are what they say.
LEMMA Division ==
    ASSUME NEW d \in Nat \ {0}, NEW t \in Nat
    PROVE  /\ t \div d \in Nat /\ t % d \in 0..(d - 1)
           /\ t = d * (t \div d) + (t % d)
  OBVIOUS

\* There is one remainder and one quotient.
LEMMA DivisionIsUnique ==
    ASSUME NEW d \in Nat \ {0}, NEW q \in Nat, NEW r \in 0..(d - 1)
    PROVE  (d * q + r) \div d = q /\ (d * q + r) % d = r
<1> DEFINE t == d * q + r
<1>1. t \in Nat OBVIOUS
<1>2. /\ t \div d \in Nat /\ t % d \in 0..(d - 1)
      /\ t = d * (t \div d) + (t % d)
  BY <1>1, Division
<1> DEFINE Q == t \div d
           R == t % d
<1>3. Q \in Nat /\ R \in 0..(d - 1) /\ d * q + r = d * Q + R
  BY <1>2
<1> HIDE DEF Q, R, t
<1>4. ~(q + 1 <= Q)
  <2> SUFFICES ASSUME q + 1 <= Q PROVE FALSE OBVIOUS
  <2>1. d * (q + 1) <= d * Q BY <1>3, ProductsGrow
  <2>2. d * (q + 1) = d * q + d OBVIOUS
  <2>3. d * q \in Int /\ d * Q \in Int BY <1>3
  <2> QED BY <1>3, <2>1, <2>2, <2>3
<1>5. ~(Q + 1 <= q)
  <2> SUFFICES ASSUME Q + 1 <= q PROVE FALSE OBVIOUS
  <2>1. d * (Q + 1) <= d * q BY <1>3, ProductsGrow
  <2>2. d * (Q + 1) = d * Q + d BY <1>3
  <2>3. d * q \in Int /\ d * Q \in Int BY <1>3
  <2> QED BY <1>3, <2>1, <2>2, <2>3
<1>6. Q = q BY <1>3, <1>4, <1>5
<1>7. R = r
  <2>1. d * q \in Int OBVIOUS
  <2> QED BY <1>3, <1>6, <2>1
<1> QED BY <1>6, <1>7 DEF Q, R, t

LEMMA WindowTypes ==
    ASSUME NEW k \in Kinds
    PROVE  /\ Minute \in Nat \ {0} /\ MaxNow \in Nat
           /\ Lengths[k] \in Nat \ {0}
  BY WindowsAssumption

LEMMA WindowEndType ==
    ASSUME NEW k \in Kinds, NEW t \in Nat PROVE WindowEnd(k, t) \in Nat
<1>1. Lengths[k] \in Nat \ {0} BY WindowTypes
<1>2. t \div Lengths[k] \in Nat BY <1>1, Division
<1> QED BY <1>1, <1>2 DEF WindowEnd

\* Windows follow each other.
LEMMA WindowsFollow ==
    ASSUME NEW k \in Kinds, NEW t \in Nat
    PROVE  WindowEnd(k, t) <= WindowEnd(k, t + 1)
<1> DEFINE d == Lengths[k]
           q == t \div d
           Q == (t + 1) \div d
<1>1. d \in Nat \ {0} BY WindowTypes
<1>2. /\ q \in Nat /\ (t % d) \in 0..(d - 1) /\ t = d * q + (t % d)
  BY <1>1, Division
<1>3. /\ Q \in Nat /\ ((t + 1) % d) \in 0..(d - 1) /\ t + 1 = d * Q + ((t + 1) % d)
  <2>1. t + 1 \in Nat OBVIOUS
  <2> HIDE DEF d
  <2> QED BY <1>1, <2>1, Division
<1>4. ~(Q + 1 <= q)
  <2> SUFFICES ASSUME Q + 1 <= q PROVE FALSE OBVIOUS
  <2> HIDE DEF d, q, Q
  <2>1. d * (Q + 1) <= d * q BY <1>1, <1>2, <1>3, ProductsGrow
  <2>2. d * (Q + 1) = d * Q + d BY <1>1, <1>3
  <2>3. d * q \in Int /\ d * Q \in Int BY <1>1, <1>2, <1>3
  <2> QED BY <1>1, <1>2, <1>3, <2>1, <2>2, <2>3
<1>5. q + 1 <= Q + 1 BY <1>2, <1>3, <1>4
<1>6. d * (q + 1) <= d * (Q + 1) BY <1>1, <1>2, <1>3, <1>5, ProductsGrow
<1> QED BY <1>6 DEF WindowEnd

\* A reset that is off its window's end is a time all the same.
LEMMA ResetType ==
    ASSUME NEW k \in Kinds, NEW t \in Nat, NEW o \in Offsets
    PROVE  WindowEnd(k, t) + o \in Nat
<1> DEFINE d == Lengths[k]
           q == t \div d
<1>1. d \in Nat \ {0} /\ o \in Int /\ d + o \in Nat
  BY WindowTypes, JitterAssumption
<1>2. q \in Nat BY <1>1, Division
<1>3. WindowEnd(k, t) = d * (q + 1) BY DEF WindowEnd
<1> HIDE DEF d, q
<1>4. d * (q + 1) = d * q + d /\ d * q \in Nat BY <1>1, <1>2
<1> QED BY <1>1, <1>3, <1>4

\* The minute a time is floored to is the one it lies in.
LEMMA FloorIsTheMinute ==
    ASSUME NEW t \in Nat
    PROVE  /\ FloorToMinute(t) = Minute * MinuteOf(t)
           /\ FloorToMinute(t) \in Nat
           /\ FloorToMinute(t) <= t /\ t < FloorToMinute(t) + Minute
<1> DEFINE m == t \div Minute
           rest == t % Minute
<1>1. Minute \in Nat \ {0} BY WindowsAssumption
<1>2. m \in Nat /\ rest \in 0..(Minute - 1) /\ t = Minute * m + rest
  BY <1>1, Division
<1>3. FloorToMinute(t) = t - rest /\ MinuteOf(t) = m BY DEF FloorToMinute, MinuteOf
<1> HIDE DEF m, rest
<1>4. Minute * m \in Nat BY <1>1, <1>2
<1> QED BY <1>1, <1>2, <1>3, <1>4

\* Resets that are floored to one minute are of one window.
LEMMA OneMinuteOneWindow ==
    ASSUME NEW k \in Kinds, NEW t \in Nat, NEW u \in Nat, NEW a \in Offsets, NEW b \in Offsets,
           FloorToMinute(WindowEnd(k, t) + a) = FloorToMinute(WindowEnd(k, u) + b)
    PROVE  WindowEnd(k, t) = WindowEnd(k, u)
<1> DEFINE d == Lengths[k]
           q == (t \div d) + 1
           Q == (u \div d) + 1
           f == FloorToMinute(WindowEnd(k, t) + a)
<1>1. /\ d \in Nat \ {0} /\ Minute \in Nat \ {0} /\ a \in Int /\ b \in Int
      /\ d + a - b >= Minute /\ d + b - a >= Minute
  BY WindowTypes, JitterAssumption
<1>2. q \in Nat /\ Q \in Nat
  <2>1. t \div d \in Nat BY <1>1, Division
  <2>2. u \div d \in Nat BY <1>1, Division
  <2> QED BY <2>1, <2>2
<1>3. WindowEnd(k, t) = d * q /\ WindowEnd(k, u) = d * Q BY DEF WindowEnd
<1>4. /\ f \in Nat /\ f <= d * q + a /\ d * q + a < f + Minute
      /\ f <= d * Q + b /\ d * Q + b < f + Minute
  <2>1. d * q + a \in Nat /\ d * Q + b \in Nat BY <1>3, ResetType
  <2> QED BY <1>3, <2>1, FloorIsTheMinute
<1> HIDE DEF d, q, Q, f
<1>5. d * q \in Int /\ d * Q \in Int BY <1>1, <1>2
<1>6. ~(q + 1 <= Q)
  <2> SUFFICES ASSUME q + 1 <= Q PROVE FALSE OBVIOUS
  <2>1. d * (q + 1) <= d * Q BY <1>1, <1>2, ProductsGrow
  <2>2. d * (q + 1) = d * q + d BY <1>1, <1>2
  <2> QED BY <1>1, <1>4, <1>5, <2>1, <2>2
<1>7. ~(Q + 1 <= q)
  <2> SUFFICES ASSUME Q + 1 <= q PROVE FALSE OBVIOUS
  <2>1. d * (Q + 1) <= d * q BY <1>1, <1>2, ProductsGrow
  <2>2. d * (Q + 1) = d * Q + d BY <1>1, <1>2
  <2> QED BY <1>1, <1>4, <1>5, <2>1, <2>2
<1>8. q = Q BY <1>2, <1>6, <1>7
<1> QED BY <1>3, <1>8

-----------------------------------------------------------------------------
(* The record of the snapshots of one pane at time t *)

Account == [window : Nat, minute : Nat, snapshots : Nat, crossings : Nat]

\* A mark is the minute of a reset that was shown of a window, and a window that is
\* marked and on record was written.
MarkOf(k, mark, account) ==
    \E u \in Nat, o \in Offsets :
        /\ mark = FloorToMinute(WindowEnd(k, u) + o)
        /\ WindowEnd(k, u) <= account.window
        /\ WindowEnd(k, u) = account.window => account.snapshots > 0

\* A window on record was written once, and once more for each other minute at most;
\* as often as that only if the minute shown last is marked.
KindIsSound(k, mark, account, t) ==
    /\ account \in Account
    /\ account.window <= WindowEnd(k, t)
    /\ account.snapshots <= 1 + account.crossings
    /\ account.snapshots = 1 + account.crossings => mark = Minute * account.minute
    /\ mark # None => MarkOf(k, mark, account)

Sound(mark, account, t) == \A k \in Kinds : KindIsSound(k, mark[k], account[k], t)

LEMMA NothingIsSound ==
    ASSUME NEW t \in Nat PROVE Sound(Fresh, NothingTaken, t)
<1> SUFFICES ASSUME NEW k \in Kinds PROVE KindIsSound(k, Fresh[k], NothingTaken[k], t)
  BY DEF Sound
<1>1. NothingTaken[k] = [window |-> 0, minute |-> 0, snapshots |-> 0, crossings |-> 0]
  BY DEF NothingTaken
<1>2. Fresh[k] = None BY DEF Fresh
<1>3. WindowEnd(k, t) \in Nat BY WindowEndType
<1> QED BY <1>1, <1>2, <1>3 DEF KindIsSound, Account

LEMMA SoundStaysSound ==
    ASSUME NEW mark, NEW account, NEW t \in Nat, Sound(mark, account, t)
    PROVE  Sound(mark, account, t + 1)
<1> SUFFICES ASSUME NEW k \in Kinds PROVE KindIsSound(k, mark[k], account[k], t + 1)
  BY DEF Sound
<1>1. KindIsSound(k, mark[k], account[k], t) BY DEF Sound
<1>2. WindowEnd(k, t) <= WindowEnd(k, t + 1) BY WindowsFollow
<1>3. WindowEnd(k, t) \in Nat /\ WindowEnd(k, t + 1) \in Nat BY WindowEndType
<1>4. account[k].window \in Nat BY <1>1 DEF KindIsSound, Account
<1>5. account[k].window <= WindowEnd(k, t + 1) BY <1>1, <1>2, <1>3, <1>4 DEF KindIsSound
<1> QED BY <1>1, <1>5 DEF KindIsSound

-----------------------------------------------------------------------------
(* Signals *)

Signals == ScreensWith(Int)

\* The resets that are seen are of the windows that run at time t.
Dated(s, t) ==
    \A k \in Kinds : ResetsAt(s, k) # Absent =>
        \E o \in Offsets : ResetsAt(s, k) = WindowEnd(k, t) + o

LEMMA ShownType ==
    ASSUME NEW entry, entry.screen \in Screens, now \in Nat
    PROVE  Shown(entry) \in Signals /\ Dated(Shown(entry), now)
<1> DEFINE screen == entry.screen
           at(offset, k) == IF offset = None THEN Absent ELSE WindowEnd(k, now) + offset
<1>1. screen \in Screens OBVIOUS
<1>2. Shown(entry) = [screen EXCEPT !.resets_5h = at(@, "5h"),
                                    !.resets_weekly = at(@, "weekly")]
  BY DEF Shown
<1>3. \A k \in Kinds : WindowEnd(k, now) \in Nat
  BY WindowEndType
<1>4. \A o \in Offsets : o \in Int
  BY JitterAssumption
<1>5. Absent \in Int
  BY DEF Absent
<1>6. /\ screen.resets_5h \in Offsets \union {None}
      /\ screen.resets_weekly \in Offsets \union {None}
  BY <1>1 DEF Screens, ScreensWith
<1>7. /\ at(screen.resets_5h, "5h") \in Int
      /\ at(screen.resets_weekly, "weekly") \in Int
  BY <1>3, <1>4, <1>5, <1>6 DEF Kinds
<1>8. /\ Shown(entry).resets_5h = at(screen.resets_5h, "5h")
      /\ Shown(entry).resets_weekly = at(screen.resets_weekly, "weekly")
  <2> HIDE DEF at, screen
  <2> QED BY <1>1, <1>2 DEF Screens, ScreensWith
<1>9. Shown(entry) \in Signals
  <2> HIDE DEF at, screen
  <2> QED BY <1>1, <1>2, <1>7 DEF Screens, Signals, ScreensWith
<1>10. Dated(Shown(entry), now)
  <2> SUFFICES ASSUME NEW k \in Kinds, ResetsAt(Shown(entry), k) # Absent
               PROVE  \E o \in Offsets : ResetsAt(Shown(entry), k) = WindowEnd(k, now) + o
    BY DEF Dated
  <2>1. CASE k = "5h"
    BY <2>1, <1>6, <1>8 DEF ResetsAt
  <2>2. CASE k = "weekly"
    BY <2>2, <1>6, <1>8 DEF ResetsAt
  <2> QED BY <2>1, <2>2 DEF Kinds
<1> QED BY <1>9, <1>10

\* What every adapter leaves of a screen in conflict, or of one it does not know.
LEMMA CommonType ==
    ASSUME NEW screen \in Signals
    PROVE  /\ CommonSignals(screen) \in Signals
           /\ CommonSignals(screen).context = Absent
           /\ \A k \in Kinds : ResetsAt(CommonSignals(screen), k) = Absent
<1>1. Absent \in Int /\ "None" \in IdleCauses BY DEF Absent, IdleCauses
<1>2. CommonSignals(screen) \in Signals
  BY <1>1, ZenonT(60) DEF CommonSignals, Signals, ScreensWith
<1>3. /\ CommonSignals(screen).context = Absent
      /\ CommonSignals(screen).resets_5h = Absent
      /\ CommonSignals(screen).resets_weekly = Absent
  BY DEF CommonSignals, Signals, ScreensWith
<1> QED BY <1>2, <1>3 DEF ResetsAt

LEMMA ParsedType ==
    ASSUME NEW id, NEW screen \in Signals, NEW t, Dated(screen, t)
    PROVE  /\ ParseFor(id, screen) \in Signals /\ Dated(ParseFor(id, screen), t)
           /\ id.confidence = "Conflict" => ParseFor(id, screen).context = Absent
<1> DEFINE common == CommonSignals(screen)
<1>1. /\ common \in Signals /\ common.context = Absent
      /\ \A k \in Kinds : ResetsAt(common, k) = Absent
  BY CommonType
<1>2. Dated(common, t) BY <1>1 DEF Dated
<1> HIDE DEF common
<1>3. /\ [screen EXCEPT !.branch = {}] \in Signals
      /\ Dated([screen EXCEPT !.branch = {}], t)
  BY DEF Signals, ScreensWith, Dated, ResetsAt
<1>4. Enriched(common, screen) \in Signals
  BY <1>1 DEF Signals, ScreensWith, Enriched
<1>5. /\ Enriched(common, screen).resets_5h = screen.resets_5h
      /\ Enriched(common, screen).resets_weekly = screen.resets_weekly
  BY <1>1 DEF Signals, ScreensWith, Enriched
<1>6. Dated(Enriched(common, screen), t)
  BY <1>5 DEF Dated, ResetsAt
<1>7. [common EXCEPT !.idle = "None"] \in Signals
  <2>1. "None" \in IdleCauses BY DEF IdleCauses
  <2> QED BY <1>1, <2>1 DEF Signals, ScreensWith
<1>8. /\ [common EXCEPT !.idle = "None"].resets_5h = common.resets_5h
      /\ [common EXCEPT !.idle = "None"].resets_weekly = common.resets_weekly
  BY <1>1 DEF Signals, ScreensWith
<1>9. Dated([common EXCEPT !.idle = "None"], t)
  BY <1>2, <1>8 DEF Dated, ResetsAt
<1>10. ParseFor(id, screen) \in {common, [screen EXCEPT !.branch = {}], screen,
                                 Enriched(common, screen), [common EXCEPT !.idle = "None"]}
  BY DEF ParseFor, common
<1>11. id.confidence = "Conflict" => ParseFor(id, screen) = common
  BY DEF ParseFor, common
<1> QED BY <1>1, <1>2, <1>3, <1>4, <1>6, <1>7, <1>9, <1>10, <1>11

Caches == [Pressures -> Int]

LEMMA CacheType ==
    ASSUME NEW cache \in Caches, NEW id, NEW s \in Signals
    PROVE  UpdatedCache(cache, id, s) \in Caches
<1>1. Absent \in Int BY DEF Absent
<1>2. \A f \in Pressures : s[f] \in Int
  BY DEF Pressures, Signals, ScreensWith
<1> QED BY <1>1, <1>2 DEF Caches, UpdatedCache

\* The rules see the cached pressures of a Claude pane and what any other shows.
LEMMA CachedType ==
    ASSUME NEW cache \in Caches, NEW id, NEW s \in Signals
    PROVE  LET seenBy == WithCachedPressures(cache, id, s)
           IN  /\ seenBy \in Signals
               /\ \A k \in Kinds : ResetsAt(seenBy, k) = ResetsAt(s, k)
               /\ seenBy.context = IF id.provider = "Claude"
                                   THEN UpdatedCache(cache, id, s).context ELSE s.context
<1> DEFINE new == UpdatedCache(cache, id, s)
           merged == [f \in DOMAIN s |-> IF f \in Pressures THEN new[f] ELSE s[f]]
<1>1. new \in Caches BY CacheType
<1>2. WithCachedPressures(cache, id, s) = IF id.provider # "Claude" THEN s ELSE merged
  BY DEF WithCachedPressures
<1> HIDE DEF new
<1>3. merged \in Signals
  BY <1>1 DEF Signals, ScreensWith, Caches, Pressures
<1>4. /\ merged.resets_5h = s.resets_5h /\ merged.resets_weekly = s.resets_weekly
      /\ merged.context = new.context
  BY <1>1 DEF Signals, ScreensWith, Caches, Pressures
<1> HIDE DEF merged
<1> QED BY <1>2, <1>3, <1>4 DEF ResetsAt, new

-----------------------------------------------------------------------------
(* What the rules say *)

\* Advice that no property below asks after.
Plain(r) ==
    /\ r.action \notin {"snapshot-5h", "snapshot-weekly", "cache-hot-avoid-compact"}
    /\ ~(r.strong /\ r.compact)

LEMMA RulesArePlain ==
    ASSUME NEW id, NEW s, NEW g, NEW last, NEW baseline, NEW errors, NEW t,
           NEW r \in Recommendations(id, s, g, last, baseline, errors, t)
    PROVE  /\ ~ObserveOnly(id)
           /\ \/ Plain(r)
              \/ r \in ContextPressure(id, s, g)
              \/ r \in CacheHot(id, s, g)
              \/ r \in EvalReset(id, s, g, t)
<1>1. ~ObserveOnly(id) BY DEF Recommendations
<1>2. \/ r \in EvalAlerts(s) \/ r \in EvalAdvisories(id, s, g)
      \/ r \in AutoMemory(id, s) \/ r \in AgentMemory(id, s)
      \/ r \in EvalCache(id, s, g, baseline)
      \/ r \in ProfileSwitch(id, s, g, errors) \/ r \in EvalReset(id, s, g, t)
      \/ r \in IdleTransition(s, last)
  BY DEF Recommendations
<1>3. ASSUME r \in EvalAlerts(s) PROVE Plain(r)
  BY <1>3 DEF EvalAlerts, When, Advice, Plain
<1>4. CASE r \in EvalAdvisories(id, s, g)
  <2>1. \/ r \in LogStorm(id, s, g) \/ r \in CodeExploration(id, s)
        \/ r \in ContextPressure(id, s, g) \/ r \in QuotaPressure(id, s, g)
        \/ r \in CostPressure(id, s, g) \/ r \in SecurityPosture(id, s, g)
        \/ r \in VerboseReview(id, s, g) \/ r \in QuotaTightNudge(id, s, g)
    BY <1>4 DEF EvalAdvisories
  <2>2. ASSUME r \in LogStorm(id, s, g) PROVE Plain(r)
    BY <2>2 DEF LogStorm, When, Advice, Plain
  <2>3. ASSUME r \in CodeExploration(id, s) PROVE Plain(r)
    BY <2>3 DEF CodeExploration, When, Advice, Plain
  <2>4. ASSUME r \in QuotaPressure(id, s, g) PROVE Plain(r)
    BY <2>4 DEF QuotaPressure, Strong, Advice, Plain
  <2>5. ASSUME r \in CostPressure(id, s, g) PROVE Plain(r)
    <3>1. r = Strong(Advice("cost-act-now", Risk)) \/ r = Advice("cost-pace", Warning)
      BY <2>5 DEF CostPressure, When
    <3> QED BY <3>1 DEF Strong, Advice, Plain
  <2>6. ASSUME r \in SecurityPosture(id, s, g) PROVE Plain(r)
    BY <2>6 DEF SecurityPosture, When, Advice, Plain
  <2>7. ASSUME r \in VerboseReview(id, s, g) PROVE Plain(r)
    BY <2>7 DEF VerboseReview, When, Advice, Plain
  <2>8. ASSUME r \in QuotaTightNudge(id, s, g) PROVE Plain(r)
    BY <2>8 DEF QuotaTightNudge, When, Advice, Plain
  <2> QED BY <1>1, <2>1, <2>2, <2>3, <2>4, <2>5, <2>6, <2>7, <2>8
<1>5. ASSUME r \in AutoMemory(id, s) \union AgentMemory(id, s) PROVE Plain(r)
  BY <1>5 DEF AutoMemory, AgentMemory, When, Advice, Plain
<1>6. CASE r \in EvalCache(id, s, g, baseline)
  <2>1. \/ r \in CacheHot(id, s, g) \/ r \in CacheCold(id, s, g)
        \/ r \in CacheDrift(id, s, g, baseline)
    BY <1>6 DEF EvalCache
  <2>2. ASSUME r \in CacheCold(id, s, g) PROVE Plain(r)
    BY <2>2 DEF CacheCold, When, Compact, Advice, Plain
  <2>3. ASSUME r \in CacheDrift(id, s, g, baseline) PROVE Plain(r)
    BY <2>3 DEF CacheDrift, When, Compact, Advice, Plain
  <2> QED BY <1>1, <2>1, <2>2, <2>3
<1>7. ASSUME r \in ProfileSwitch(id, s, g, errors) PROVE Plain(r)
  <2>1. r = Advice("profile-switch", Concern)
    BY <1>7, Zenon DEF ProfileSwitch, When
  <2> QED BY <2>1 DEF Advice, Plain
<1>8. ASSUME r \in IdleTransition(s, last) PROVE Plain(r)
  BY <1>8 DEF IdleTransition, When, Advice, Plain
<1> QED BY <1>1, <1>2, <1>3, <1>4, <1>5, <1>6, <1>7, <1>8

LEMMA AdviceNames ==
    ASSUME NEW action, NEW severity
    PROVE  /\ Advice(action, severity).action = action
           /\ Strong(Compact(Advice(action, severity))).action = action
<1> DEFINE R == [action : {action}, severity : {severity}, strong : BOOLEAN, compact : BOOLEAN]
<1>1. Advice(action, severity) \in R BY DEF Advice
<1>2. ASSUME NEW rec \in R PROVE Compact(rec) \in R /\ Strong(rec) \in R
  BY DEF Compact, Strong
<1>3. \A rec \in R : rec.action = action OBVIOUS
<1> HIDE DEF R
<1> QED BY <1>1, <1>2, <1>3

LEMMA ContextAdvice ==
    ASSUME NEW id, NEW s, NEW g, NEW r \in ContextPressure(id, s, g)
    PROVE  /\ ContextCritical(id, s, g) \/ ContextWarning(id, s, g)
           /\ r.action \in {"context-act-now", "context-checkpoint", "aggressive-context"}
<1>1. CASE ContextCritical(id, s, g)
  BY <1>1, AdviceNames DEF ContextPressure, When
<1>2. CASE ~ContextCritical(id, s, g) /\ ContextWarning(id, s, g)
  BY <1>2, AdviceNames DEF ContextPressure, When
<1> QED BY <1>1, <1>2 DEF ContextPressure

\* Only a reset that is shown brings a snapshot.
LEMMA AdvisedIsShown ==
    ASSUME NEW id, NEW s, NEW g, NEW last, NEW baseline, NEW errors, NEW t, NEW k \in Kinds,
           k \in AdvisedKinds(Recommendations(id, s, g, last, baseline, errors, t))
    PROVE  ~ObserveOnly(id) /\ ResetsAt(s, k) # Absent
<1>1. PICK r \in Recommendations(id, s, g, last, baseline, errors, t) :
          r.action = SnapshotAction(k)
  BY DEF AdvisedKinds
<1>2. r.action \in {"snapshot-5h", "snapshot-weekly"}
  BY <1>1 DEF SnapshotAction
<1>3. r \in ContextPressure(id, s, g) => r.action # SnapshotAction(k)
  BY ContextAdvice DEF SnapshotAction
<1>4. r \in CacheHot(id, s, g) => r.action # SnapshotAction(k)
  BY DEF CacheHot, When, Advice, SnapshotAction
<1>5. ~Plain(r) BY <1>2 DEF Plain
<1>6. ~ObserveOnly(id) /\ r \in EvalReset(id, s, g, t)
  BY <1>1, <1>3, <1>4, <1>5, RulesArePlain
<1>7. \/ r.action = "snapshot-5h" /\ s.resets_5h # Absent
      \/ r.action = "snapshot-weekly" /\ s.resets_weekly # Absent
  BY <1>2, <1>6 DEF EvalReset, When, ResetNear, Advice
<1> QED BY <1>1, <1>6, <1>7 DEF ResetsAt, SnapshotAction, Kinds

\* A pane in doubt is told what its screen shows of itself, and of a context.
LEMMA DoubtfulAdvice ==
    ASSUME NEW id, NEW s, NEW g, NEW last, NEW baseline, NEW errors, NEW t, ~Sure(id),
           NEW r \in Recommendations(id, s, g, last, baseline, errors, t)
    PROVE  /\ r.action \in Alerts \/ (r.action = "quota-tight-nudge" /\ s.context >= 90)
           /\ ~(r.strong /\ r.compact)
<1>1. \/ r \in EvalAlerts(s) \/ r \in IdleTransition(s, last)
      \/ r \in EvalAdvisories(id, s, g)
      \/ r \in AutoMemory(id, s) \union AgentMemory(id, s) \union EvalCache(id, s, g, baseline)
               \union ProfileSwitch(id, s, g, errors) \union EvalReset(id, s, g, t)
  BY DEF Recommendations
<1>2. EvalAdvisories(id, s, g) = QuotaTightNudge(id, s, g)
  <2>1. LogStorm(id, s, g) = {} BY DEF LogStorm
  <2>2. CodeExploration(id, s) = {} BY DEF CodeExploration, When
  <2>3. ContextPressure(id, s, g) = {}
    BY DEF ContextPressure, ContextCritical, ContextWarning
  <2>4. QuotaPressure(id, s, g) = {} BY DEF QuotaPressure
  <2>5. CostPressure(id, s, g) = {} BY DEF CostPressure
  <2>6. SecurityPosture(id, s, g) = {} BY DEF SecurityPosture, When
  <2>7. VerboseReview(id, s, g) = {} BY DEF VerboseReview
  <2> QED BY <2>1, <2>2, <2>3, <2>4, <2>5, <2>6, <2>7 DEF EvalAdvisories
<1>3. /\ AutoMemory(id, s) = {} /\ AgentMemory(id, s) = {}
      /\ EvalCache(id, s, g, baseline) = {}
  BY DEF AutoMemory, AgentMemory, EvalCache, CacheHot, CacheCold, CacheDrift, When
<1>4. ProfileSwitch(id, s, g, errors) = {}
  BY Zenon DEF ProfileSwitch, When
<1>5. EvalReset(id, s, g, t) = {}
  BY DEF EvalReset
<1>6. \/ r \in EvalAlerts(s) \/ r \in IdleTransition(s, last)
      \/ r \in QuotaTightNudge(id, s, g)
  BY <1>1, <1>2, <1>3, <1>4, <1>5
<1>7. ASSUME r \in EvalAlerts(s) PROVE r.action \in Alerts /\ ~r.strong
  BY <1>7 DEF EvalAlerts, When, Advice, Alerts
<1>8. ASSUME r \in IdleTransition(s, last) PROVE r.action \in Alerts /\ ~r.strong
  BY <1>8 DEF IdleTransition, When, Advice, Alerts
<1>9. ASSUME r \in QuotaTightNudge(id, s, g)
      PROVE  r.action = "quota-tight-nudge" /\ s.context >= 90 /\ ~r.strong
  BY <1>9 DEF QuotaTightNudge, When, Advice
<1> QED BY <1>6, <1>7, <1>8, <1>9

QuotaUsedUp(s, g) ==
    \/ UsedUp(s.quota, g.quota_warning, g.quota_critical)
    \/ UsedUp(s.quota_5h, g.quota_5h_warning, g.quota_5h_critical)
    \/ UsedUp(s.quota_weekly, g.quota_weekly_warning, g.quota_weekly_critical)

\* w is told before v.
Before(w, v) == \/ Headroom(w) < Headroom(v)
                \/ Headroom(w) = Headroom(v) /\ w.rank <= v.rank

LEMMA UsedUpIsTold ==
    ASSUME NEW id, NEW s \in Signals, NEW g, \A limit \in Limits : g[limit] \in Int,
           Sure(id), QuotaUsedUp(s, g)
    PROVE  Strong(Advice("quota-act-now", Risk)) \in QuotaPressure(id, s, g)
<1> DEFINE x == [rank |-> 0, value |-> s.quota_5h,
                 warning |-> g.quota_5h_warning, critical |-> g.quota_5h_critical]
           y == [rank |-> 1, value |-> s.quota_weekly,
                 warning |-> g.quota_weekly_warning, critical |-> g.quota_weekly_critical]
           z == [rank |-> 2, value |-> s.quota,
                 warning |-> g.quota_warning, critical |-> g.quota_critical]
           pressing == QuotaWindows(s, g)
           chosen == CHOOSE w \in pressing : \A v \in pressing : Before(w, v)
<1>1. /\ s.quota_5h \in Int /\ s.quota_weekly \in Int /\ s.quota \in Int
      /\ g.quota_5h_critical \in Int /\ g.quota_weekly_critical \in Int /\ g.quota_critical \in Int
  BY DEF Limits, Signals, ScreensWith
<1>2. /\ pressing = {w \in {x, y, z} : w.value >= w.warning /\ w.value > 0}
  BY DEF QuotaWindows
<1>3. \A w \in {x, y, z} : w.value \in Int /\ w.critical \in Int /\ w.rank \in Int
  BY <1>1
<1>4. \E w \in pressing : w.value >= w.critical
  <2>1. /\ UsedUp(s.quota_5h, g.quota_5h_warning, g.quota_5h_critical)
             => x \in pressing /\ x.value >= x.critical
        /\ UsedUp(s.quota_weekly, g.quota_weekly_warning, g.quota_weekly_critical)
             => y \in pressing /\ y.value >= y.critical
        /\ UsedUp(s.quota, g.quota_warning, g.quota_critical)
             => z \in pressing /\ z.value >= z.critical
    BY <1>2 DEF UsedUp
  <2> QED BY <2>1 DEF QuotaUsedUp
<1>5. \A w \in {x, y, z} : Headroom(w) \in Int
  BY <1>3 DEF Headroom
<1> HIDE DEF x, y, z, pressing
<1>6. \E w \in pressing : \A v \in pressing : Before(w, v)
  <2>1. \A w, v \in {x, y, z} : Before(w, v) \/ Before(v, w)
    BY <1>3, <1>5 DEF Before
  <2>2. \A u, v, w \in {x, y, z} : Before(u, v) /\ Before(v, w) => Before(u, w)
    BY <1>3, <1>5 DEF Before
  <2>3. pressing \subseteq {x, y, z} /\ pressing # {}
    BY <1>2, <1>4
  <2>4. ASSUME NEW T \in SUBSET {x, y}, T # {}
        PROVE  \E w \in T : \A v \in T : Before(w, v)
    BY <2>1, <2>4
  <2>5. CASE pressing \ {z} = {}
    BY <2>1, <2>3, <2>5
  <2>6. CASE pressing \ {z} # {}
    <3>1. PICK w \in pressing \ {z} : \A v \in pressing \ {z} : Before(w, v)
      <4>1. pressing \ {z} \in SUBSET {x, y} BY <2>3
      <4> QED BY <2>4, <2>6, <4>1
    <3>2. CASE z \notin pressing \/ Before(w, z)
      BY <3>1, <3>2
    <3>3. CASE z \in pressing /\ Before(z, w)
      <4>1. \A v \in pressing \ {z} : Before(z, v) BY <2>2, <2>3, <3>1, <3>3
      <4>2. Before(z, z) BY <2>1
      <4> QED BY <3>3, <4>1, <4>2
    <3> QED BY <2>1, <2>3, <3>1, <3>2, <3>3
  <2> QED BY <2>5, <2>6
<1>7. chosen \in pressing /\ \A v \in pressing : Before(chosen, v)
  BY <1>6
<1> HIDE DEF chosen
<1>8. chosen.value >= chosen.critical
  <2>1. PICK w \in pressing : w.value >= w.critical BY <1>4
  <2>2. w \in {x, y, z} /\ chosen \in {x, y, z} BY <1>2, <1>7
  <2>3. Headroom(chosen) <= Headroom(w) BY <1>5, <1>7, <2>2 DEF Before
  <2> QED BY <1>3, <2>1, <2>2, <2>3 DEF Headroom
<1>9. pressing # {} BY <1>4
<1> QED BY <1>8, <1>9 DEF QuotaPressure, chosen, pressing, Before

\* Neither /\compact is proposed nor advised against without the context it asks for.
LEMMA CompactNeedsContext ==
    ASSUME NEW id, NEW s \in Signals, NEW g, \A limit \in Limits : g[limit] \in Int,
           NEW last, NEW baseline, NEW errors, NEW t,
           NEW r \in Recommendations(id, s, g, last, baseline, errors, t)
    PROVE  /\ r.strong /\ r.compact =>
                s.context >= g.context_critical \/ s.context >= g.context_warning
           /\ r.action = "cache-hot-avoid-compact" => s.context < g.cache_hot_low_ctx
<1>1. /\ s.context \in Int /\ g.context_critical \in Int /\ g.context_warning \in Int
      /\ g.cache_hot_low_ctx \in Int
  BY DEF Limits, Signals, ScreensWith
<1>2. ASSUME r \in ContextPressure(id, s, g)
      PROVE  /\ s.context >= g.context_critical \/ s.context >= g.context_warning
             /\ r.action # "cache-hot-avoid-compact"
  <2>1. s.context >= g.context_critical \/ s.context >= g.context_warning
    BY <1>1, <1>2, ContextAdvice DEF ContextCritical, ContextWarning
  <2> QED BY <1>2, <2>1, ContextAdvice
<1>3. ASSUME r \in CacheHot(id, s, g) PROVE ~r.strong /\ s.context < g.cache_hot_low_ctx
  BY <1>3 DEF CacheHot, When, Advice
<1>4. ASSUME r \in EvalReset(id, s, g, t)
      PROVE  ~r.strong /\ r.action # "cache-hot-avoid-compact"
  BY <1>4 DEF EvalReset, When, Advice
<1> QED BY <1>2, <1>3, <1>4, RulesArePlain DEF Plain

-----------------------------------------------------------------------------
(* One pane in a poll *)

KeptRecord(k) == k \in [cache : {k.cache}, last : {k.last}, errors : {k.errors},
                        dedup : {k.dedup}, taken : {k.taken}]

KeptIsSound(k, t) == KeptRecord(k) /\ k.cache \in Caches /\ Sound(k.dedup, k.taken, t)

PanesAreSound ==
    \A p \in Panes : /\ pressure_metric_cache[p] \in Caches
                     /\ Sound(auto_snapshot_dedup[p], taken[p], now)

LEMMA KeptOfPane ==
    ASSUME NEW p \in Panes, NEW event, PanesAreSound, now \in Nat
    PROVE  KeptIsSound(Kept(p, event), now)
<1> DEFINE k == Kept(p, event)
<1>1. CASE Evicts(event)
  <2>1. k = EmptyPane BY <1>1 DEF Kept
  <2>2. KeptRecord(EmptyPane) BY DEF EmptyPane, KeptRecord
  <2>3. EmptyPane.cache = NoPressure /\ EmptyPane.dedup = Fresh /\ EmptyPane.taken = NothingTaken
    BY DEF EmptyPane
  <2>4. NoPressure \in Caches BY DEF NoPressure, Caches, Absent
  <2> QED BY <2>1, <2>2, <2>3, <2>4, NothingIsSound DEF KeptIsSound
<1>2. CASE ~Evicts(event)
  <2>1. k = [cache |-> pressure_metric_cache[p], last |-> idle_transition[p],
             errors |-> recent_error_observations[p], dedup |-> auto_snapshot_dedup[p],
             taken |-> taken[p]]
    BY <1>2 DEF Kept
  <2>2. /\ k.cache = pressure_metric_cache[p] /\ k.last = idle_transition[p]
        /\ k.errors = recent_error_observations[p] /\ k.dedup = auto_snapshot_dedup[p]
        /\ k.taken = taken[p]
    BY <2>1
  <2>3. KeptRecord(k) BY <2>1, <2>2 DEF KeptRecord
  <2> QED BY <2>2, <2>3 DEF KeptIsSound, PanesAreSound
<1> QED BY <1>1, <1>2

\* Who is seen in a pane, and what the rules see of it.
IdOf(entry) == Resolve(entry.raw)
ParsedOf(entry) == ParseFor(IdOf(entry), Shown(entry))
SeenOf(p, entry, event) == WithCachedPressures(Kept(p, event).cache, IdOf(entry), ParsedOf(entry))
CacheOf(p, entry, event) == UpdatedCache(Kept(p, event).cache, IdOf(entry), ParsedOf(entry))

LEMMA SeenType ==
    ASSUME NEW p \in Panes, NEW entry, entry.screen \in Screens, NEW event,
           PanesAreSound, now \in Nat
    PROVE  LET s == SeenOf(p, entry, event)
               id == IdOf(entry)
           IN  /\ s \in Signals /\ Dated(s, now) /\ CacheOf(p, entry, event) \in Caches
               /\ id.confidence = "Conflict" =>
                    s.context \in {Absent, CacheOf(p, entry, event).context}
<1>1. Kept(p, event).cache \in Caches BY KeptOfPane DEF KeptIsSound
<1>2. Shown(entry) \in Signals /\ Dated(Shown(entry), now) BY ShownType
<1>3. /\ ParsedOf(entry) \in Signals /\ Dated(ParsedOf(entry), now)
      /\ IdOf(entry).confidence = "Conflict" => ParsedOf(entry).context = Absent
  BY <1>2, ParsedType DEF ParsedOf
<1>4. CacheOf(p, entry, event) \in Caches BY <1>1, <1>3, CacheType DEF CacheOf
<1>5. /\ SeenOf(p, entry, event) \in Signals
      /\ \A k \in Kinds : ResetsAt(SeenOf(p, entry, event), k) = ResetsAt(ParsedOf(entry), k)
      /\ SeenOf(p, entry, event).context =
           IF IdOf(entry).provider = "Claude" THEN CacheOf(p, entry, event).context
           ELSE ParsedOf(entry).context
  BY <1>1, <1>3, CachedType DEF SeenOf, CacheOf
<1>6. Dated(SeenOf(p, entry, event), now) BY <1>3, <1>5 DEF Dated
<1> QED BY <1>3, <1>4, <1>5, <1>6

ReportRecord(r) ==
    r \in [pane : {r.pane}, id : {r.id}, signals : {r.signals}, path : {r.path},
           window : {r.window}, recommendations : {r.recommendations}, notices : {r.notices},
           effects : {r.effects}]

\* The fields of an iteration.
LEMMA IterationIs ==
    ASSUME NEW p \in Panes, NEW entry, entry.screen \in Screens, NEW event,
           PanesAreSound, now \in Nat
    PROVE  LET i == Iteration(p, entry, event)
               k == Kept(p, event)
               r == i.report
               s == SeenOf(p, entry, event)
           IN  /\ KeptRecord(i.kept) /\ i.kept.cache = CacheOf(p, entry, event)
               /\ i.kept.dedup = k.dedup
               /\ i.kept.taken = IF gates.auto_snapshot /\ ~ObserveOnly(IdOf(entry))
                                 THEN Asked(k.taken, s, AdvisedKinds(r.recommendations))
                                 ELSE k.taken
               /\ ReportRecord(r) /\ r.pane = p /\ r.id = IdOf(entry) /\ r.signals = s
               /\ r.effects = Effects(s, r.recommendations)
               /\ \E last, baseline, errors :
                    r.recommendations =
                      Recommendations(IdOf(entry), s, gates, last, baseline, errors, now)
               /\ i.due = IF gates.auto_snapshot /\ ~ObserveOnly(IdOf(entry))
                          THEN DueKinds(s, r.recommendations, k.dedup) ELSE {}
<1> DEFINE k == Kept(p, event)
           s == SeenOf(p, entry, event)
           errors == PushError(k.errors, s.error)
           recs == Recommendations(IdOf(entry), s, gates, k.last, entry.baseline, errors, now)
           account == IF gates.auto_snapshot /\ ~ObserveOnly(IdOf(entry))
                      THEN Asked(k.taken, s, AdvisedKinds(recs)) ELSE k.taken
           kept == [k EXCEPT !.cache = CacheOf(p, entry, event), !.last = s.idle,
                             !.errors = errors, !.taken = account]
           due == IF gates.auto_snapshot /\ ~ObserveOnly(IdOf(entry))
                  THEN DueKinds(s, recs, k.dedup) ELSE {}
           r == [pane |-> p, id |-> IdOf(entry), signals |-> s, path |-> entry.path,
                 window |-> entry.window, recommendations |-> recs, notices |-> {},
                 effects |-> Effects(s, recs)]
<1>1. Iteration(p, entry, event) = [kept |-> kept, due |-> due, report |-> r]
  BY DEF Iteration, SeenOf, CacheOf, ParsedOf, IdOf
<1>2. KeptRecord(k) BY KeptOfPane DEF KeptIsSound
<1>3. ReportRecord(r) BY DEF ReportRecord
<1>4. /\ r.pane = p /\ r.id = IdOf(entry) /\ r.signals = s /\ r.recommendations = recs
      /\ r.effects = Effects(s, recs)
  OBVIOUS
<1> HIDE DEF k, s, errors, recs, r, account
<1>5. /\ KeptRecord(kept) /\ kept.cache = CacheOf(p, entry, event)
      /\ kept.dedup = k.dedup /\ kept.taken = account
  BY <1>2 DEF KeptRecord
<1> HIDE DEF kept
<1>6. \E last, baseline, errs :
         recs = Recommendations(IdOf(entry), s, gates, last, baseline, errs, now)
  BY DEF recs
<1> QED BY <1>1, <1>3, <1>4, <1>5, <1>6 DEF k, s, account

LEMMA SnapshotsAre ==
    ASSUME NEW i, KeptRecord(i.kept), ReportRecord(i.report), NEW written
    PROVE  LET o == Snapshots(i, written)
           IN  /\ o.kept.cache = i.kept.cache
               /\ o.kept.dedup = DedupAfter(i.report.signals, i.due, written, i.kept.dedup)
               /\ o.kept.taken = Counted(i.kept.taken, i.due \cap written)
               /\ o.report.pane = i.report.pane /\ o.report.id = i.report.id
               /\ o.report.signals = i.report.signals /\ o.report.effects = i.report.effects
               /\ o.report.recommendations = i.report.recommendations
               /\ o.report.notices = Notices(i.due, written)
<1> DEFINE mark == DedupAfter(i.report.signals, i.due, written, i.kept.dedup)
           count == Counted(i.kept.taken, i.due \cap written)
           kept == [i.kept EXCEPT !.dedup = mark, !.taken = count]
           report == [i.report EXCEPT !.notices = Notices(i.due, written)]
<1>1. Snapshots(i, written) = [kept |-> kept, report |-> report]
  BY DEF Snapshots
<1> HIDE DEF mark, count
<1>2. kept.cache = i.kept.cache /\ kept.dedup = mark /\ kept.taken = count
  BY DEF KeptRecord
<1>3. /\ report.pane = i.report.pane /\ report.id = i.report.id
      /\ report.signals = i.report.signals /\ report.effects = i.report.effects
      /\ report.recommendations = i.report.recommendations
      /\ report.notices = Notices(i.due, written)
  BY DEF ReportRecord
<1> HIDE DEF kept, report
<1> QED BY <1>1, <1>2, <1>3 DEF mark, count

\* What is asked for at time t is on record with the running window and its minute.
OnRecord(k, s, account, t) ==
    /\ account.window = WindowEnd(k, t)
    /\ account.minute = MinuteOf(ResetsAt(s, k))

\* The reset of a kind that is asked for.
LEMMA ResetIsShown ==
    ASSUME NEW s, NEW t \in Nat, Dated(s, t), NEW k \in Kinds, ResetsAt(s, k) # Absent
    PROVE  /\ \E o \in Offsets : ResetsAt(s, k) = WindowEnd(k, t) + o
           /\ ResetsAt(s, k) \in Nat /\ MinuteOf(ResetsAt(s, k)) \in Nat
           /\ FloorToMinute(ResetsAt(s, k)) = Minute * MinuteOf(ResetsAt(s, k))
           /\ FloorToMinute(ResetsAt(s, k)) # None
<1>1. PICK o \in Offsets : ResetsAt(s, k) = WindowEnd(k, t) + o BY DEF Dated
<1>2. ResetsAt(s, k) \in Nat BY <1>1, ResetType
<1>3. MinuteOf(ResetsAt(s, k)) \in Nat
  BY <1>2, WindowsAssumption, Division DEF MinuteOf
<1>4. FloorToMinute(ResetsAt(s, k)) \in Nat BY <1>2, FloorIsTheMinute
<1> QED BY <1>1, <1>2, <1>3, <1>4, FloorIsTheMinute, NoneAssumption

\* Asking for snapshots keeps the record sound.
LEMMA SoundWhenAsked ==
    ASSUME NEW s, NEW mark, NEW account, now \in Nat, Dated(s, now), Sound(mark, account, now),
           NEW advised \in SUBSET Kinds, \A k \in advised : ResetsAt(s, k) # Absent
    PROVE  /\ Sound(mark, Asked(account, s, advised), now)
           /\ \A k \in advised : OnRecord(k, s, Asked(account, s, advised)[k], now)
<1> SUFFICES ASSUME NEW k \in Kinds
             PROVE  /\ KindIsSound(k, mark[k], Asked(account, s, advised)[k], now)
                    /\ k \in advised => OnRecord(k, s, Asked(account, s, advised)[k], now)
  BY DEF Sound
<1> DEFINE old == account[k]
           new == Asked(account, s, advised)[k]
           W   == WindowEnd(k, now)
           m   == MinuteOf(ResetsAt(s, k))
           M   == mark[k]
<1>1. new = IF k \notin advised THEN old
            ELSE IF old.window = W
                 THEN [old EXCEPT !.minute = m,
                          !.crossings = IF old.minute = m THEN @ ELSE @ + 1]
            ELSE [window |-> W, minute |-> m, snapshots |-> 0, crossings |-> 0]
  BY DEF Asked
<1>2. /\ old \in Account /\ old.window <= W
      /\ old.snapshots <= 1 + old.crossings
      /\ old.snapshots = 1 + old.crossings => M = Minute * old.minute
      /\ M # None => MarkOf(k, M, old)
  BY DEF Sound, KindIsSound
<1>3. W \in Nat BY WindowEndType
<1>4. k \in advised => m \in Nat BY ResetIsShown
<1> SUFFICES /\ new \in Account /\ new.window <= W
             /\ new.snapshots <= 1 + new.crossings
             /\ new.snapshots = 1 + new.crossings => M = Minute * new.minute
             /\ M # None => MarkOf(k, M, new)
             /\ k \in advised => new.window = W /\ new.minute = m
  BY DEF KindIsSound, OnRecord
<1> HIDE DEF old, new, W, m, M
<1>5. CASE k \notin advised
  BY <1>1, <1>2, <1>5
<1>6. CASE k \in advised /\ old.window = W
  <2> DEFINE c == IF old.minute = m THEN old.crossings ELSE old.crossings + 1
  <2>1. new = [old EXCEPT !.minute = m, !.crossings = c]
    BY <1>1, <1>6
  <2>2. c \in Nat BY <1>2 DEF Account
  <2>3. /\ new \in Account /\ new.window = W /\ new.minute = m
        /\ new.snapshots = old.snapshots /\ new.crossings = c
    <3> HIDE DEF c
    <3> QED BY <1>2, <1>4, <1>6, <2>1, <2>2 DEF Account
  <2>4. /\ new.snapshots <= 1 + new.crossings
        /\ new.snapshots = 1 + new.crossings => M = Minute * new.minute
    BY <1>2, <2>3 DEF Account
  <2>5. M # None => MarkOf(k, M, new)
    BY <1>2, <1>6, <2>3 DEF MarkOf
  <2> QED BY <1>3, <2>3, <2>4, <2>5
<1>7. CASE k \in advised /\ old.window # W
  <2>1. new = [window |-> W, minute |-> m, snapshots |-> 0, crossings |-> 0]
    BY <1>1, <1>7
  <2>2. ASSUME M # None PROVE MarkOf(k, M, new)
    <3>1. PICK u \in Nat, o \in Offsets : /\ M = FloorToMinute(WindowEnd(k, u) + o)
                                         /\ WindowEnd(k, u) <= old.window
      BY <1>2, <2>2 DEF MarkOf
    <3>2. WindowEnd(k, u) \in Nat /\ old.window \in Nat
      BY <1>2, WindowEndType DEF Account
    <3>3. WindowEnd(k, u) <= W /\ WindowEnd(k, u) # W
      BY <1>2, <1>3, <1>7, <3>1, <3>2
    <3> QED BY <2>1, <3>1, <3>3 DEF MarkOf
  <2> QED BY <1>3, <1>4, <1>7, <2>1, <2>2 DEF Account
<1> QED BY <1>5, <1>6, <1>7

\* Every kind of due is asked for and on record, and was not marked.
AllDue(due, s, mark, account) ==
    \A k \in due : /\ k \in Kinds /\ ResetsAt(s, k) # Absent /\ OnRecord(k, s, account[k], now)
                  /\ mark[k] # FloorToMinute(ResetsAt(s, k))

\* The snapshots in done are on disk: their windows are counted, and no others.
OnDisk(done, account, after, t) ==
    /\ \A k \in done : after[k].window = WindowEnd(k, t) /\ after[k].snapshots > 0
    /\ \A k \in Kinds \ done : after[k] = account[k]

\* What a poll writes is marked and counted.
LEMMA SoundWhenWritten ==
    ASSUME NEW s, NEW mark, NEW account, now \in Nat, Dated(s, now), Sound(mark, account, now),
           NEW written, NEW due, AllDue(due, s, mark, account)
    PROVE  /\ Sound(DedupAfter(s, due, written, mark), Counted(account, due \cap written), now)
           /\ OnDisk(due \cap written, account, Counted(account, due \cap written), now)
<1> DEFINE done  == due \cap written
           after == Counted(account, done)
           newMark == DedupAfter(s, due, written, mark)
<1> SUFFICES ASSUME NEW k \in Kinds
             PROVE  /\ KindIsSound(k, newMark[k], after[k], now)
                    /\ k \in done => after[k].window = WindowEnd(k, now) /\ after[k].snapshots > 0
                    /\ k \notin done => after[k] = account[k]
  BY DEF Sound, AllDue, OnDisk
<1> DEFINE old == account[k]
           new == after[k]
           W   == WindowEnd(k, now)
           m   == MinuteOf(ResetsAt(s, k))
           M   == newMark[k]
<1>1. /\ k \in done    => /\ new = [old EXCEPT !.snapshots = @ + 1]
                          /\ M = FloorToMinute(ResetsAt(s, k))
      /\ k \notin done => new = old /\ M = mark[k]
  BY DEF Counted, DedupAfter
<1>2. KindIsSound(k, mark[k], old, now) BY DEF Sound
<1>3. CASE k \notin done
  <2> HIDE DEF old, new, M, done
  <2> QED BY <1>1, <1>2, <1>3 DEF new, M, old
<1>4. CASE k \in done
  <2>1. /\ ResetsAt(s, k) # Absent /\ old.window = W /\ old.minute = m
        /\ mark[k] # FloorToMinute(ResetsAt(s, k))
    BY <1>4 DEF AllDue, OnRecord
  <2>2. PICK o \in Offsets : ResetsAt(s, k) = W + o BY <2>1, ResetIsShown
  <2>3. FloorToMinute(ResetsAt(s, k)) = Minute * m BY <2>1, ResetIsShown
  <2>4. W \in Nat BY WindowEndType
  <2>5. /\ old \in Account /\ old.snapshots <= 1 + old.crossings
        /\ old.snapshots # 1 + old.crossings
    BY <1>2, <2>1, <2>3 DEF KindIsSound
  <2> HIDE DEF old, new, W, m, M, done
  <2>6. /\ new \in Account /\ new.window = W /\ new.minute = m
        /\ new.crossings = old.crossings /\ new.snapshots = old.snapshots + 1
    BY <1>1, <1>4, <2>1, <2>5 DEF Account
  <2>7. new.snapshots > 0 /\ new.snapshots <= 1 + new.crossings
    BY <2>5, <2>6 DEF Account
  <2>8. MarkOf(k, M, new)
    <3>1. M = FloorToMinute(WindowEnd(k, now) + o) BY <1>1, <1>4, <2>2 DEF W
    <3>2. WindowEnd(k, now) <= new.window BY <2>4, <2>6 DEF W
    <3> QED BY <2>7, <3>1, <3>2 DEF MarkOf
  <2>9. KindIsSound(k, M, new, now)
    BY <1>1, <1>4, <2>3, <2>4, <2>6, <2>7, <2>8 DEF KindIsSound, W
  <2> QED BY <1>4, <2>6, <2>7, <2>9 DEF new, M, W
<1> QED BY <1>3, <1>4

\* What is marked of the running window was written.
LEMMA MarkedIsWritten ==
    ASSUME NEW s, NEW mark, NEW account, now \in Nat, Dated(s, now), Sound(mark, account, now),
           NEW k \in Kinds, ResetsAt(s, k) # Absent, OnRecord(k, s, account[k], now),
           mark[k] = FloorToMinute(ResetsAt(s, k))
    PROVE  account[k].window = WindowEnd(k, now) /\ account[k].snapshots > 0
<1>1. PICK o \in Offsets : ResetsAt(s, k) = WindowEnd(k, now) + o BY ResetIsShown
<1>2. mark[k] # None BY ResetIsShown
<1>3. PICK u \in Nat, a \in Offsets :
         /\ mark[k] = FloorToMinute(WindowEnd(k, u) + a)
         /\ WindowEnd(k, u) = account[k].window => account[k].snapshots > 0
  BY <1>2 DEF Sound, KindIsSound, MarkOf
<1>4. WindowEnd(k, u) = WindowEnd(k, now) BY <1>1, <1>3, OneMinuteOneWindow
<1> QED BY <1>3, <1>4 DEF OnRecord

-----------------------------------------------------------------------------
(* The invariant *)

\* What a report says agrees with itself, with the cache and with the snapshots.
AdviceHolds ==
    /\ NoWindowMissed /\ InDoubtOnlyAlerts /\ UsedUpQuotaIsARisk /\ CompactAdviceAgrees
    /\ ClashesAreTold

AdviceInv ==
    /\ now \in 0..MaxNow /\ gates \in GateSettings
    /\ PanesAreSound /\ AdviceHolds

\* What a report is known by; kept is what remains of its pane.
ReportOf(r, kept) ==
    /\ r.signals \in Signals
    /\ r.effects = Effects(r.signals, r.recommendations)
    /\ \E last, baseline, errors :
         r.recommendations =
           Recommendations(r.id, r.signals, gates, last, baseline, errors, now)
    /\ r.id.confidence = "Conflict" => r.signals.context \in {Absent, kept.cache.context}
    /\ \A k \in AdvisedKinds(r.recommendations) : gates.auto_snapshot =>
            \/ kept.taken[k].window = WindowEnd(k, now) /\ kept.taken[k].snapshots > 0
            \/ [kind |-> k, severity |-> Warning] \in r.notices

LEMMA OutcomeIs ==
    ASSUME AdviceInv, NEW listing \in Listings, NEW p \in Alive(listing), NEW written
    PROVE  LET o == Outcome(listing, written, p)
           IN  /\ o.kept.cache \in Caches /\ Sound(o.kept.dedup, o.kept.taken, now)
               /\ o.report.pane = p /\ ReportOf(o.report, o.kept)
<1> DEFINE event == Event(listing, p)
           entry == listing[p]
           i == IterationOf(listing, p)
           o == Outcome(listing, written, p)
           k == Kept(p, event)
           s == SeenOf(p, entry, event)
           recs == i.report.recommendations
           asks == gates.auto_snapshot /\ ~ObserveOnly(IdOf(entry))
           asked == i.kept.taken
<1>1. p \in Panes /\ entry.screen \in Screens
  BY ListingsAssumption DEF Alive
<1>2. PanesAreSound /\ now \in 0..MaxNow /\ now \in Nat
  BY WindowTypes DEF AdviceInv, Kinds
<1>3. k.cache \in Caches /\ Sound(k.dedup, k.taken, now)
  BY <1>1, <1>2, KeptOfPane DEF KeptIsSound
<1>4. /\ s \in Signals /\ Dated(s, now) /\ CacheOf(p, entry, event) \in Caches
      /\ IdOf(entry).confidence = "Conflict" =>
           s.context \in {Absent, CacheOf(p, entry, event).context}
  BY <1>1, <1>2, SeenType
<1>5. i = Iteration(p, entry, event)
  BY DEF IterationOf
<1> HIDE DEF event, entry, i, k, s
<1>6. /\ KeptRecord(i.kept) /\ i.kept.cache = CacheOf(p, entry, event)
      /\ i.kept.dedup = k.dedup
      /\ i.kept.taken = IF asks THEN Asked(k.taken, s, AdvisedKinds(recs)) ELSE k.taken
      /\ ReportRecord(i.report) /\ i.report.pane = p /\ i.report.id = IdOf(entry)
      /\ i.report.signals = s /\ i.report.effects = Effects(s, recs)
      /\ i.due = IF asks THEN DueKinds(s, recs, k.dedup) ELSE {}
  BY <1>1, <1>2, <1>5, IterationIs DEF k, s
<1>7. PICK last, baseline, errors :
          recs = Recommendations(IdOf(entry), s, gates, last, baseline, errors, now)
  BY <1>1, <1>2, <1>5, IterationIs DEF k, s
<1>8. ASSUME NEW kind \in AdvisedKinds(recs)
      PROVE  kind \in Kinds /\ ~ObserveOnly(IdOf(entry)) /\ ResetsAt(s, kind) # Absent
  <2>1. kind \in Kinds BY DEF AdvisedKinds
  <2> HIDE DEF recs
  <2>2. kind \in AdvisedKinds(Recommendations(IdOf(entry), s, gates, last, baseline,
                                              errors, now))
    BY <1>7
  <2> QED BY <2>1, <2>2, AdvisedIsShown
<1>9. /\ Sound(k.dedup, asked, now) /\ AllDue(i.due, s, k.dedup, asked)
      /\ asks => \A kind \in AdvisedKinds(recs) : OnRecord(kind, s, asked[kind], now)
  <2>1. CASE ~asks
    BY <1>3, <1>6, <2>1 DEF AllDue
  <2>2. CASE asks
    <3> DEFINE advised == AdvisedKinds(recs)
               account == k.taken
               mark == k.dedup
    <3>1. advised \in SUBSET Kinds /\ \A kind \in advised : ResetsAt(s, kind) # Absent
      BY <1>8 DEF AdvisedKinds
    <3>2. asked = Asked(account, s, advised) /\ i.due = DueKinds(s, recs, mark)
      BY <1>6, <2>2
    <3>3. Sound(mark, account, now) BY <1>3
    <3>4. i.due = {kind \in advised : mark[kind] # FloorToMinute(ResetsAt(s, kind))}
      BY <3>2 DEF DueKinds
    <3> HIDE DEF asked, advised, account, mark
    <3>5. /\ Sound(mark, asked, now)
          /\ \A kind \in advised : OnRecord(kind, s, asked[kind], now)
      BY <1>2, <1>4, <3>1, <3>2, <3>3, SoundWhenAsked
    <3>6. AllDue(i.due, s, mark, asked)
      BY <3>1, <3>4, <3>5 DEF AllDue
    <3> QED BY <3>5, <3>6 DEF mark, advised
  <2> QED BY <2>1, <2>2
<1>10. /\ o.kept.cache = i.kept.cache
       /\ o.kept.dedup = DedupAfter(s, i.due, written, k.dedup)
       /\ o.kept.taken = Counted(asked, i.due \cap written)
       /\ o.report.pane = p /\ o.report.id = IdOf(entry) /\ o.report.signals = s
       /\ o.report.effects = Effects(s, recs) /\ o.report.recommendations = recs
       /\ o.report.notices = Notices(i.due, written)
  <2>1. o = Snapshots(i, written) BY DEF Outcome, i
  <2> HIDE DEF o
  <2>2. KeptRecord(i.kept) /\ ReportRecord(i.report) BY <1>6
  <2>3. LET n == Snapshots(i, written)
        IN  /\ n.kept.cache = i.kept.cache
            /\ n.kept.dedup = DedupAfter(i.report.signals, i.due, written, i.kept.dedup)
            /\ n.kept.taken = Counted(i.kept.taken, i.due \cap written)
            /\ n.report.pane = i.report.pane /\ n.report.id = i.report.id
            /\ n.report.signals = i.report.signals /\ n.report.effects = i.report.effects
            /\ n.report.recommendations = i.report.recommendations
            /\ n.report.notices = Notices(i.due, written)
    BY <2>2, SnapshotsAre, Zenon
  <2> QED BY <1>6, <2>1, <2>3
<1> HIDE DEF o, recs, asked
<1>11. /\ Sound(o.kept.dedup, o.kept.taken, now)
       /\ \A kind \in i.due \cap written : /\ o.kept.taken[kind].window = WindowEnd(kind, now)
                                          /\ o.kept.taken[kind].snapshots > 0
       /\ \A kind \in Kinds \ (i.due \cap written) : o.kept.taken[kind] = asked[kind]
  <2> DEFINE due == i.due
             mark == k.dedup
  <2>1. /\ now \in Nat /\ Dated(s, now) /\ Sound(mark, asked, now)
        /\ AllDue(due, s, mark, asked)
    BY <1>2, <1>4, <1>9
  <2>2. /\ o.kept.dedup = DedupAfter(s, due, written, mark)
        /\ o.kept.taken = Counted(asked, due \cap written)
    BY <1>10
  <2> HIDE DEF due, mark
  <2>3. /\ Sound(DedupAfter(s, due, written, mark), Counted(asked, due \cap written), now)
        /\ OnDisk(due \cap written, asked, Counted(asked, due \cap written), now)
    BY <2>1, SoundWhenWritten
  <2> QED BY <2>2, <2>3 DEF due, OnDisk
<1>12. ASSUME NEW kind \in AdvisedKinds(recs), gates.auto_snapshot
       PROVE  \/ /\ o.kept.taken[kind].window = WindowEnd(kind, now)
                 /\ o.kept.taken[kind].snapshots > 0
              \/ [kind |-> kind, severity |-> Warning] \in o.report.notices
  <2>1. kind \in Kinds /\ asks /\ ResetsAt(s, kind) # Absent
    BY <1>8, <1>12
  <2>2. CASE kind \in i.due \cap written
    BY <1>11, <2>2
  <2>3. CASE kind \in i.due \ written
    BY <1>10, <2>3 DEF Notices
  <2>4. CASE kind \notin i.due
    <3>1. k.dedup[kind] = FloorToMinute(ResetsAt(s, kind))
      BY <1>6, <1>12, <2>1, <2>4 DEF DueKinds
    <3>2. OnRecord(kind, s, asked[kind], now)
      BY <1>9, <1>12, <2>1
    <3>3. asked[kind].window = WindowEnd(kind, now) /\ asked[kind].snapshots > 0
      <4> DEFINE mark == k.dedup
      <4>1. /\ Sound(mark, asked, now) /\ mark[kind] = FloorToMinute(ResetsAt(s, kind))
        BY <1>9, <3>1
      <4> HIDE DEF mark
      <4> QED BY <1>2, <1>4, <2>1, <3>2, <4>1, MarkedIsWritten
    <3> QED BY <1>11, <2>1, <2>4, <3>3
  <2> QED BY <2>2, <2>3, <2>4
<1>13. ReportOf(o.report, o.kept)
  BY <1>4, <1>6, <1>7, <1>10, <1>12 DEF ReportOf
<1> QED BY <1>4, <1>6, <1>10, <1>11, <1>13 DEF o

LEMMA DoubtHolds ==
    ASSUME NEW r, NEW kept, ReportOf(r, kept), r.id.confidence = "Conflict"
    PROVE  /\ Actions(r) \subseteq Alerts \union
                (IF kept.cache.context = Absent THEN {} ELSE {"quota-tight-nudge"})
           /\ "PromptSendProposed" \notin r.effects
<1>1. PICK last, baseline, errors :
          r.recommendations =
            Recommendations(r.id, r.signals, gates, last, baseline, errors, now)
  BY DEF ReportOf
<1>2. ~Sure(r.id) BY DEF Sure
<1>3. \A rec \in r.recommendations :
         /\ \/ rec.action \in Alerts
            \/ rec.action = "quota-tight-nudge" /\ r.signals.context >= 90
         /\ ~(rec.strong /\ rec.compact)
  BY <1>1, <1>2, DoubtfulAdvice
<1>4. r.signals.context >= 90 => kept.cache.context # Absent
  BY DEF ReportOf, Absent
<1>5. r.effects = Effects(r.signals, r.recommendations) BY DEF ReportOf
<1>6. "PromptSendProposed" \notin r.effects
  BY <1>3, <1>5 DEF Effects
<1> QED BY <1>3, <1>4, <1>6 DEF Actions

LEMMA QuotaHolds ==
    ASSUME NEW r, NEW kept, ReportOf(r, kept), gates \in GateSettings,
           Sure(r.id), ~ObserveOnly(r.id), QuotaUsedUp(r.signals, gates)
    PROVE  "quota-act-now" \in Actions(r) /\ "Notify" \in r.effects
<1>1. PICK last, baseline, errors :
          r.recommendations =
            Recommendations(r.id, r.signals, gates, last, baseline, errors, now)
  BY DEF ReportOf
<1> DEFINE rec == Strong(Advice("quota-act-now", Risk))
<1>2. rec \in QuotaPressure(r.id, r.signals, gates)
  BY GatesAssumption, UsedUpIsTold DEF ReportOf
<1>3. rec.action = "quota-act-now" /\ rec.severity >= Warning
  BY DEF Strong, Advice, Risk, Warning
<1> HIDE DEF rec
<1>4. rec \in r.recommendations
  BY <1>1, <1>2 DEF Recommendations, EvalAdvisories
<1>5. r.effects = Effects(r.signals, r.recommendations) BY DEF ReportOf
<1>6. "Notify" \in r.effects BY <1>3, <1>4, <1>5 DEF Effects
<1> QED BY <1>3, <1>4, <1>6 DEF Actions

LEMMA CompactHolds ==
    ASSUME NEW r, NEW kept, ReportOf(r, kept), gates \in GateSettings,
           gates.cache_hot_low_ctx <= gates.context_warning,
           gates.cache_hot_low_ctx <= gates.context_critical
    PROVE  ~("PromptSendProposed" \in r.effects /\ "cache-hot-avoid-compact" \in Actions(r))
<1> SUFFICES ASSUME "PromptSendProposed" \in r.effects, "cache-hot-avoid-compact" \in Actions(r)
             PROVE  FALSE
  OBVIOUS
<1>1. PICK last, baseline, errors :
          r.recommendations =
            Recommendations(r.id, r.signals, gates, last, baseline, errors, now)
  BY DEF ReportOf
<1>2. \A limit \in Limits : gates[limit] \in Int
  BY GatesAssumption
<1>3. \A rec \in r.recommendations :
         /\ rec.strong /\ rec.compact =>
              \/ r.signals.context >= gates.context_critical
              \/ r.signals.context >= gates.context_warning
         /\ rec.action = "cache-hot-avoid-compact" =>
              r.signals.context < gates.cache_hot_low_ctx
  BY <1>1, <1>2, CompactNeedsContext DEF ReportOf
<1>4. r.effects = Effects(r.signals, r.recommendations) BY DEF ReportOf
<1>5. PICK proposed \in r.recommendations : proposed.strong /\ proposed.compact
  BY <1>4 DEF Effects
<1>6. PICK against \in r.recommendations : against.action = "cache-hot-avoid-compact"
  BY DEF Actions
<1>7. /\ r.signals.context \in Int /\ gates.context_critical \in Int
      /\ gates.context_warning \in Int /\ gates.cache_hot_low_ctx \in Int
  BY <1>2 DEF Limits, ReportOf, Signals, ScreensWith
<1> QED BY <1>3, <1>5, <1>6, <1>7

\* Two panes on one branch of one directory are in one group, and it is told.
LEMMA ClashIsTold ==
    ASSUME NEW views, IsFiniteSet(views), NEW g, g.cross_window,
           NEW a \in Participants(views), NEW b \in Participants(views), a # b,
           a.signals.busy, b.signals.busy, Keyed(a), Keyed(b), WorkKey(a) = WorkKey(b)
    PROVE  \E f \in EvaluateCrossPane(views, g) : {a.pane, b.pane} \subseteq {f.anchor} \union f.others
<1> DEFINE workers == {v \in Participants(views) : v.signals.busy /\ Keyed(v)}
           group == {v \in workers : WorkKey(v) = WorkKey(a)}
           groups == {{v \in workers : WorkKey(v) = WorkKey(w)} : w \in workers}
<1>1. a \in workers /\ b \in workers OBVIOUS
<1>2. a \in group /\ b \in group BY <1>1
<1>3. group \in SUBSET views BY DEF Participants
<1>4. group \in groups BY <1>1
<1>5. Clash(group, g) \subseteq EvaluateCrossPane(views, g)
  BY <1>4 DEF EvaluateCrossPane, EvalConcurrent
<1> HIDE DEF group, workers, groups
<1>6. IsFiniteSet(group) BY <1>3, FS_Subset
<1>7. ~(Cardinality(group) < 2)
  <2>1. {a, b} \in SUBSET group BY <1>2
  <2>2. Cardinality({a, b}) <= Cardinality(group) BY <1>6, <2>1, FS_Subset
  <2>3. Cardinality({a, b}) = 2
    <3>1. IsFiniteSet({a}) /\ Cardinality({a}) = 1 BY FS_Singleton
    <3>2. Cardinality({a} \union {b}) = Cardinality({a}) + 1 BY <3>1, FS_AddElement
    <3>3. {a, b} = {a} \union {b} OBVIOUS
    <3> QED BY <3>1, <3>2, <3>3
  <2>4. Cardinality(group) \in Nat BY <1>6, FS_CardinalityType
  <2> QED BY <2>2, <2>3, <2>4
<1>8. PICK f \in Clash(group, g) : {f.anchor} \union f.others
                                   = {Min(PanesOf(group))} \union (PanesOf(group) \ {Min(PanesOf(group))})
  BY <1>7 DEF Clash, Finding
<1>9. {a.pane, b.pane} \subseteq {f.anchor} \union f.others
  BY <1>2, <1>8 DEF PanesOf
<1> QED BY <1>5, <1>8, <1>9

LEMMA InvInit == Init => AdviceInv
<1> SUFFICES ASSUME Init PROVE AdviceInv OBVIOUS
<1>1. now \in 0..MaxNow /\ gates \in GateSettings
  BY WindowTypes DEF Init, Kinds
<1>2. PanesAreSound
  <2>1. NoPressure \in Caches BY DEF NoPressure, Caches, Absent
  <2> QED BY <2>1, NothingIsSound DEF Init, PanesAreSound
<1>3. Reported = {} BY DEF Init, Reported
<1>4. AdviceHolds
  BY <1>3 DEF AdviceHolds, NoWindowMissed, InDoubtOnlyAlerts, UsedUpQuotaIsARisk,
              CompactAdviceAgrees, ClashesAreTold
<1> QED BY <1>1, <1>2, <1>4 DEF AdviceInv

LEMMA PollKeepsInv ==
    ASSUME AdviceInv, NEW listing \in Listings, Poll(listing) PROVE AdviceInv'
<1> DEFINE alive == Alive(listing)
           out(written, p) == Outcome(listing, written, p)
<1>1. PICK written :
        /\ \A p \in Panes : LET after == IF p \in alive THEN out(written, p).kept
                                         ELSE Kept(p, IF p \in DOMAIN listing THEN Event(listing, p)
                                                      ELSE "Unchanged")
                            IN  /\ pressure_metric_cache'[p] = after.cache
                                /\ auto_snapshot_dedup'[p] = after.dedup
                                /\ taken'[p] = after.taken
        /\ LET views == {out(written, p).report : p \in alive}
           IN  reports' = [panes |-> views, findings |-> EvaluateCrossPane(views, gates)]
  <2>1. PICK written :
          LET after == [p \in Panes |-> KeptAfter(listing, written, p)]
          IN  /\ pressure_metric_cache' = [p \in Panes |-> after[p].cache]
              /\ auto_snapshot_dedup' = [p \in Panes |-> after[p].dedup]
              /\ taken' = [p \in Panes |-> after[p].taken]
              /\ reports' = [panes |-> Views(listing, written),
                             findings |-> EvaluateCrossPane(Views(listing, written), gates)]
    BY DEF Poll
  <2>2. Views(listing, written) = {out(written, p).report : p \in alive}
    BY DEF Views
  <2>3. \A p \in Panes : /\ pressure_metric_cache'[p] = KeptAfter(listing, written, p).cache
                         /\ auto_snapshot_dedup'[p] = KeptAfter(listing, written, p).dedup
                         /\ taken'[p] = KeptAfter(listing, written, p).taken
    BY <2>1
  <2> WITNESS written
  <2> QED BY <2>1, <2>2, <2>3 DEF KeptAfter
<1>2. UNCHANGED <<now, gates>> BY DEF Poll
<1> DEFINE views == {out(written, p).report : p \in alive}
<1>3. /\ reports'.panes = views /\ reports'.findings = EvaluateCrossPane(views, gates)
  BY <1>1
<1>4. reports' # None => Reported' = views BY <1>3 DEF Reported
<1>5. alive \subseteq Panes /\ IsFiniteSet(alive)
  <2>1. alive \in SUBSET DOMAIN listing BY DEF Alive
  <2> QED BY <2>1, ListingsAssumption, FS_Subset
<1>6. \A p \in alive : LET o == out(written, p)
                       IN  /\ o.kept.cache \in Caches /\ Sound(o.kept.dedup, o.kept.taken, now)
                           /\ o.report.pane = p /\ ReportOf(o.report, o.kept)
  BY OutcomeIs
<1>7. PanesAreSound'
  <2> SUFFICES ASSUME NEW p \in Panes
               PROVE  /\ pressure_metric_cache'[p] \in Caches
                      /\ Sound(auto_snapshot_dedup'[p], taken'[p], now)
    BY <1>2 DEF PanesAreSound, Sound, KindIsSound, MarkOf
  <2>1. CASE p \in alive BY <1>1, <1>6, <2>1
  <2>2. CASE p \notin alive
    <3> DEFINE k == Kept(p, IF p \in DOMAIN listing THEN Event(listing, p) ELSE "Unchanged")
    <3>1. k.cache \in Caches /\ Sound(k.dedup, k.taken, now)
      BY KeptOfPane DEF AdviceInv, KeptIsSound
    <3>2. /\ pressure_metric_cache'[p] = k.cache /\ auto_snapshot_dedup'[p] = k.dedup
          /\ taken'[p] = k.taken
      BY <1>1, <2>2
    <3> QED BY <3>1, <3>2
  <2> QED BY <2>1, <2>2
<1>8. ASSUME NEW r \in Reported'
      PROVE  \E p \in alive : /\ r = out(written, p).report /\ r.pane = p
                              /\ ReportOf(r, out(written, p).kept)
                              /\ pressure_metric_cache'[p] = out(written, p).kept.cache
                              /\ taken'[p] = out(written, p).kept.taken
  <2>1. r \in views BY <1>4, <1>8 DEF Reported
  <2>2. PICK p \in alive : r = out(written, p).report BY <2>1
  <2> QED BY <1>1, <1>5, <1>6, <2>2
<1>9. IsFiniteSet(views)
  <2> DEFINE f == [p \in alive |-> out(written, p).report]
  <2>1. f \in Surjection(alive, views) BY DEF Surjection
  <2> HIDE DEF views, alive
  <2> QED BY <1>5, <2>1, FS_Surjection
<1> HIDE DEF views, alive, out
<1>10. NoWindowMissed'
  <2> SUFFICES ASSUME NEW r \in Reported', NEW k \in AdvisedKinds(r.recommendations),
                      gates.auto_snapshot
               PROVE  \/ /\ taken'[r.pane][k].window = WindowEnd(k, now)
                         /\ taken'[r.pane][k].snapshots > 0
                      \/ [kind |-> k, severity |-> Warning] \in r.notices
    BY <1>2 DEF NoWindowMissed
  <2> QED BY <1>8 DEF ReportOf
<1>11. InDoubtOnlyAlerts'
  <2> SUFFICES ASSUME NEW r \in Reported', r.id.confidence = "Conflict"
               PROVE  /\ Actions(r) \subseteq Alerts \union
                            (IF pressure_metric_cache'[r.pane].context = Absent THEN {}
                             ELSE {"quota-tight-nudge"})
                      /\ "PromptSendProposed" \notin r.effects
    BY DEF InDoubtOnlyAlerts
  <2>1. PICK p \in alive : /\ r.pane = p /\ ReportOf(r, out(written, p).kept)
                           /\ pressure_metric_cache'[p] = out(written, p).kept.cache
    BY <1>8
  <2> QED BY <2>1, DoubtHolds
<1>12. UsedUpQuotaIsARisk'
  <2> SUFFICES ASSUME NEW r \in Reported', Sure(r.id), ~ObserveOnly(r.id),
                      QuotaUsedUp(r.signals, gates)
               PROVE  "quota-act-now" \in Actions(r) /\ "Notify" \in r.effects
    BY <1>2 DEF UsedUpQuotaIsARisk, QuotaUsedUp
  <2> QED BY <1>8, QuotaHolds DEF AdviceInv
<1>13. CompactAdviceAgrees'
  <2> SUFFICES ASSUME NEW r \in Reported',
                      gates.cache_hot_low_ctx <= gates.context_warning,
                      gates.cache_hot_low_ctx <= gates.context_critical
               PROVE  ~("PromptSendProposed" \in r.effects
                          /\ "cache-hot-avoid-compact" \in Actions(r))
    BY <1>2 DEF CompactAdviceAgrees
  <2> QED BY <1>8, CompactHolds DEF AdviceInv
<1>14. ClashesAreTold'
  <2> SUFFICES ASSUME NEW a \in Reported', NEW b \in Reported', a # b, gates.cross_window,
                      {a, b} \subseteq Participants(Reported'),
                      a.signals.busy, b.signals.busy, Keyed(a), Keyed(b), WorkKey(a) = WorkKey(b)
               PROVE  \E f \in reports'.findings : {a.pane, b.pane} \subseteq {f.anchor} \union f.others
    BY <1>2 DEF ClashesAreTold
  <2>1. Reported' = views BY <1>4 DEF Reported
  <2> QED BY <1>3, <1>9, <2>1, ClashIsTold
<1>15. (now \in 0..MaxNow /\ gates \in GateSettings)'
  BY <1>2 DEF AdviceInv
<1> QED BY <1>7, <1>10, <1>11, <1>12, <1>13, <1>14, <1>15 DEF AdviceInv, AdviceHolds

LEMMA SilenceHolds == ASSUME reports' = None PROVE AdviceHolds'
<1>1. Reported' = {} BY DEF Reported
<1> QED BY <1>1 DEF AdviceHolds, NoWindowMissed, InDoubtOnlyAlerts, UsedUpQuotaIsARisk,
                    CompactAdviceAgrees, ClashesAreTold

LEMMA WaitKeepsInv == ASSUME AdviceInv, Wait PROVE AdviceInv'
<1>1. now \in Nat /\ now' = now + 1 /\ now' \in 0..MaxNow
  BY WindowTypes DEF AdviceInv, Wait, Kinds
<1>2. PanesAreSound'
  <2> SUFFICES ASSUME NEW p \in Panes
               PROVE  /\ pressure_metric_cache[p] \in Caches
                      /\ Sound(auto_snapshot_dedup[p], taken[p], now + 1)
    BY <1>1 DEF Wait, keptVars, PanesAreSound, Sound, KindIsSound, MarkOf
  <2> QED BY <1>1, SoundStaysSound DEF AdviceInv, PanesAreSound
<1>3. AdviceHolds' BY SilenceHolds DEF Wait
<1> QED BY <1>1, <1>2, <1>3 DEF AdviceInv, Wait

LEMMA ConfigureKeepsInv == ASSUME AdviceInv, NEW g \in GateSettings, Configure(g) PROVE AdviceInv'
<1>1. PanesAreSound'
  BY DEF AdviceInv, Configure, keptVars, PanesAreSound, Sound, KindIsSound, MarkOf
<1>2. AdviceHolds' BY SilenceHolds DEF Configure
<1> QED BY <1>1, <1>2 DEF AdviceInv, Configure

LEMMA RestartKeepsInv == ASSUME AdviceInv, Restart PROVE AdviceInv'
<1>1. NoPressure \in Caches BY DEF NoPressure, Caches, Absent
<1>2. PanesAreSound'
  <2>1. now \in Nat BY WindowTypes DEF AdviceInv, Kinds
  <2> SUFFICES ASSUME NEW p \in Panes
               PROVE  /\ pressure_metric_cache'[p] \in Caches
                      /\ Sound(auto_snapshot_dedup'[p], taken'[p], now)
    BY DEF Restart, PanesAreSound, Sound, KindIsSound, MarkOf
  <2> QED BY <1>1, <2>1, NothingIsSound DEF Restart
<1>3. AdviceHolds' BY SilenceHolds DEF Restart
<1> QED BY <1>2, <1>3 DEF AdviceInv, Restart

LEMMA StutterKeepsInv == ASSUME AdviceInv, UNCHANGED vars PROVE AdviceInv'
<1>1. PanesAreSound'
  BY DEF AdviceInv, vars, keptVars, PanesAreSound, Sound, KindIsSound, MarkOf
<1>2. AdviceHolds'
  BY DEF AdviceInv, vars, keptVars, AdviceHolds, NoWindowMissed, InDoubtOnlyAlerts,
         UsedUpQuotaIsARisk, CompactAdviceAgrees, ClashesAreTold, Reported
<1> QED BY <1>1, <1>2 DEF AdviceInv, vars

-----------------------------------------------------------------------------
(* Theorems *)

\* The record of the snapshots stays sound, and every report agrees with itself: the
\* inductive invariant.
THEOREM AdviceInvariance == Spec => []AdviceInv
<1>1. AdviceInv /\ [Next]_vars => AdviceInv'
  <2> SUFFICES ASSUME AdviceInv, [Next]_vars PROVE AdviceInv' OBVIOUS
  <2>1. ASSUME NEW listing \in Listings, Poll(listing) PROVE AdviceInv'
    BY <2>1, PollKeepsInv
  <2>2. CASE Wait BY <2>2, WaitKeepsInv
  <2>3. ASSUME NEW g \in GateSettings, Configure(g) PROVE AdviceInv'
    BY <2>3, ConfigureKeepsInv
  <2>4. CASE Restart BY <2>4, RestartKeepsInv
  <2>5. CASE UNCHANGED vars BY <2>5, StutterKeepsInv
  <2> QED BY <2>1, <2>2, <2>3, <2>4, <2>5 DEF Next
<1> QED BY <1>1, InvInit, PTL DEF Spec

\* A quota window is written to disk once in a pane's lifetime, and once more at most
\* for each time its reset moved to another minute between two polls that asked, for any
\* lengths of the windows and any jitter that leaves two windows in two minutes
\* (maybe_auto_snapshot, floor_to_minute).
THEOREM WindowsAreTakenOnce == Spec => []OneSnapshotPerWindow
<1>1. AdviceInv => OneSnapshotPerWindow
  BY DEF AdviceInv, PanesAreSound, Sound, KindIsSound, OneSnapshotPerWindow
<1> QED BY <1>1, AdviceInvariance, PTL

\* An advised snapshot is on disk or reported as failed, whatever the disk refuses
\* (maybe_auto_snapshot).
THEOREM FailuresAreTold == Spec => []NoWindowMissed
<1>1. AdviceInv => NoWindowMissed BY DEF AdviceInv, AdviceHolds
<1> QED BY <1>1, AdviceInvariance, PTL

\* A pane whose identity is in doubt gets no provider advice but for a context it showed
\* before, for any screens and gates (parse_for, allow_provider_specific).
THEOREM DoubtIsSilent == Spec => []InDoubtOnlyAlerts
<1>1. AdviceInv => InDoubtOnlyAlerts BY DEF AdviceInv, AdviceHolds
<1> QED BY <1>1, AdviceInvariance, PTL

\* No calm quota window hides a used-up one, for any limits (recommend_quota).
THEOREM UsedUpIsUrgent == Spec => []UsedUpQuotaIsARisk
<1>1. AdviceInv => UsedUpQuotaIsARisk BY DEF AdviceInv, AdviceHolds
<1> QED BY <1>1, AdviceInvariance, PTL

\* /compact is not proposed in the poll that advises against it, for any limits in
\* their order (context_pressure_warning, recommend_cache_hot).
THEOREM CompactIsConsistent == Spec => []CompactAdviceAgrees
<1>1. AdviceInv => CompactAdviceAgrees BY DEF AdviceInv, AdviceHolds
<1> QED BY <1>1, AdviceInvariance, PTL

\* Two panes on one branch of one directory are named together, for any panes and
\* windows (eval_concurrent).
THEOREM ClashesAreNamed == Spec => []ClashesAreTold
<1>1. AdviceInv => ClashesAreTold BY DEF AdviceInv, AdviceHolds
<1> QED BY <1>1, AdviceInvariance, PTL
=============================================================================
