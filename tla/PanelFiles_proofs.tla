-------------------------- MODULE PanelFiles_proofs --------------------------
(***************************************************************************)
(* Theorems about HubWatchdog, HubAutomation, StatusObserver,              *)
(* DeliverablePack, AttachmentStore and RunLedgerFile, for any values of   *)
(* their constants.                                                        *)
(***************************************************************************)
EXTENDS HubWatchdog, HubAutomation, StatusObserver, DeliverablePack, AttachmentStore, RunLedgerFile,
        WellFoundedInduction, FiniteSetTheorems, SequenceTheorems, TLAPS

-----------------------------------------------------------------------------
(* HubWatchdog: types and the inductive invariant.                         *)

Issue == [key : Keys, open : BOOLEAN]

KeyMaps == UNION {[ks -> Nat] : ks \in SUBSET Keys}

WatchRun == [at : {"idle", "probe", "handle", "reopen", "close", "create", "replace"}, probing : BOOLEAN,
        keys : KeyMaps, left : Seq(Keys), ok : SUBSET ProbedKeys, asked : SUBSET ProbedKeys]

WatchTypeOK ==
    /\ works \in [ProbedKeys -> BOOLEAN]
    /\ issues \in Seq(Issue)
    /\ stateFile \in KeyMaps
    /\ stateTmp \in [there : BOOLEAN, keys : KeyMaps]
    /\ watcher \in [Watchers -> WatchRun]
    /\ watchPast \in [reports : Nat, changes : Nat, closings : Nat, known : Nat, faults : Nat, overlap : BOOLEAN]

\* The issues of the map f hold the markers of their keys.
Backed(f, iss) == \A k \in DOMAIN f : f[k] # 0 => f[k] \in DOMAIN iss /\ k \in Marked[iss[f[k]].key]

\* The map f answers for every open issue, and has an issue for each of its keys; and when it
\* takes another key's issue for a probed one, it has it for that key, too.
Covers(f, iss) ==
    /\ \A i \in DOMAIN iss : iss[i].open => iss[i].key \in DOMAIN f /\ f[iss[i].key] = i
    /\ \A k \in DOMAIN f : f[k] # 0
    /\ \A k \in ProbedKeys \cap DOMAIN f : iss[f[k]].key \in DOMAIN f /\ f[iss[f[k]].key] = f[k]

KnownOf(l) == IF Head(l.left) \in DOMAIN l.keys THEN l.keys[Head(l.left)] ELSE 0

\* What the place of a run implies.
Placed(l) ==
    /\ l.at \in {"reopen", "close", "create"} => l.left # <<>>
    /\ l.probing => \A j \in DOMAIN l.left : l.left[j] \in ProbedKeys
    /\ l.at \in {"reopen", "close"} => l.probing /\ KnownOf(l) # 0
    /\ l.at = "create" => KnownOf(l) = 0
    /\ l.at = "replace" => l.left = <<>>
    /\ l.at \in {"idle", "probe"} => l.asked = {}

\* Of the keys that the run has handled, those that it still records have an open issue.
Handled(l, iss) ==
    \A k \in ProbedKeys \cap DOMAIN l.keys : (\A j \in DOMAIN l.left : l.left[j] # k) => iss[l.keys[k]].open

Active(w) == watcher[w].at # "idle"

RunsHold ==
    /\ \A w \in Watchers : Backed(watcher[w].keys, issues) /\ Placed(watcher[w])
    /\ Active("cron") => watcher["cron"].probing
    /\ watchPast.known <= watchPast.closings

FilesHold == Backed(stateFile, issues) /\ Backed(stateTmp.keys, issues)

\* Without trouble one run at a time is active, and its map is what the state file will be.
Calm ==
    /\ \A v, w \in Watchers : Active(v) /\ Active(w) => v = w
    /\ (\A w \in Watchers : ~Active(w)) => Covers(stateFile, issues)
    /\ \A w \in Watchers : Active(w) => Covers(watcher[w].keys, issues)
    /\ \A w \in Watchers : watcher[w].at = "replace" => stateTmp.there /\ stateTmp.keys = watcher[w].keys
    /\ watcher["cron"].at \notin {"idle", "probe"} /\ watcher["cron"].asked = ProbedKeys
            /\ watchPast.closings = watchPast.known => Handled(watcher["cron"], issues)

WatchInv == WatchTypeOK /\ RunsHold /\ FilesHold /\ (NoTrouble => Calm)

LEMMA SomeWatchKeys ==
    /\ ProbedKeys \subseteq Keys /\ ReportKeys \subseteq Keys /\ "transport" \in ProbedKeys
    /\ Probed \in Seq(ProbedKeys) /\ Probed \in Seq(Keys) /\ <<"transport">> \in Seq(Keys)
    /\ \A k \in ProbedKeys : \E j \in DOMAIN Probed : Probed[j] = k
  <1> DEFINE T == {Targets[k] : k \in DOMAIN Targets}
  <1>1. Targets \in Seq(T)
    BY WatchAssumption
  <1> HIDE DEF T
  <1>2. Probed \in Seq(T \cup {"transport"}) /\ Probed[1] = "transport" /\ 1 \in DOMAIN Probed
    BY <1>1 DEF Probed
  <1>3. Probed \in Seq(ProbedKeys)
    BY <1>2 DEF ProbedKeys
  <1>4. ProbedKeys \subseteq Keys /\ ReportKeys \subseteq Keys
    BY DEF Keys
  <1>5. "transport" \in ProbedKeys
    BY <1>2 DEF ProbedKeys
  <1>6. Probed \in Seq(Keys) /\ <<"transport">> \in Seq(Keys)
    BY <1>3, <1>4, <1>5
  <1>7. \A k \in ProbedKeys : \E j \in DOMAIN Probed : Probed[j] = k
    BY DEF ProbedKeys
  <1> QED
    BY <1>3, <1>4, <1>5, <1>6, <1>7

\* What Lacking makes of a map.
LEMMA LackingFacts ==
    ASSUME NEW f \in KeyMaps, NEW k \in Keys, NEW g, g = Lacking(f, k)
    PROVE  /\ g \in KeyMaps /\ DOMAIN g = DOMAIN f \ {k}
           /\ \A j \in DOMAIN f : j # k => g[j] = f[j]
  <1>1. PICK ks \in SUBSET Keys : f \in [ks -> Nat]
    BY DEF KeyMaps
  <1>2. g \in [ks \ {k} -> Nat]
    BY <1>1 DEF Lacking
  <1>3. g \in KeyMaps
    BY <1>2 DEF KeyMaps
  <1> QED
    BY <1>1, <1>3 DEF Lacking

\* What With makes of a map.
LEMMA WithFacts ==
    ASSUME NEW f \in KeyMaps, NEW k \in Keys, NEW n \in Nat
    PROVE  LET g == With(f, k, n)
           IN  /\ g \in KeyMaps /\ DOMAIN g = DOMAIN f \cup {k} /\ g[k] = n
               /\ \A j \in DOMAIN f : j # k => g[j] = f[j]
  <1>1. PICK ks \in SUBSET Keys : f \in [ks -> Nat]
    BY DEF KeyMaps
  <1>2. With(f, k, n) \in [ks \cup {k} -> Nat]
    BY <1>1 DEF With
  <1>3. ks \cup {k} \in SUBSET Keys
    OBVIOUS
  <1>4. With(f, k, n) \in KeyMaps
    BY <1>2, <1>3 DEF KeyMaps
  <1> QED
    BY <1>1, <1>4 DEF With

\* A run that goes on, while the files stay: what it owes.
LEMMA RunStep ==
    ASSUME WatchInv, NEW w \in Watchers, NEW l \in WatchRun,
           watcher' = [watcher EXCEPT ![w] = l],
           works' = works, stateFile' = stateFile, stateTmp' = stateTmp,
           issues' \in Seq(Issue), DOMAIN issues \subseteq DOMAIN issues',
           \A i \in DOMAIN issues : issues'[i].key = issues[i].key,
           \/ watchPast' = watchPast
           \/ watchPast' = [watchPast EXCEPT !.faults = @ + 1],
           Active(w), l.at # "idle", l.at = "replace" => watcher[w].at = "replace",
           l.probing = watcher[w].probing,
           Backed(l.keys, issues'), Placed(l),
           NoTrouble /\ watchPast' = watchPast =>
               /\ Covers(l.keys, issues') /\ l.at # "replace"
               /\ w = "cron" /\ l.at # "probe" /\ l.asked = ProbedKeys /\ watchPast.closings = watchPast.known
                       => Handled(l, issues')
    PROVE  WatchInv'
  <1>1. WatchTypeOK' /\ watchPast'.known = watchPast.known /\ watchPast'.closings = watchPast.closings
    <2> DEFINE P == [reports : Nat, changes : Nat, closings : Nat, known : Nat, faults : Nat, overlap : BOOLEAN]
    <2>1. watchPast \in P
      BY DEF WatchInv, WatchTypeOK
    <2>2. watchPast' \in P /\ watchPast'.known = watchPast.known /\ watchPast'.closings = watchPast.closings
      BY <2>1
    <2>3. watcher' \in [Watchers -> WatchRun]
      BY DEF WatchInv, WatchTypeOK
    <2> QED
      BY <2>2, <2>3 DEF WatchInv, WatchTypeOK
  <1>2. \A v \in Watchers : watcher'[v] = IF v = w THEN l ELSE watcher[v]
    BY DEF WatchInv, WatchTypeOK
  <1>3. "cron" \in Watchers
    BY WatchAssumption
  <1>4. ASSUME NEW f, Backed(f, issues) PROVE Backed(f, issues')
    BY <1>4 DEF Backed
  <1>5. RunsHold'
    <2>1. ASSUME NEW v \in Watchers PROVE Backed(watcher'[v].keys, issues') /\ Placed(watcher'[v])
      BY <1>2, <1>4 DEF WatchInv, RunsHold
    <2>2. watcher'["cron"].at # "idle" => watcher'["cron"].probing
      BY <1>2, <1>3 DEF WatchInv, RunsHold, Active
    <2> QED
      BY <1>1, <2>1, <2>2 DEF WatchInv, RunsHold, Active
  <1>6. FilesHold'
    BY <1>4 DEF WatchInv, FilesHold
  <1>7. ASSUME NoTrouble' PROVE Calm'
    <2>1. NoTrouble /\ watchPast' = watchPast /\ Calm
      BY <1>7 DEF NoTrouble, WatchInv, WatchTypeOK
    <2>2. \A v \in Watchers \ {w} : watcher[v].at = "idle" /\ watcher'[v].at = "idle"
      BY <1>2, <2>1 DEF Calm, Active
    <2>3. watcher'[w] = l
      BY <1>2
    <2>4. \A v \in Watchers : watcher'[v].at # "idle" => v = w
      BY <2>2
    <2>5. watcher'["cron"].at \notin {"idle", "probe"} /\ watcher'["cron"].asked = ProbedKeys
              /\ watchPast.closings = watchPast.known => Handled(watcher'["cron"], issues')
      BY <1>3, <2>1, <2>3, <2>4
    <2>6. \A v, u \in Watchers : watcher'[v].at # "idle" /\ watcher'[u].at # "idle" => v = u
      BY <2>4
    <2>7. \A v \in Watchers : watcher'[v].at # "idle" => Covers(watcher'[v].keys, issues')
      BY <2>1, <2>3, <2>4
    <2>8. \A v \in Watchers : watcher'[v].at # "replace"
      BY <2>1, <2>2, <2>3
    <2> QED
      BY <2>1, <2>3, <2>5, <2>6, <2>7, <2>8 DEF Calm, Active
  <1> QED
    BY <1>1, <1>5, <1>6, <1>7 DEF WatchInv

\* What WatchInv says of a run.
LEMMA RunFacts ==
    ASSUME WatchInv, NEW w \in Watchers
    PROVE  /\ watcher[w] \in WatchRun /\ Backed(watcher[w].keys, issues) /\ Placed(watcher[w])
           /\ watcher[w].keys \in KeyMaps /\ watcher[w].left \in Seq(Keys)
           /\ issues \in Seq(Issue) /\ Known(w) = KnownOf(watcher[w])
           /\ NoTrouble /\ Active(w) => Covers(watcher[w].keys, issues)
           /\ NoTrouble /\ w = "cron" /\ watcher[w].at \notin {"idle", "probe"}
                /\ watcher[w].asked = ProbedKeys /\ watchPast.closings = watchPast.known => Handled(watcher[w], issues)
  <1>1. watcher[w] \in WatchRun /\ issues \in Seq(Issue)
    BY DEF WatchInv, WatchTypeOK
  <1>2. watcher[w].keys \in KeyMaps /\ watcher[w].left \in Seq(Keys)
    BY <1>1 DEF WatchRun
  <1>3. Known(w) = KnownOf(watcher[w])
    BY DEF Known, KnownOf, Current
  <1>4. Backed(watcher[w].keys, issues) /\ Placed(watcher[w])
    BY DEF WatchInv, RunsHold
  <1> QED
    BY <1>1, <1>2, <1>3, <1>4 DEF WatchInv, Calm

\* On to the next key.
LEMMA Advance ==
    ASSUME WatchInv, NEW w \in Watchers, watcher[w].left # <<>>,
           watcher[w].at \in {"handle", "reopen", "close", "create"}, NEW g \in KeyMaps,
           \A j \in DOMAIN g : j # Current(w) => j \in DOMAIN watcher[w].keys /\ g[j] = watcher[w].keys[j],
           OnWith(w, g), UNCHANGED <<works, stateFile, stateTmp>>,
           issues' \in Seq(Issue), DOMAIN issues \subseteq DOMAIN issues',
           \A i \in DOMAIN issues : issues'[i].key = issues[i].key,
           \/ watchPast' = watchPast
           \/ watchPast' = [watchPast EXCEPT !.faults = @ + 1],
           Backed(g, issues'),
           NoTrouble /\ watchPast' = watchPast =>
               /\ Covers(g, issues')
               /\ \A j \in (ProbedKeys \cap DOMAIN watcher[w].keys) \ {Current(w)} :
                    issues[watcher[w].keys[j]].open => issues'[watcher[w].keys[j]].open
               /\ w = "cron" /\ Current(w) \in DOMAIN g => issues'[g[Current(w)]].open
    PROVE  WatchInv'
  <1> DEFINE l == [watcher[w] EXCEPT !.at = "handle", !.left = Tail(@), !.keys = g]
             k == Current(w)
  <1>1. watcher[w] \in WatchRun /\ watcher \in [Watchers -> WatchRun]
    BY DEF WatchInv, WatchTypeOK
  <1>2. watcher[w].left \in Seq(Keys) /\ Tail(watcher[w].left) \in Seq(Keys) /\ k \in Keys
    BY <1>1 DEF WatchRun, Current
  <1>3. l \in WatchRun
    BY <1>1, <1>2 DEF WatchRun
  <1>4. /\ l.at = "handle" /\ l.left = Tail(watcher[w].left) /\ l.keys = g
        /\ l.probing = watcher[w].probing /\ l.asked = watcher[w].asked
    BY <1>1 DEF WatchRun
  <1>5. watcher' = [watcher EXCEPT ![w] = l]
    BY <1>1 DEF OnWith
  <1>6. Placed(l)
    <2>1. Placed(watcher[w])
      BY RunFacts
    <2> DEFINE s == watcher[w].left
    <2>2. s \in Seq(Keys) /\ s # <<>> /\ l.left = Tail(s)
      BY <1>2, <1>4
    <2> HIDE DEF s
    <2>3. \A n \in DOMAIN Tail(s) : n + 1 \in DOMAIN s /\ Tail(s)[n] = s[n + 1]
      BY <2>2
    <2>4. l.probing => \A n \in DOMAIN s : s[n] \in ProbedKeys
      BY <1>4, <2>1 DEF Placed, s
    <2>5. l.probing => \A n \in DOMAIN l.left : l.left[n] \in ProbedKeys
      BY <2>2, <2>3, <2>4
    <2> QED
      BY <1>4, <2>5 DEF Placed
  <1>7. ASSUME Handled(watcher[w], issues), w = "cron", NoTrouble, watchPast' = watchPast
        PROVE  Handled(l, issues')
    <2> SUFFICES ASSUME NEW j \in ProbedKeys \cap DOMAIN g, \A n \in DOMAIN l.left : l.left[n] # j
                 PROVE  issues'[g[j]].open
      BY <1>4 DEF Handled
    <2>1. CASE j = k
      BY <1>7, <2>1
    <2>2. CASE j # k
      <3>1. j \in DOMAIN watcher[w].keys /\ g[j] = watcher[w].keys[j]
        BY <2>2
      <3>2. \A n \in DOMAIN watcher[w].left : watcher[w].left[n] # j
        <4> DEFINE s == watcher[w].left
        <4>1. s[1] = k
          BY DEF Current
        <4> HIDE DEF s
        <4>2. s \in Seq(Keys) /\ s # <<>>
          BY <1>2 DEF s
        <4>3. l.left = Tail(s)
          BY <1>4 DEF s
        <4>4. ASSUME NEW n \in DOMAIN s, n # 1 PROVE s[n] # j
          <5>1. n - 1 \in DOMAIN Tail(s) /\ Tail(s)[n - 1] = s[n]
            BY <4>2, <4>4
          <5> QED
            BY <4>3, <5>1
        <4>5. \A n \in DOMAIN s : s[n] # j
          BY <2>2, <4>1, <4>4
        <4> QED
          BY <4>5 DEF s
      <3> QED
        BY <1>7, <2>2, <3>1, <3>2 DEF Handled
    <2> QED
      BY <2>1, <2>2
  <1>8. Active(w)
    BY DEF Active
  <1> HIDE DEF l
  <1>9. NoTrouble /\ watchPast' = watchPast =>
               /\ Covers(l.keys, issues') /\ l.at # "replace"
               /\ w = "cron" /\ l.at # "probe" /\ l.asked = ProbedKeys /\ watchPast.closings = watchPast.known
                       => Handled(l, issues')
    BY <1>4, <1>7, RunFacts
  <1> QED
    BY <1>3, <1>4, <1>5, <1>6, <1>8, <1>9, RunStep

\* The run turns to its issue.
LEMMA TurnTo ==
    ASSUME WatchInv, NEW w \in Watchers, Handling(w), NEW at \in {"reopen", "close", "create"},
           Turns(w, at), UNCHANGED <<works, issues, stateFile, stateTmp>>,
           at = "create" <=> Known(w) = 0, at # "create" => watcher[w].probing,
           \/ watchPast' = watchPast
           \/ watchPast' = [watchPast EXCEPT !.faults = @ + 1]
    PROVE  WatchInv'
  <1> DEFINE l == [watcher[w] EXCEPT !.at = at]
  <1>1. watcher[w] \in WatchRun /\ watcher \in [Watchers -> WatchRun]
    BY DEF WatchInv, WatchTypeOK
  <1>2. l \in WatchRun /\ l.at = at /\ l.left = watcher[w].left /\ l.keys = watcher[w].keys
        /\ l.probing = watcher[w].probing /\ l.asked = watcher[w].asked
    BY <1>1 DEF WatchRun
  <1>3. watcher' = [watcher EXCEPT ![w] = l]
    BY <1>1 DEF Turns
  <1> HIDE DEF l
  <1>4. Placed(l) /\ (Handled(watcher[w], issues) => Handled(l, issues))
    BY <1>2, RunFacts DEF Placed, Handled, KnownOf, Handling
  <1>5. Active(w)
    BY DEF Active, Handling
  <1>6. NoTrouble /\ watchPast' = watchPast =>
               /\ Covers(l.keys, issues') /\ l.at # "replace"
               /\ w = "cron" /\ l.at # "probe" /\ l.asked = ProbedKeys /\ watchPast.closings = watchPast.known
                       => Handled(l, issues')
    BY <1>2, <1>4, <1>5, RunFacts DEF Handling
  <1> QED
    BY <1>2, <1>3, <1>4, <1>5, <1>6, RunFacts, RunStep

\* A run that is probing handles probed keys, and no two probed keys share an issue.
LEMMA ProbedApart ==
    ASSUME NEW f \in KeyMaps, Backed(f, issues), Covers(f, issues), issues \in Seq(Issue),
           NEW j \in ProbedKeys \cap DOMAIN f, NEW k \in ProbedKeys, k \in Marked[issues[f[j]].key]
    PROVE  j = k
  <1>1. f[j] # 0
    BY DEF Covers
  <1>2. f[j] \in DOMAIN issues /\ j \in Marked[issues[f[j]].key]
    BY <1>1 DEF Backed
  <1>3. \A i \in DOMAIN issues : issues[i] \in Issue
    OBVIOUS
  <1>4. issues[f[j]].key \in Keys
    BY <1>2, <1>3 DEF Issue
  <1> QED
    BY <1>2, <1>4, MarkedAssumption

\* The run forgets its key, of which no issue is open.
LEMMA ForgetStep ==
    ASSUME WatchInv, NEW w \in Watchers, watcher[w].left # <<>>,
           watcher[w].at \in {"handle", "reopen", "close", "create"},
           Forget(w), UNCHANGED <<works, stateFile, stateTmp>>, Current(w) \in ProbedKeys,
           issues' \in Seq(Issue), DOMAIN issues' = DOMAIN issues,
           \A i \in DOMAIN issues : issues'[i].key = issues[i].key,
           \A i \in DOMAIN issues : i # Known(w) => issues'[i].open = issues[i].open,
           \/ watchPast' = watchPast
           \/ watchPast' = [watchPast EXCEPT !.faults = @ + 1],
           NoTrouble /\ watchPast' = watchPast =>
               \A i \in DOMAIN issues : issues'[i].open => issues[i].open /\ issues[i].key # Current(w)
    PROVE  WatchInv'
  <1> DEFINE f == watcher[w].keys
             k == Current(w)
             g == Lacking(f, k)
  <1>1. f \in KeyMaps /\ Backed(f, issues) /\ (NoTrouble => Covers(f, issues)) /\ issues \in Seq(Issue)
    BY RunFacts DEF Active
  <1>2. k \in Keys /\ k \in ProbedKeys
    BY RunFacts DEF Current
  <1>3. OnWith(w, g)
    BY DEF Forget
  <1>0. Known(w) = IF k \in DOMAIN f THEN f[k] ELSE 0
    BY DEF Known
  <1> HIDE DEF f, k, g
  <1>4. g \in KeyMaps /\ DOMAIN g = DOMAIN f \ {k} /\ \A j \in DOMAIN f : j # k => g[j] = f[j]
    <2>1. f \in KeyMaps /\ k \in Keys /\ g = Lacking(f, k)
      BY <1>1, <1>2 DEF g
    <2> QED
      BY ONLY <2>1, LackingFacts
  <1>5. Backed(g, issues')
    BY <1>1, <1>4 DEF Backed
  <1>6. ASSUME NoTrouble, watchPast' = watchPast PROVE Covers(g, issues')
    <2>1. \A i \in DOMAIN issues' : issues'[i].open => issues'[i].key \in DOMAIN g /\ g[issues'[i].key] = i
      BY <1>1, <1>4, <1>6 DEF Covers, k
    <2>2. \A j \in DOMAIN g : g[j] # 0
      BY <1>1, <1>4, <1>6 DEF Covers
    <2>3. ASSUME NEW j \in ProbedKeys \cap DOMAIN g
          PROVE  issues'[g[j]].key \in DOMAIN g /\ g[issues'[g[j]].key] = g[j]
      <3>1. j \in DOMAIN f /\ j # k /\ g[j] = f[j] /\ f[j] # 0
        BY <1>1, <1>4, <1>6 DEF Covers
      <3>2. f[j] \in DOMAIN issues /\ issues'[f[j]].key = issues[f[j]].key
        BY <1>1, <3>1 DEF Backed
      <3>3. issues[f[j]].key \in Keys
        <4>1. \A i \in DOMAIN issues : issues[i] \in Issue
          BY <1>1
        <4> QED
          BY <3>2, <4>1 DEF Issue
      <3>4. issues[f[j]].key # k
        BY <1>1, <1>2, <1>6, <3>1, <3>3, ProbedApart, MarkedAssumption
      <3> QED
        BY <1>1, <1>4, <1>6, <3>1, <3>2, <3>4 DEF Covers
    <2> QED
      BY <2>1, <2>2, <2>3 DEF Covers
  <1>7. ASSUME NoTrouble, NEW j \in (ProbedKeys \cap DOMAIN f) \ {k}
        PROVE  issues[f[j]].open => issues'[f[j]].open
    <2>1. f[j] # 0
      BY <1>1, <1>7 DEF Covers
    <2>2. f[j] \in DOMAIN issues
      BY <1>1, <2>1 DEF Backed
    <2>3. f[j] # Known(w)
      <3>1. CASE k \in DOMAIN f
        <4>1. f[k] # 0
          BY <1>1, <1>7, <3>1 DEF Covers
        <4>2. k \in Marked[issues[f[k]].key]
          BY <1>1, <3>1, <4>1 DEF Backed
        <4> QED
          BY <1>0, <1>1, <1>2, <1>7, <3>1, <4>2, ProbedApart
      <3> QED
        BY <1>0, <2>1, <3>1
    <2> QED
      BY <2>2, <2>3
  <1>8. \A j \in DOMAIN g : j # Current(w) => j \in DOMAIN watcher[w].keys /\ g[j] = watcher[w].keys[j]
    BY <1>4 DEF f, k
  <1>9. Current(w) \notin DOMAIN g
    BY <1>4 DEF k
  <1>10. NoTrouble /\ watchPast' = watchPast =>
               /\ Covers(g, issues')
               /\ \A j \in (ProbedKeys \cap DOMAIN watcher[w].keys) \ {Current(w)} :
                    issues[watcher[w].keys[j]].open => issues'[watcher[w].keys[j]].open
               /\ w = "cron" /\ Current(w) \in DOMAIN g => issues'[g[Current(w)]].open
    BY <1>6, <1>7, <1>9 DEF f, k
  <1> QED
    BY <1>3, <1>4, <1>5, <1>8, <1>10, Advance

\* The run records the issue num of its key, or none.
LEMMA RememberStep ==
    ASSUME WatchInv, NEW w \in Watchers, watcher[w].left # <<>>,
           watcher[w].at \in {"handle", "reopen", "close", "create"}, NEW num \in Nat,
           Remember(w, num), UNCHANGED <<works, stateFile, stateTmp>>,
           issues' \in Seq(Issue), DOMAIN issues \subseteq DOMAIN issues',
           \A i \in DOMAIN issues : issues'[i].key = issues[i].key,
           \A i \in DOMAIN issues : issues[i].open => issues'[i].open,
           num # 0 => num \in DOMAIN issues' /\ Current(w) \in Marked[issues'[num].key],
           \/ watchPast' = watchPast
           \/ watchPast' = [watchPast EXCEPT !.faults = @ + 1],
           NoTrouble /\ watchPast' = watchPast =>
               /\ num # 0 /\ Known(w) \in {0, num}
               /\ \A i \in DOMAIN issues' : issues'[i].open =>
                    \/ i = num /\ issues'[i].key = Current(w)
                    \/ /\ issues'[i].key # Current(w) /\ issues'[i].key \in DOMAIN watcher[w].keys
                       /\ watcher[w].keys[issues'[i].key] = i
               /\ Current(w) \in ProbedKeys /\ issues'[num].key # Current(w) =>
                    issues'[num].key \in DOMAIN watcher[w].keys /\ watcher[w].keys[issues'[num].key] = num
               /\ w = "cron" => issues'[num].open
    PROVE  WatchInv'
  <1> DEFINE f == watcher[w].keys
             k == Current(w)
             g == With(f, k, num)
  <1>1. f \in KeyMaps /\ Backed(f, issues) /\ (NoTrouble => Covers(f, issues)) /\ issues \in Seq(Issue)
    BY RunFacts DEF Active
  <1>2. k \in Keys
    BY RunFacts DEF Current
  <1>3. OnWith(w, g)
    BY DEF Remember
  <1>0. Known(w) = IF k \in DOMAIN f THEN f[k] ELSE 0
    BY DEF Known
  <1> HIDE DEF f, k, g
  <1>4. g \in KeyMaps /\ DOMAIN g = DOMAIN f \cup {k} /\ g[k] = num
        /\ \A j \in DOMAIN f : j # k => g[j] = f[j]
    <2>1. f \in KeyMaps /\ k \in Keys /\ num \in Nat
      BY <1>1, <1>2
    <2>2. g = With(f, k, num)
      BY DEF g
    <2> QED
      BY ONLY <2>1, <2>2, WithFacts
  <1>5. Backed(g, issues')
    BY <1>1, <1>4 DEF Backed, k
  <1>6. ASSUME NoTrouble, watchPast' = watchPast PROVE Covers(g, issues')
    <2>1. \A i \in DOMAIN issues' : issues'[i].open => issues'[i].key \in DOMAIN g /\ g[issues'[i].key] = i
      BY <1>4, <1>6 DEF f, k
    <2>2. \A j \in DOMAIN g : g[j] # 0
      BY <1>1, <1>4, <1>6 DEF Covers
    <2>3. ASSUME NEW j \in ProbedKeys \cap DOMAIN g
          PROVE  issues'[g[j]].key \in DOMAIN g /\ g[issues'[g[j]].key] = g[j]
      <3>1. CASE j = k
        <4> DEFINE m == issues'[num].key
        <4>1. j = Current(w) /\ g[j] = num /\ Current(w) \in ProbedKeys
          BY <1>4, <2>3, <3>1 DEF k
        <4>2. m # k => m \in DOMAIN f /\ f[m] = num
          BY <1>6, <4>1 DEF f, k
        <4> HIDE DEF m
        <4>3. m \in DOMAIN g /\ g[m] = num
          BY <1>4, <4>2
        <4> QED
          BY <4>1, <4>3 DEF m
      <3>2. CASE j # k
        <4>1. j \in DOMAIN f /\ g[j] = f[j] /\ f[j] # 0
          BY <1>1, <1>4, <1>6, <3>2 DEF Covers
        <4> DEFINE m == issues[f[j]].key
        <4>2. issues'[f[j]].key = m
          BY <1>1, <4>1 DEF Backed
        <4>3. m \in DOMAIN f /\ f[m] = f[j]
          BY <1>1, <1>6, <4>1 DEF Covers
        <4> HIDE DEF m
        <4>4. m = k => f[j] = num
          BY <1>0, <1>6, <4>1, <4>3
        <4>5. m \in DOMAIN g /\ g[m] = f[j]
          BY <1>4, <4>3, <4>4
        <4> QED
          BY <4>1, <4>2, <4>5
      <3> QED
        BY <3>1, <3>2
    <2> QED
      BY <2>1, <2>2, <2>3 DEF Covers
  <1>7. ASSUME NoTrouble, NEW j \in DOMAIN f \ {k} PROVE issues[f[j]].open => issues'[f[j]].open
    BY <1>1, <1>7 DEF Covers, Backed
  <1>8. \A j \in DOMAIN g : j # Current(w) => j \in DOMAIN watcher[w].keys /\ g[j] = watcher[w].keys[j]
    BY <1>4 DEF f, k
  <1>9. g[Current(w)] = num
    BY <1>4 DEF k
  <1>10. NoTrouble /\ watchPast' = watchPast =>
               /\ Covers(g, issues')
               /\ \A j \in (ProbedKeys \cap DOMAIN watcher[w].keys) \ {Current(w)} :
                    issues[watcher[w].keys[j]].open => issues'[watcher[w].keys[j]].open
               /\ w = "cron" /\ Current(w) \in DOMAIN g => issues'[g[Current(w)]].open
    BY <1>6, <1>7, <1>9 DEF f, k
  <1> QED
    BY <1>3, <1>4, <1>5, <1>8, <1>10, Advance

LEMMA MishapCosts ==
    ASSUME WatchInv, Mishap
    PROVE  watchPast' = [watchPast EXCEPT !.faults = @ + 1] /\ watchPast' # watchPast
  <1> DEFINE P == [reports : Nat, changes : Nat, closings : Nat, known : Nat, faults : Nat, overlap : BOOLEAN]
  <1>1. watchPast' = [watchPast EXCEPT !.faults = @ + 1]
    BY DEF Mishap
  <1>2. watchPast \in P
    BY DEF WatchInv, WatchTypeOK
  <1>3. watchPast'.faults = watchPast.faults + 1 /\ watchPast.faults \in Nat
    BY <1>1, <1>2
  <1>4. watchPast' # watchPast
    BY <1>3
  <1> QED
    BY <1>1, <1>4

\* The issue that the run knows, and the open ones.
LEMMA KnownIssue ==
    ASSUME WatchInv, NEW w \in Watchers, watcher[w].left # <<>>
    PROVE  /\ Current(w) \in Keys /\ Known(w) \in Nat
           /\ Healthy(w) \/ watcher[w].probing => Current(w) \in ProbedKeys
           /\ Known(w) # 0 => Known(w) \in DOMAIN issues /\ Current(w) \in Marked[issues[Known(w)].key]
           /\ \A i \in DOMAIN issues : issues[i] \in Issue /\ i # 0
           /\ NoTrouble /\ Active(w) => \A i \in DOMAIN issues : issues[i].open =>
                /\ issues[i].key \in DOMAIN watcher[w].keys /\ watcher[w].keys[issues[i].key] = i
                /\ issues[i].key = Current(w) => i = Known(w)
           /\ NoTrouble /\ Active(w) /\ Known(w) # 0 /\ Current(w) \in ProbedKeys =>
                /\ issues[Known(w)].key \in DOMAIN watcher[w].keys
                /\ watcher[w].keys[issues[Known(w)].key] = Known(w)
  <1> DEFINE f == watcher[w].keys
  <1>1. f \in KeyMaps /\ Backed(f, issues) /\ (NoTrouble /\ Active(w) => Covers(f, issues))
        /\ issues \in Seq(Issue)
    BY RunFacts
  <1>2. Current(w) \in Keys
    BY RunFacts DEF Current
  <1>3. Known(w) = IF Current(w) \in DOMAIN f THEN f[Current(w)] ELSE 0
    BY DEF Known
  <1>4. Healthy(w) \/ watcher[w].probing => Current(w) \in ProbedKeys
    <2>1. watcher[w].ok \in SUBSET ProbedKeys /\ watcher[w].left \in Seq(Keys) /\ Placed(watcher[w])
      BY RunFacts DEF WatchRun
    <2>2. 1 \in DOMAIN watcher[w].left /\ Current(w) = watcher[w].left[1]
      BY <2>1 DEF Current
    <2> QED
      BY <2>1, <2>2 DEF Healthy, Placed
  <1> HIDE DEF f
  <1>5. PICK ks \in SUBSET Keys : f \in [ks -> Nat]
    BY <1>1 DEF KeyMaps
  <1>6. Known(w) \in Nat
    BY <1>3, <1>5
  <1>7. Known(w) # 0 => Known(w) \in DOMAIN issues /\ Current(w) \in Marked[issues[Known(w)].key]
    BY <1>1, <1>3 DEF Backed
  <1>8. \A i \in DOMAIN issues : issues[i] \in Issue /\ i # 0
    BY <1>1
  <1>9. NoTrouble /\ Active(w) => \A i \in DOMAIN issues : issues[i].open =>
                /\ issues[i].key \in DOMAIN f /\ f[issues[i].key] = i
                /\ issues[i].key = Current(w) => i = Known(w)
    BY <1>1, <1>3 DEF Covers
  <1>10. NoTrouble /\ Active(w) /\ Known(w) # 0 /\ Current(w) \in ProbedKeys =>
                issues[Known(w)].key \in DOMAIN f /\ f[issues[Known(w)].key] = Known(w)
    BY <1>1, <1>3 DEF Covers
  <1> QED
    BY <1>2, <1>4, <1>6, <1>7, <1>8, <1>9, <1>10 DEF f

LEMMA DropKeeps ==
    ASSUME WatchInv, NEW w \in Watchers, Drop(w)
    PROVE  WatchInv'
  <1>1. watcher[w].left # <<>> /\ watcher[w].at = "handle" /\ Known(w) = 0 /\ Active(w) /\ Healthy(w)
    BY DEF Drop, Handling, Active
  <1>2. Current(w) \in ProbedKeys
        /\ \A i \in DOMAIN issues : NoTrouble /\ issues[i].open => issues[i].key # Current(w)
    BY <1>1, KnownIssue
  <1>3. issues \in Seq(Issue)
    BY RunFacts
  <1> QED
    BY <1>1, <1>2, <1>3, ForgetStep DEF Drop

LEMMA ViewKeeps ==
    ASSUME WatchInv, NEW w \in Watchers, View(w)
    PROVE  WatchInv'
  <1>1. watcher[w].left # <<>> /\ watcher[w].at = "handle" /\ Known(w) # 0 /\ Active(w) /\ Handling(w)
        /\ watcher[w].probing /\ UNCHANGED <<works, issues, stateFile, stateTmp>>
    BY DEF View, Handling, Active
  <1>2. issues \in Seq(Issue) /\ Current(w) \in ProbedKeys
    BY <1>1, RunFacts, KnownIssue
  <1>3. PICK told \in BOOLEAN :
          /\ IF told THEN UNCHANGED watchPast ELSE Mishap
          /\ LET closed == told /\ ~issues[Known(w)].open
             IN  CASE closed /\ Healthy(w) -> Forget(w)
                   [] closed /\ ~Healthy(w) -> Turns(w, "reopen")
                   [] ~closed /\ Healthy(w) -> Turns(w, "close")
                   [] OTHER -> Remember(w, Known(w))
    BY DEF View
  <1>4. \/ watchPast' = watchPast /\ told
        \/ watchPast' = [watchPast EXCEPT !.faults = @ + 1] /\ watchPast' # watchPast
    BY <1>3, MishapCosts
  <1>5. CASE told /\ ~issues[Known(w)].open /\ Healthy(w)
    <2>1. Forget(w)
      BY <1>3, <1>5
    <2>2. \A i \in DOMAIN issues : NoTrouble /\ issues[i].open => issues[i].key # Current(w)
      BY <1>1, <1>5, KnownIssue
    <2> QED
      BY <1>1, <1>2, <1>4, <2>1, <2>2, ForgetStep
  <1>6. CASE ~(told /\ ~issues[Known(w)].open) /\ ~Healthy(w)
    <2> DEFINE num == Known(w)
    <2>1. Remember(w, num)
      BY <1>3, <1>6
    <2>2. NoTrouble /\ watchPast' = watchPast => issues[num].open
      BY <1>4, <1>6
    <2>3. num # 0 /\ num \in Nat /\ num \in DOMAIN issues /\ Current(w) \in Marked[issues[num].key]
      BY <1>1, KnownIssue
    <2>4. NoTrouble => \A i \in DOMAIN issues : issues[i].open =>
                    \/ i = num /\ issues[i].key = Current(w)
                    \/ /\ issues[i].key # Current(w) /\ issues[i].key \in DOMAIN watcher[w].keys
                       /\ watcher[w].keys[issues[i].key] = i
      BY <1>1, KnownIssue
    <2>5. NoTrouble => issues[num].key \in DOMAIN watcher[w].keys /\ watcher[w].keys[issues[num].key] = num
      BY <1>1, <1>2, KnownIssue
    <2>6. Known(w) = num
      OBVIOUS
    <2> HIDE DEF num
    <2> QED
      BY <1>1, <1>2, <1>4, <2>1, <2>2, <2>3, <2>4, <2>5, <2>6, RememberStep
  <1>7. CASE Turns(w, "reopen") \/ Turns(w, "close")
    <2>1. PICK at \in {"reopen", "close"} : Turns(w, at)
      BY <1>7
    <2> QED
      BY <1>1, <1>4, <2>1, TurnTo
  <1>8. \/ told /\ ~issues[Known(w)].open /\ Healthy(w)
        \/ ~(told /\ ~issues[Known(w)].open) /\ ~Healthy(w)
        \/ Turns(w, "reopen") \/ Turns(w, "close")
    BY <1>3
  <1> QED
    BY <1>5, <1>6, <1>7, <1>8

\* Opening or closing the issue i.
LEMMA IssueTurned ==
    ASSUME issues \in Seq(Issue), NEW i \in DOMAIN issues, NEW b \in BOOLEAN,
           issues' = [issues EXCEPT ![i].open = b]
    PROVE  /\ issues' \in Seq(Issue) /\ DOMAIN issues' = DOMAIN issues
           /\ \A j \in DOMAIN issues : issues'[j].key = issues[j].key
           /\ \A j \in DOMAIN issues \ {i} : issues'[j].open = issues[j].open
           /\ issues'[i].open = b
  <1>1. issues' = [issues EXCEPT ![i] = [issues[i] EXCEPT !.open = b]]
    OBVIOUS
  <1>2. issues[i] \in Issue
    OBVIOUS
  <1> DEFINE x == [issues[i] EXCEPT !.open = b]
  <1>3. x \in Issue /\ x.key = issues[i].key /\ x.open = b
    BY <1>2 DEF Issue
  <1> HIDE DEF x
  <1>4. issues' = [issues EXCEPT ![i] = x]
    BY <1>1 DEF x
  <1> QED
    BY <1>3, <1>4

LEMMA ReopenKeeps ==
    ASSUME WatchInv, NEW w \in Watchers, Reopen(w)
    PROVE  WatchInv'
  <1> DEFINE num == Known(w)
  <1>1. Placed(watcher[w]) /\ Known(w) = KnownOf(watcher[w]) /\ issues \in Seq(Issue)
    BY RunFacts
  <1>2. watcher[w].at = "reopen" /\ watcher[w].left # <<>> /\ num # 0 /\ Active(w) /\ watcher[w].probing
        /\ Remember(w, num) /\ UNCHANGED <<works, stateFile, stateTmp>>
    BY <1>1 DEF Reopen, Placed, Active
  <1>3. num \in Nat /\ num \in DOMAIN issues /\ Current(w) \in Marked[issues[num].key] /\ Current(w) \in ProbedKeys
    BY <1>2, KnownIssue
  <1>4. NoTrouble => \A i \in DOMAIN issues : issues[i].open \/ i = num =>
                    \/ i = num /\ issues[i].key = Current(w)
                    \/ /\ issues[i].key # Current(w) /\ issues[i].key \in DOMAIN watcher[w].keys
                       /\ watcher[w].keys[issues[i].key] = i
    BY <1>2, <1>3, KnownIssue
  <1>5. \/ issues' = [issues EXCEPT ![num].open = TRUE] /\ UNCHANGED watchPast
        \/ Mishap /\ UNCHANGED issues
    BY DEF Reopen
  <1>6. Known(w) = num
    OBVIOUS
  <1> HIDE DEF num
  <1>7. CASE issues' = [issues EXCEPT ![num].open = TRUE] /\ UNCHANGED watchPast
    <2>1. /\ issues' \in Seq(Issue) /\ DOMAIN issues' = DOMAIN issues
          /\ \A j \in DOMAIN issues : issues'[j].key = issues[j].key
          /\ \A j \in DOMAIN issues \ {num} : issues'[j].open = issues[j].open
          /\ issues'[num].open = TRUE
      BY <1>1, <1>3, <1>7, IssueTurned
    <2>2. NoTrouble => \A i \in DOMAIN issues' : issues'[i].open =>
                    \/ i = num /\ issues'[i].key = Current(w)
                    \/ /\ issues'[i].key # Current(w) /\ issues'[i].key \in DOMAIN watcher[w].keys
                       /\ watcher[w].keys[issues'[i].key] = i
      BY <1>4, <2>1
    <2>3. \A i \in DOMAIN issues : issues[i].open => issues'[i].open
      BY <2>1
    <2>4. num \in DOMAIN issues' /\ Current(w) \in Marked[issues'[num].key] /\ issues'[num].open
      BY <1>3, <2>1
    <2>5. NoTrouble /\ issues'[num].key # Current(w) =>
            issues'[num].key \in DOMAIN watcher[w].keys /\ watcher[w].keys[issues'[num].key] = num
      BY <1>3, <1>4, <2>1
    <2>6. watchPast' = watchPast
      BY <1>7
    <2> QED
      BY <1>2, <1>3, <1>6, <2>1, <2>2, <2>3, <2>4, <2>5, <2>6, RememberStep
  <1>8. CASE Mishap /\ UNCHANGED issues
    <2>1. watchPast' = [watchPast EXCEPT !.faults = @ + 1] /\ watchPast' # watchPast /\ issues' = issues
      BY <1>8, MishapCosts
    <2> QED
      BY <1>1, <1>2, <1>3, <2>1, RememberStep
  <1> QED
    BY <1>5, <1>7, <1>8

LEMMA CloseKeeps ==
    ASSUME WatchInv, NEW w \in Watchers, CloseIssue(w)
    PROVE  WatchInv'
  <1>1. Placed(watcher[w]) /\ Known(w) = KnownOf(watcher[w]) /\ issues \in Seq(Issue)
    BY RunFacts
  <1>2. watcher[w].at = "close" /\ watcher[w].left # <<>> /\ Known(w) # 0 /\ Active(w) /\ watcher[w].probing
        /\ Forget(w) /\ UNCHANGED <<works, stateFile, stateTmp>>
    BY <1>1 DEF CloseIssue, Placed, Active
  <1>3. Known(w) \in Nat /\ Known(w) \in DOMAIN issues /\ Current(w) \in ProbedKeys
    BY <1>2, KnownIssue
  <1>4. CASE issues' = [issues EXCEPT ![Known(w)].open = FALSE] /\ UNCHANGED watchPast
    <2>1. /\ issues' \in Seq(Issue) /\ DOMAIN issues' = DOMAIN issues
          /\ \A j \in DOMAIN issues : issues'[j].key = issues[j].key
          /\ \A j \in DOMAIN issues \ {Known(w)} : issues'[j].open = issues[j].open
          /\ issues'[Known(w)].open = FALSE
      BY <1>1, <1>3, <1>4, IssueTurned
    <2>2. NoTrouble => \A i \in DOMAIN issues : issues'[i].open => issues[i].open /\ issues[i].key # Current(w)
      BY <1>2, <2>1, KnownIssue
    <2> QED
      BY <1>2, <1>3, <1>4, <2>1, <2>2, ForgetStep
  <1>5. CASE Mishap /\ UNCHANGED issues
    BY <1>1, <1>2, <1>3, <1>5, MishapCosts, ForgetStep
  <1> QED
    BY <1>4, <1>5 DEF CloseIssue

LEMMA StillKeeps ==
    ASSUME WatchInv, NEW w \in Watchers, Still(w)
    PROVE  WatchInv'
  <1> DEFINE num == Known(w)
  <1>1. watcher[w].left # <<>> /\ watcher[w].at = "handle" /\ num # 0 /\ Active(w) /\ ~watcher[w].probing
        /\ Remember(w, num) /\ UNCHANGED <<works, issues, stateFile, stateTmp, watchPast>>
    BY DEF Still, Handling, Active
  <1>2. w # "cron"
    BY <1>1 DEF WatchInv, RunsHold
  <1>3. issues \in Seq(Issue)
    BY RunFacts
  <1>4. num \in Nat /\ num \in DOMAIN issues /\ Current(w) \in Marked[issues[num].key]
    BY <1>1, KnownIssue
  <1>5. NoTrouble => \A i \in DOMAIN issues : issues[i].open =>
                    \/ i = num /\ issues[i].key = Current(w)
                    \/ /\ issues[i].key # Current(w) /\ issues[i].key \in DOMAIN watcher[w].keys
                       /\ watcher[w].keys[issues[i].key] = i
    BY <1>1, KnownIssue
  <1>6. NoTrouble /\ Current(w) \in ProbedKeys =>
            issues[num].key \in DOMAIN watcher[w].keys /\ watcher[w].keys[issues[num].key] = num
    BY <1>1, KnownIssue
  <1>7. Known(w) = num
    OBVIOUS
  <1> HIDE DEF num
  <1> QED
    BY <1>1, <1>2, <1>3, <1>4, <1>5, <1>6, <1>7, RememberStep

LEMMA FindKeeps ==
    ASSUME WatchInv, NEW w \in Watchers, FindIssue(w)
    PROVE  WatchInv'
  <1> DEFINE found == {i \in DOMAIN issues : issues[i].open /\ Current(w) \in Marked[issues[i].key]}
  <1>1. watcher[w].left # <<>> /\ watcher[w].at = "handle" /\ Known(w) = 0 /\ Active(w) /\ Handling(w)
        /\ UNCHANGED <<works, issues, stateFile, stateTmp>>
    BY DEF FindIssue, Handling, Active
  <1>2. issues \in Seq(Issue)
    BY RunFacts
  <1>3. CASE Turns(w, "create") /\ (UNCHANGED watchPast \/ Mishap)
    BY <1>1, <1>3, MishapCosts, TurnTo
  <1>4. CASE UNCHANGED watchPast /\ \E i \in found : Remember(w, i)
    <2>1. PICK num \in found : Remember(w, num)
      BY <1>4
    <2>2. num \in Nat /\ num # 0 /\ num \in DOMAIN issues /\ issues[num].open /\ Current(w) \in Marked[issues[num].key]
      BY <1>2, <2>1
    <2>3. NoTrouble => \A i \in DOMAIN issues : issues[i].open =>
                    /\ issues[i].key # Current(w) /\ issues[i].key \in DOMAIN watcher[w].keys
                    /\ watcher[w].keys[issues[i].key] = i
      BY <1>1, KnownIssue
    <2> HIDE DEF found
    <2> QED
      BY <1>1, <1>2, <1>4, <2>1, <2>2, <2>3, RememberStep
  <1> QED
    BY <1>3, <1>4 DEF FindIssue

LEMMA CreateKeeps ==
    ASSUME WatchInv, NEW w \in Watchers, CreateIssue(w)
    PROVE  WatchInv'
  <1> DEFINE new == [key |-> Current(w), open |-> TRUE]
             more == Append(issues, new)
  <1>1. Placed(watcher[w]) /\ Known(w) = KnownOf(watcher[w]) /\ issues \in Seq(Issue)
    BY RunFacts
  <1>2. watcher[w].at = "create" /\ watcher[w].left # <<>> /\ Known(w) = 0 /\ Active(w)
        /\ UNCHANGED <<works, stateFile, stateTmp>>
    BY <1>1 DEF CreateIssue, Placed, Active
  <1>3. Current(w) \in Keys
    BY <1>2, KnownIssue
  <1>4. new \in Issue /\ new.key = Current(w) /\ new.open = TRUE
    BY <1>3 DEF Issue
  <1> HIDE DEF new
  <1>5. /\ more \in Seq(Issue) /\ Len(more) \in Nat /\ Len(more) # 0
        /\ DOMAIN more = DOMAIN issues \cup {Len(more)} /\ Len(more) \notin DOMAIN issues
        /\ more[Len(more)] = new /\ \A i \in DOMAIN issues : more[i] = issues[i]
    BY <1>1, <1>4
  <1>6. CASE issues' = more /\ Remember(w, Len(more)) /\ UNCHANGED watchPast
    <2>1. NoTrouble => \A i \in DOMAIN more : more[i].open =>
                    \/ i = Len(more) /\ more[i].key = Current(w)
                    \/ /\ more[i].key # Current(w) /\ more[i].key \in DOMAIN watcher[w].keys
                       /\ watcher[w].keys[more[i].key] = i
      BY <1>2, <1>4, <1>5, KnownIssue
    <2>2. more[Len(more)].key = Current(w) /\ Current(w) \in Marked[Current(w)] /\ more[Len(more)].open
      BY <1>3, <1>4, <1>5, MarkedAssumption
    <2>3. \A i \in DOMAIN issues : more[i].key = issues[i].key /\ (issues[i].open => more[i].open)
      BY <1>5
    <2> DEFINE num == Len(more)
    <2>4. num \in Nat /\ num # 0 /\ num \in DOMAIN more /\ DOMAIN issues \subseteq DOMAIN more /\ Remember(w, num)
      BY <1>5, <1>6
    <2>5. issues' = more /\ watchPast' = watchPast /\ more \in Seq(Issue) /\ more[num].key = Current(w)
      BY <1>5, <1>6, <2>2
    <2>6. NoTrouble => \A i \in DOMAIN more : more[i].open =>
                    \/ i = num /\ more[i].key = Current(w)
                    \/ /\ more[i].key # Current(w) /\ more[i].key \in DOMAIN watcher[w].keys
                       /\ watcher[w].keys[more[i].key] = i
      BY <2>1
    <2> HIDE DEF more, num
    <2> QED
      BY <1>2, <2>2, <2>3, <2>4, <2>5, <2>6, RememberStep DEF num
  <1>7. CASE issues' \in {issues, more} /\ Remember(w, 0) /\ Mishap
    <2> HIDE DEF more
    <2>1. watchPast' = [watchPast EXCEPT !.faults = @ + 1] /\ watchPast' # watchPast
      BY <1>7, MishapCosts
    <2>2. Remember(w, 0) /\ 0 \in Nat
      BY <1>7
    <2>3. CASE issues' = issues
      BY <1>1, <1>2, <2>1, <2>2, <2>3, RememberStep
    <2>4. CASE issues' = more
      BY <1>2, <1>5, <2>1, <2>2, <2>4, RememberStep
    <2> QED
      BY <1>7, <2>3, <2>4
  <1> QED
    BY <1>6, <1>7 DEF CreateIssue, new

LEMMA ProbeKeeps ==
    ASSUME WatchInv, NEW w \in Watchers, Probe(w)
    PROVE  WatchInv'
  <1>1. watcher[w] \in WatchRun /\ watcher \in [Watchers -> WatchRun] /\ issues \in Seq(Issue)
    BY RunFacts DEF WatchInv, WatchTypeOK
  <1>2. watcher[w].at = "probe" /\ Active(w) /\ UNCHANGED <<works, issues, stateFile, stateTmp>>
    BY DEF Probe, Active
  <1>3. PICK l \in WatchRun :
          /\ watcher' = [watcher EXCEPT ![w] = l] /\ l.at = "handle" /\ l.keys = watcher[w].keys
          /\ l.probing = watcher[w].probing /\ \A j \in DOMAIN l.left : l.left[j] \in ProbedKeys
          /\ \/ l.asked = watcher[w].asked
             \/ l.left = Probed
    <2>1. CASE watcher' = [watcher EXCEPT ![w].at = "handle", ![w].left = <<"transport">>]
      <3> DEFINE l == [watcher[w] EXCEPT !.at = "handle", !.left = <<"transport">>]
      <3>1. l \in WatchRun
        BY <1>1, SomeWatchKeys DEF WatchRun
      <3>2. watcher' = [watcher EXCEPT ![w] = l]
        BY <1>1, <2>1
      <3>3. l.at = "handle" /\ l.keys = watcher[w].keys /\ l.probing = watcher[w].probing /\ l.asked = watcher[w].asked
        BY <1>1 DEF WatchRun
      <3>4. \A j \in DOMAIN l.left : l.left[j] \in ProbedKeys
        <4>1. l.left = <<"transport">>
          BY <1>1 DEF WatchRun
        <4> QED
          BY <4>1, SomeWatchKeys
      <3> QED
        BY <3>1, <3>2, <3>3, <3>4
    <2>2. ASSUME NEW ok \in SUBSET ProbedKeys,
                 watcher' = [watcher EXCEPT ![w].at = "handle", ![w].left = Probed, ![w].ok = ok,
                                                ![w].asked = ProbedKeys]
          PROVE \E l \in WatchRun :
                  /\ watcher' = [watcher EXCEPT ![w] = l] /\ l.at = "handle" /\ l.keys = watcher[w].keys
                  /\ l.probing = watcher[w].probing /\ l.left = Probed
                  /\ \A j \in DOMAIN l.left : l.left[j] \in ProbedKeys
      <3> DEFINE l == [watcher[w] EXCEPT !.at = "handle", !.left = Probed, !.ok = ok, !.asked = ProbedKeys]
      <3>1. l \in WatchRun
        BY <1>1, SomeWatchKeys DEF WatchRun
      <3>2. watcher' = [watcher EXCEPT ![w] = l]
        BY <1>1, <2>2
      <3>3. l.at = "handle" /\ l.keys = watcher[w].keys /\ l.probing = watcher[w].probing /\ l.left = Probed
        BY <1>1 DEF WatchRun
      <3>4. \A j \in DOMAIN l.left : l.left[j] \in ProbedKeys
        BY <3>3, SomeWatchKeys
      <3> QED
        BY <3>1, <3>2, <3>3, <3>4
    <2>3. \/ watcher' = [watcher EXCEPT ![w].at = "handle", ![w].left = <<"transport">>]
          \/ \E ok \in SUBSET ProbedKeys :
               watcher' = [watcher EXCEPT ![w].at = "handle", ![w].left = Probed, ![w].ok = ok,
                                                ![w].asked = ProbedKeys]
      BY DEF Probe
    <2> QED
      BY <2>1, <2>2, <2>3
  <1>4. watchPast' = watchPast \/ watchPast' = [watchPast EXCEPT !.faults = @ + 1]
    BY MishapCosts DEF Probe
  <1>5. Backed(l.keys, issues') /\ Placed(l)
    BY <1>2, <1>3, RunFacts DEF Placed
  <1>6. ASSUME NoTrouble, w = "cron", l.asked = ProbedKeys
        PROVE  Handled(l, issues')
    <2>1. CASE l.left = Probed
      <3>1. \A k \in ProbedKeys : \E j \in DOMAIN l.left : l.left[j] = k
        BY <2>1, SomeWatchKeys
      <3> QED
        BY <3>1 DEF Handled
    <2>2. CASE l.asked = watcher[w].asked
      BY <1>2, <1>6, <2>2, RunFacts, SomeWatchKeys DEF Placed
    <2> QED
      BY <1>3, <2>1, <2>2
  <1>7. NoTrouble => Covers(l.keys, issues')
    BY <1>2, <1>3, RunFacts
  <1> QED
    BY <1>1, <1>2, <1>3, <1>4, <1>5, <1>6, <1>7, RunStep

\* A run begins or comes to its end: what the invariant asks of it, and of the files.
LEMMA RunTurns ==
    ASSUME WatchInv, NEW w \in Watchers, NEW l \in WatchRun,
           watcher' = [watcher EXCEPT ![w] = l], issues' = issues, WatchTypeOK',
           Backed(l.keys, issues), Placed(l), l.at \in {"probe", "handle"} => l.probing \/ w # "cron",
           l.at \in {"idle", "probe", "handle", "replace"}, l.at = "replace" => l.probing = watcher[w].probing,
           l.at = "replace" => Active(w),
           watchPast'.known <= watchPast'.closings, FilesHold',
           NoTrouble' =>
               /\ NoTrouble
               /\ \A v \in Watchers \ {w} : ~Active(v)
               /\ Covers(IF l.at = "idle" THEN stateFile' ELSE l.keys, issues)
               /\ l.at = "replace" => stateTmp'.there /\ stateTmp'.keys = l.keys
               /\ w = "cron" /\ l.at \notin {"idle", "probe"} /\ l.asked = ProbedKeys
                    /\ watchPast'.closings = watchPast'.known => Handled(l, issues)
    PROVE  WatchInv'
  <1>1. \A v \in Watchers : watcher'[v] = IF v = w THEN l ELSE watcher[v]
    BY DEF WatchInv, WatchTypeOK
  <1>2. "cron" \in Watchers
    BY WatchAssumption
  <1>3. RunsHold'
    <2>1. ASSUME NEW v \in Watchers PROVE Backed(watcher'[v].keys, issues') /\ Placed(watcher'[v])
      BY <1>1 DEF WatchInv, RunsHold
    <2>2. watcher'["cron"].at # "idle" => watcher'["cron"].probing
      BY <1>1, <1>2 DEF WatchInv, RunsHold, Active
    <2> QED
      BY <2>1, <2>2 DEF RunsHold, Active
  <1>4. ASSUME NoTrouble' PROVE Calm'
    <2>1. \A v \in Watchers : v # w => watcher'[v] = watcher[v] /\ watcher'[v].at = "idle"
      BY <1>1, <1>4 DEF Active
    <2>2. watcher'[w] = l
      BY <1>1
    <2>3. \A v \in Watchers : watcher'[v].at # "idle" => v = w
      BY <2>1
    <2>4. (\A v \in Watchers : watcher'[v].at = "idle") => Covers(stateFile', issues')
      BY <1>4, <2>2
    <2>5. \A v \in Watchers : watcher'[v].at # "idle" => Covers(watcher'[v].keys, issues')
      BY <1>4, <2>2, <2>3
    <2>6. \A v \in Watchers : watcher'[v].at = "replace" => stateTmp'.there /\ stateTmp'.keys = watcher'[v].keys
      BY <1>4, <2>2, <2>3
    <2>7. watcher'["cron"].at \notin {"idle", "probe"} /\ watcher'["cron"].asked = ProbedKeys
            /\ watchPast'.closings = watchPast'.known => Handled(watcher'["cron"], issues')
      BY <1>2, <1>4, <2>2, <2>3
    <2> QED
      BY <2>3, <2>4, <2>5, <2>6, <2>7 DEF Calm, Active
  <1> QED
    BY <1>3, <1>4 DEF WatchInv

LEMMA EmptyMap == Nothing \in KeyMaps /\ \A iss : Backed(Nothing, iss)
  <1>1. Nothing \in [{} -> Nat] /\ DOMAIN Nothing = {}
    BY DEF Nothing
  <1> QED
    BY <1>1 DEF KeyMaps, Backed

LEMMA RestFacts ==
    /\ AtRest \in WatchRun /\ AtRest.at = "idle" /\ AtRest.keys = Nothing /\ Placed(AtRest)
  <1>1. AtRest \in WatchRun
    BY EmptyMap DEF AtRest, WatchRun
  <1>2. AtRest.at = "idle" /\ AtRest.keys = Nothing /\ AtRest.asked = {} /\ AtRest.probing = FALSE
    BY DEF AtRest
  <1> QED
    BY <1>1, <1>2 DEF Placed

LEMMA LoadKeeps ==
    ASSUME WatchInv, NEW w \in Watchers, LoadState(w)
    PROVE  WatchInv'
  <1> DEFINE P == [reports : Nat, changes : Nat, closings : Nat, known : Nat, faults : Nat, overlap : BOOLEAN]
  <1>1. watcher[w].at = "idle" /\ UNCHANGED <<works, issues, stateFile, stateTmp>>
    BY DEF LoadState
  <1>2. watchPast \in P /\ watcher \in [Watchers -> WatchRun] /\ stateFile \in KeyMaps
    BY DEF WatchInv, WatchTypeOK
  <1>3. PICK l \in WatchRun :
          /\ watcher' = [watcher EXCEPT ![w] = l] /\ l.at \in {"probe", "handle"} /\ l.keys = stateFile
          /\ l.asked = {} /\ (w = "cron" => l.probing) /\ (l.probing => l.left = <<>>)
          /\ \/ watchPast' = [watchPast EXCEPT !.overlap = @ \/ Others(w), !.known = watchPast.closings]
             \/ watchPast' = [watchPast EXCEPT !.reports = @ + 1, !.overlap = @ \/ Others(w)]
    <2>1. CASE w = "cron"
      <3> DEFINE l == [AtRest EXCEPT !.at = "probe", !.probing = TRUE, !.keys = stateFile]
      <3>1. l \in WatchRun /\ l.at = "probe" /\ l.keys = stateFile /\ l.asked = {} /\ l.probing /\ l.left = <<>>
        <4>1. AtRest \in WatchRun /\ AtRest.asked = {} /\ AtRest.left = <<>>
          BY RestFacts DEF AtRest
        <4> QED
          BY <1>2, <4>1 DEF WatchRun
      <3>2. watcher' = [watcher EXCEPT ![w] = l]
            /\ watchPast' = [watchPast EXCEPT !.overlap = @ \/ Others(w), !.known = watchPast.closings]
        BY <2>1 DEF LoadState
      <3> HIDE DEF l
      <3> QED
        BY <3>1, <3>2
    <2>2. CASE w # "cron"
      <3>1. PICK k \in ReportKeys :
              watcher' = [watcher EXCEPT ![w] = [AtRest EXCEPT !.at = "handle", !.keys = stateFile, !.left = <<k>>]]
        BY <2>2 DEF LoadState
      <3> DEFINE l == [AtRest EXCEPT !.at = "handle", !.keys = stateFile, !.left = <<k>>]
      <3>2. k \in Keys
        BY SomeWatchKeys
      <3>3. l \in WatchRun /\ l.at = "handle" /\ l.keys = stateFile /\ l.asked = {} /\ ~l.probing
        <4>1. AtRest \in WatchRun /\ AtRest.asked = {} /\ AtRest.probing = FALSE /\ <<k>> \in Seq(Keys)
          BY <3>2, RestFacts DEF AtRest
        <4> QED
          BY <1>2, <4>1 DEF WatchRun
      <3>4. watcher' = [watcher EXCEPT ![w] = l]
            /\ watchPast' = [watchPast EXCEPT !.reports = @ + 1, !.overlap = @ \/ Others(w)]
        BY <2>2, <3>1 DEF LoadState
      <3> HIDE DEF l
      <3> QED
        BY <2>2, <3>3, <3>4
    <2> QED
      BY <2>1, <2>2
  <1>4. watchPast' \in P /\ watchPast'.known <= watchPast'.closings
        /\ watchPast'.faults = watchPast.faults /\ watchPast'.overlap = (watchPast.overlap \/ Others(w))
    <2> DEFINE b == watchPast.overlap \/ Others(w)
    <2>1. b \in BOOLEAN /\ watchPast.known <= watchPast.closings
      BY DEF WatchInv, RunsHold
    <2>2. CASE watchPast' = [watchPast EXCEPT !.overlap = b, !.known = watchPast.closings]
      <3> HIDE DEF b
      <3>1. watchPast' \in P /\ watchPast'.known = watchPast.closings /\ watchPast'.closings = watchPast.closings
            /\ watchPast'.faults = watchPast.faults /\ watchPast'.overlap = b /\ watchPast.closings \in Nat
        BY <1>2, <2>1, <2>2
      <3> QED
        BY <3>1 DEF b
    <2>3. CASE watchPast' = [watchPast EXCEPT !.reports = @ + 1, !.overlap = b]
      <3> DEFINE n == watchPast.reports + 1
      <3>0. n \in Nat /\ watchPast' = [watchPast EXCEPT !.reports = n, !.overlap = b]
        BY <1>2, <2>3
      <3> HIDE DEF b, n
      <3>1. watchPast' \in P /\ watchPast'.known = watchPast.known /\ watchPast'.closings = watchPast.closings
            /\ watchPast'.faults = watchPast.faults /\ watchPast'.overlap = b
        BY <1>2, <2>1, <3>0
      <3> QED
        BY <2>1, <3>1 DEF b
    <2> QED
      BY <1>3, <2>2, <2>3
  <1>5. WatchTypeOK'
    <2>1. watcher' \in [Watchers -> WatchRun]
      BY <1>2, <1>3
    <2> QED
      BY <1>1, <1>4, <2>1 DEF WatchInv, WatchTypeOK
  <1>6. Backed(l.keys, issues) /\ Placed(l) /\ FilesHold'
    BY <1>1, <1>3 DEF WatchInv, FilesHold, Placed
  <1>7. ASSUME NoTrouble'
        PROVE  NoTrouble /\ (\A v \in Watchers \ {w} : ~Active(v)) /\ Covers(l.keys, issues)
    <2>1. NoTrouble /\ ~Others(w)
      BY <1>4, <1>7 DEF NoTrouble
    <2>2. \A v \in Watchers \ {w} : ~Active(v)
      BY <2>1 DEF Others, Active
    <2>3. Covers(stateFile, issues)
      BY <1>1, <2>1, <2>2 DEF WatchInv, Calm, Active
    <2> QED
      BY <1>3, <2>1, <2>2, <2>3
  <1>8. l.asked # ProbedKeys
    BY <1>3, SomeWatchKeys
  <1> QED
    BY <1>1, <1>3, <1>4, <1>5, <1>6, <1>7, <1>8, RunTurns

LEMMA WriteKeeps ==
    ASSUME WatchInv, NEW w \in Watchers, WriteState(w)
    PROVE  WatchInv'
  <1> DEFINE l == [watcher[w] EXCEPT !.at = "replace"]
             tmp == [there |-> TRUE, keys |-> watcher[w].keys]
  <1>1. watcher[w].at = "handle" /\ watcher[w].left = <<>> /\ Active(w)
        /\ UNCHANGED <<works, issues, stateFile, watchPast>> /\ stateTmp' = tmp
        /\ watcher' = [watcher EXCEPT ![w].at = "replace"]
    BY DEF WriteState, Active, Turns
  <1>2. watcher[w] \in WatchRun /\ watcher \in [Watchers -> WatchRun] /\ watcher[w].keys \in KeyMaps
    BY RunFacts DEF WatchInv, WatchTypeOK
  <1>3. l \in WatchRun /\ l.at = "replace" /\ l.keys = watcher[w].keys /\ l.left = <<>>
        /\ l.probing = watcher[w].probing /\ l.asked = watcher[w].asked
    BY <1>1, <1>2 DEF WatchRun
  <1>4. watcher' = [watcher EXCEPT ![w] = l]
    BY <1>1, <1>2
  <1>5. tmp \in [there : BOOLEAN, keys : KeyMaps] /\ tmp.there = TRUE /\ tmp.keys = watcher[w].keys
    BY <1>2
  <1> HIDE DEF l, tmp
  <1>6. WatchTypeOK'
    <2>1. watcher' \in [Watchers -> WatchRun]
      BY <1>2, <1>3, <1>4
    <2> QED
      BY <1>1, <1>5, <2>1 DEF WatchInv, WatchTypeOK
  <1>7. Backed(l.keys, issues) /\ Placed(l) /\ (Handled(watcher[w], issues) => Handled(l, issues))
    BY <1>1, <1>3, RunFacts DEF Placed, Handled
  <1>8. FilesHold' /\ watchPast.known <= watchPast.closings
    BY <1>1, <1>5, RunFacts DEF WatchInv, FilesHold, RunsHold
  <1>9. ASSUME NoTrouble
        PROVE  /\ \A v \in Watchers \ {w} : ~Active(v)
               /\ Covers(l.keys, issues)
               /\ w = "cron" /\ l.asked = ProbedKeys /\ watchPast.closings = watchPast.known => Handled(l, issues)
    <2>1. Calm
      BY <1>9 DEF WatchInv
    <2>2. \A v \in Watchers \ {w} : ~Active(v)
      BY <1>1, <2>1 DEF Calm
    <2> QED
      BY <1>1, <1>3, <1>7, <1>9, <2>2, RunFacts
  <1>10. NoTrouble' <=> NoTrouble
    BY <1>1 DEF NoTrouble
  <1> QED
    BY <1>1, <1>3, <1>4, <1>5, <1>6, <1>7, <1>8, <1>9, <1>10, RunTurns

LEMMA ReplaceKeeps ==
    ASSUME WatchInv, NEW w \in Watchers, ReplaceState(w)
    PROVE  WatchInv'
  <1> DEFINE tmp == [there |-> FALSE, keys |-> Nothing]
  <1>1. watcher[w].at = "replace" /\ Active(w) /\ UNCHANGED <<works, issues, watchPast>>
        /\ stateFile' = (IF stateTmp.there THEN stateTmp.keys ELSE stateFile) /\ stateTmp' = tmp
        /\ watcher' = [watcher EXCEPT ![w] = AtRest]
    BY DEF ReplaceState, Active
  <1>2. stateFile' \in KeyMaps /\ Backed(stateFile', issues)
    BY <1>1 DEF WatchInv, WatchTypeOK, FilesHold
  <1>3. tmp \in [there : BOOLEAN, keys : KeyMaps] /\ tmp.keys = Nothing
    BY EmptyMap
  <1> HIDE DEF tmp
  <1>4. WatchTypeOK'
    <2>1. watcher' \in [Watchers -> WatchRun]
      BY <1>1, RestFacts DEF WatchInv, WatchTypeOK
    <2> QED
      BY <1>1, <1>2, <1>3, <2>1 DEF WatchInv, WatchTypeOK
  <1>5. FilesHold' /\ Backed(AtRest.keys, issues) /\ watchPast.known <= watchPast.closings
    BY <1>1, <1>2, <1>3, EmptyMap, RestFacts DEF FilesHold, WatchInv, RunsHold
  <1>6. NoTrouble' <=> NoTrouble
    BY <1>1 DEF NoTrouble
  <1>7. ASSUME NoTrouble PROVE (\A v \in Watchers \ {w} : ~Active(v)) /\ Covers(stateFile', issues)
    <2>1. Calm /\ Covers(watcher[w].keys, issues)
      BY <1>1, <1>7, RunFacts DEF WatchInv
    <2>2. \A v \in Watchers \ {w} : ~Active(v)
      BY <1>1, <2>1 DEF Calm
    <2>3. stateFile' = watcher[w].keys
      BY <1>1, <2>1 DEF Calm
    <2> QED
      BY <2>1, <2>2, <2>3
  <1> QED
    BY <1>1, <1>4, <1>5, <1>6, <1>7, RestFacts, RunTurns

LEMMA DiesKeeps ==
    ASSUME WatchInv, NEW w \in Watchers, Dies(w)
    PROVE  WatchInv'
  <1>1. watcher' = [watcher EXCEPT ![w] = AtRest] /\ UNCHANGED <<works, issues, stateFile, stateTmp>>
    BY DEF Dies
  <1> DEFINE P == [reports : Nat, changes : Nat, closings : Nat, known : Nat, faults : Nat, overlap : BOOLEAN]
  <1>2. watchPast' = [watchPast EXCEPT !.faults = @ + 1] /\ watchPast \in P /\ watchPast.known <= watchPast.closings
    BY MishapCosts DEF Dies, WatchInv, WatchTypeOK, RunsHold
  <1>3. watchPast' \in P /\ watchPast'.known <= watchPast'.closings /\ watchPast'.faults # 0
    BY <1>2
  <1>4. WatchTypeOK'
    <2>1. watcher' \in [Watchers -> WatchRun]
      BY <1>1, RestFacts DEF WatchInv, WatchTypeOK
    <2> QED
      BY <1>1, <1>3, <2>1 DEF WatchInv, WatchTypeOK
  <1>5. FilesHold' /\ Backed(AtRest.keys, issues)
    BY <1>1, EmptyMap, RestFacts DEF FilesHold, WatchInv
  <1>6. ~NoTrouble'
    BY <1>3 DEF NoTrouble
  <1> QED
    BY <1>1, <1>3, <1>4, <1>5, <1>6, RestFacts, RunTurns

LEMMA WorldKeeps ==
    ASSUME WatchInv,
           \/ \E k \in ProbedKeys : Changes(k)
           \/ \E i \in DOMAIN issues : SomebodyCloses(i)
    PROVE  WatchInv'
  <1> DEFINE P == [reports : Nat, changes : Nat, closings : Nat, known : Nat, faults : Nat, overlap : BOOLEAN]
  <1>1. watchPast \in P /\ issues \in Seq(Issue) /\ works \in [ProbedKeys -> BOOLEAN]
    BY DEF WatchInv, WatchTypeOK
  <1>2. CASE \E k \in ProbedKeys : Changes(k)
    <2>1. PICK k \in ProbedKeys : Changes(k)
      BY <1>2
    <2>2. UNCHANGED <<issues, stateFile, stateTmp, watcher>> /\ works' = [works EXCEPT ![k] = ~works[k]]
          /\ watchPast' = [watchPast EXCEPT !.changes = @ + 1]
      BY <2>1 DEF Changes
    <2>3. works' \in [ProbedKeys -> BOOLEAN]
      BY <1>1, <2>2
    <2>4. watchPast' \in P /\ watchPast'.known = watchPast.known /\ watchPast'.closings = watchPast.closings
          /\ watchPast'.faults = watchPast.faults /\ watchPast'.overlap = watchPast.overlap
      BY <1>1, <2>2
    <2>5. WatchTypeOK'
      BY <2>2, <2>3, <2>4 DEF WatchInv, WatchTypeOK
    <2>6. RunsHold' /\ FilesHold'
      BY <2>2, <2>4 DEF WatchInv, RunsHold, FilesHold, Active
    <2>7. ASSUME NoTrouble' PROVE Calm'
      <3>1. Calm
        BY <2>4, <2>7 DEF NoTrouble, WatchInv
      <3> QED
        BY <2>2, <2>4, <3>1 DEF Calm, Active
    <2> QED
      BY <2>5, <2>6, <2>7 DEF WatchInv
  <1>3. CASE \E i \in DOMAIN issues : SomebodyCloses(i)
    <2>1. PICK i \in DOMAIN issues : SomebodyCloses(i)
      BY <1>3
    <2>2. UNCHANGED <<works, stateFile, stateTmp, watcher>> /\ issues' = [issues EXCEPT ![i].open = FALSE]
          /\ watchPast' = [watchPast EXCEPT !.closings = @ + 1]
      BY <2>1 DEF SomebodyCloses
    <2>3. /\ issues' \in Seq(Issue) /\ DOMAIN issues' = DOMAIN issues
          /\ \A j \in DOMAIN issues : issues'[j].key = issues[j].key
          /\ \A j \in DOMAIN issues \ {i} : issues'[j].open = issues[j].open
          /\ issues'[i].open = FALSE
      BY <1>1, <2>1, <2>2, IssueTurned
    <2>4. watchPast' \in P /\ watchPast'.known = watchPast.known /\ watchPast'.closings = watchPast.closings + 1
          /\ watchPast'.faults = watchPast.faults /\ watchPast'.overlap = watchPast.overlap
          /\ watchPast.known \in Nat /\ watchPast.closings \in Nat
      <3> DEFINE n == watchPast.closings + 1
      <3>1. n \in Nat /\ watchPast' = [watchPast EXCEPT !.closings = n]
            /\ watchPast.known \in Nat /\ watchPast.closings \in Nat
        BY <1>1, <2>2
      <3> HIDE DEF n
      <3>2. watchPast' \in P /\ watchPast'.known = watchPast.known /\ watchPast'.closings = n
            /\ watchPast'.faults = watchPast.faults /\ watchPast'.overlap = watchPast.overlap
        BY <1>1, <3>1
      <3> QED
        BY <3>1, <3>2 DEF n
    <2>5. WatchTypeOK'
      BY <2>2, <2>3, <2>4 DEF WatchInv, WatchTypeOK
    <2>6. \A f : Backed(f, issues) => Backed(f, issues')
      BY <2>3 DEF Backed
    <2>7. \A f : Backed(f, issues) /\ Covers(f, issues) => Covers(f, issues')
      BY <2>3 DEF Covers, Backed
    <2>8. watchPast.known <= watchPast.closings
      BY DEF WatchInv, RunsHold
    <2>9. RunsHold' /\ FilesHold'
      <3>1. watchPast'.known <= watchPast'.closings
        BY <2>4, <2>8
      <3>2. FilesHold'
        BY <2>2, <2>6 DEF WatchInv, FilesHold
      <3>3. \A w \in Watchers : Backed(watcher'[w].keys, issues') /\ Placed(watcher'[w])
        BY <2>2, <2>6 DEF WatchInv, RunsHold
      <3>4. watcher'["cron"].at # "idle" => watcher'["cron"].probing
        BY <2>2 DEF WatchInv, RunsHold, Active
      <3> QED
        BY <3>1, <3>2, <3>3, <3>4 DEF RunsHold, Active
    <2>10. ASSUME NoTrouble' PROVE Calm'
      <3>1. Calm
        BY <2>4, <2>10 DEF NoTrouble, WatchInv
      <3>2. watchPast'.closings # watchPast'.known
        BY <2>4, <2>8
      <3>3. Backed(stateFile, issues) /\ \A w \in Watchers : Backed(watcher[w].keys, issues)
        BY DEF WatchInv, FilesHold, RunsHold
      <3> QED
        BY <2>2, <2>7, <3>1, <3>2, <3>3 DEF Calm, Active
    <2> QED
      BY <2>5, <2>9, <2>10 DEF WatchInv
  <1> QED
    BY <1>2, <1>3

LEMMA WatchInductive ==
    ASSUME WatchInv, [WatchNext]_watchVars
    PROVE  WatchInv'
  <1>1. CASE UNCHANGED watchVars
    <2>1. UNCHANGED <<works, issues, stateFile, stateTmp, watcher, watchPast>>
      BY <1>1 DEF watchVars
    <2>2. WatchTypeOK'
      BY <2>1 DEF WatchInv, WatchTypeOK
    <2>3. RunsHold' /\ FilesHold'
      BY <2>1 DEF WatchInv, RunsHold, FilesHold, Active
    <2>4. NoTrouble' => Calm'
      BY <2>1 DEF WatchInv, NoTrouble, Calm, Active
    <2> QED
      BY <2>2, <2>3, <2>4 DEF WatchInv
  <1>2. ASSUME NEW w \in Watchers, LoadState(w) \/ Goes(w) \/ Dies(w)
        PROVE  WatchInv'
    BY <1>2, LoadKeeps, ProbeKeeps, DropKeeps, ViewKeeps, ReopenKeeps, CloseKeeps, StillKeeps, FindKeeps,
       CreateKeeps, WriteKeeps, ReplaceKeeps, DiesKeeps DEF Goes
  <1> QED
    BY <1>1, <1>2, WorldKeeps DEF WatchNext

LEMMA WatchStarts ==
    ASSUME WatchInit
    PROVE  WatchInv
  <1>1. /\ works \in [ProbedKeys -> BOOLEAN] /\ issues = <<>> /\ stateFile = Nothing
        /\ stateTmp = [there |-> FALSE, keys |-> Nothing] /\ watcher = [w \in Watchers |-> AtRest]
        /\ watchPast = [reports |-> 0, changes |-> 0, closings |-> 0, known |-> 0, faults |-> 0, overlap |-> FALSE]
    BY DEF WatchInit
  <1>2. WatchTypeOK
    BY <1>1, EmptyMap, RestFacts DEF WatchTypeOK
  <1>3. \A w \in Watchers : watcher[w] = AtRest /\ watcher[w].at = "idle"
    BY <1>1, RestFacts
  <1>4. RunsHold
    BY <1>1, <1>3, EmptyMap, RestFacts, WatchAssumption DEF RunsHold, Active
  <1>5. FilesHold
    BY <1>1, EmptyMap DEF FilesHold
  <1>6. Covers(stateFile, issues)
    BY <1>1 DEF Covers, Nothing
  <1>7. Calm
    BY <1>3, <1>6, WatchAssumption DEF Calm, Active
  <1> QED
    BY <1>2, <1>4, <1>5, <1>7 DEF WatchInv

LEMMA WatchImplies ==
    ASSUME WatchInv
    PROVE  IssuesAreAccounted
  <1>1. \A k \in DOMAIN stateFile : stateFile[k] # 0 => k \in Marked[issues[stateFile[k]].key]
    BY DEF WatchInv, FilesHold, Backed
  <1>2. ASSUME NoTrouble
        PROVE  /\ \A k \in Keys : \A i, j \in OpenOf(k) : i = j
               /\ (\A w \in Watchers : watcher[w].at = "idle") =>
                      \A k \in Keys : \A i \in OpenOf(k) : k \in DOMAIN stateFile /\ stateFile[k] = i
               /\ watcher["cron"].at = "replace" /\ watcher["cron"].asked = ProbedKeys
                      /\ watchPast.closings = watchPast.known =>
                    \A k \in ProbedKeys \cap DOMAIN watcher["cron"].keys : issues[watcher["cron"].keys[k]].open
    <2>1. Calm
      BY <1>2 DEF WatchInv
    <2>2. PICK f : Covers(f, issues)
      BY <2>1 DEF Calm
    <2>3. \A k \in Keys : \A i, j \in OpenOf(k) : i = j
      BY <2>2 DEF Covers, OpenOf
    <2>4. (\A w \in Watchers : watcher[w].at = "idle") =>
                      \A k \in Keys : \A i \in OpenOf(k) : k \in DOMAIN stateFile /\ stateFile[k] = i
      BY <2>1 DEF Calm, Covers, OpenOf, Active
    <2>5. watcher["cron"].at = "replace" => watcher["cron"].left = <<>>
      BY WatchAssumption DEF WatchInv, RunsHold, Placed
    <2>6. watcher["cron"].at = "replace" /\ watcher["cron"].asked = ProbedKeys
                      /\ watchPast.closings = watchPast.known =>
                    \A k \in ProbedKeys \cap DOMAIN watcher["cron"].keys : issues[watcher["cron"].keys[k]].open
      BY <2>1, <2>5 DEF Calm, Handled
    <2> QED
      BY <2>3, <2>4, <2>6
  <1> QED
    BY <1>1, <1>2 DEF IssuesAreAccounted

\* Whatever fails, dies or overlaps, the state file has for a capability an issue whose text
\* holds its marker; and lacking those no capability has two open issues of its own, every
\* open one is answered for between two runs, and a probe leaves none closed that it still
\* records (cmd_probe, cmd_report, _resolve_if_fixed, _find_open_issue, _open_issue).
THEOREM IssuesStayAccounted == WatchSpec => []IssuesAreAccounted
  <1>1. WatchInit => WatchInv
    BY WatchStarts
  <1>2. WatchInv /\ [WatchNext]_watchVars => WatchInv'
    BY WatchInductive
  <1>3. WatchInv => IssuesAreAccounted
    BY WatchImplies
  <1> QED
    BY <1>1, <1>2, <1>3, PTL DEF WatchSpec

-----------------------------------------------------------------------------
(* HubAutomation: the inductive invariant.                                 *)

HubCallShape ==
    /\ hubWorld \in World
    /\ hubCall = [at |-> hubCall.at, op |-> hubCall.op, way |-> hubCall.way, valid |-> hubCall.valid,
                  snap |-> hubCall.snap, reply |-> hubCall.reply, ran |-> hubCall.ran, fresh |-> hubCall.fresh,
                  sound |-> hubCall.sound, seen |-> hubCall.seen]
    /\ hubCall.at \in {"idle", "gate", "check", "run", "confine", "adapt"}
    /\ hubCall.way \in {"dispatch", "start", "status"}
    /\ {hubCall.fresh, hubCall.ran, hubCall.sound, hubCall.snap.enabled} \subseteq BOOLEAN
    /\ hubCall.at = "confine" => hubCall.reply \in HubReply

HubRules ==
    /\ hubCall.way = "status" => hubCall.op = "status"
    /\ hubCall.at \in {"check", "run", "confine", "adapt"} => hubCall.snap.enabled
    /\ hubCall.at \in {"run", "confine", "adapt"} => hubCall.op \in Dispatchable /\ hubCall.fresh
    /\ hubCall.at \in {"confine", "adapt"} => hubCall.ran
    /\ hubCall.at = "adapt" =>
        /\ hubCall.way # "status" /\ hubCall.reply \in HubReply
        /\ hubCall.seen = RedactedStatus(hubCall.reply, hubCall.sound)
        /\ hubCall.sound => hubCall.reply.kind = "object" /\ hubCall.reply.path
        /\ hubCall.sound \/ ~MustConfine(hubCall.op, hubCall.reply)

HubInv == HubCallShape /\ HubRules /\ HubFailsClosed

\* The call that is answered is over.
LEMMA HubAnswered ==
    ASSUME HubInv, UNCHANGED hubWorld, NEW outcome, NEW status, NEW path, Answer(outcome, status, path)
    PROVE  /\ HubCallShape' /\ HubRules'
           /\ hubCall'.at = "idle" /\ hubAnswer'.outcome = outcome /\ hubAnswer'.status = status
           /\ hubAnswer'.path = path /\ hubAnswer'.call = hubCall
  BY DEF Answer, NoCall, HubInv, HubCallShape, HubRules

\* What is told of a call that was refused, or that nothing came of, promises nothing.
LEMMA HubBlocked ==
    ASSUME HubInv, UNCHANGED hubWorld, NEW status, Block(status)
    PROVE  HubInv'
  <1>1. /\ HubCallShape' /\ HubRules' /\ hubCall'.at = "idle" /\ hubAnswer'.outcome = "blocked"
    BY HubAnswered DEF Block
  <1> QED
    BY <1>1 DEF HubInv, HubFailsClosed

\* A step of the call that tells nobody anything yet.
LEMMA HubGoesOn ==
    ASSUME HubInv, UNCHANGED hubAnswer, HubCallShape', HubRules'
    PROVE  HubInv'
  BY DEF HubInv, HubFailsClosed, HubRules

LEMMA HubAsked ==
    ASSUME HubInv, Ask
    PROVE  HubInv'
  <1>1. PICK op \in HubOps, way \in {"dispatch", "start", "status"}, valid \in BOOLEAN :
            /\ way = "status" => op = "status"
            /\ LET c == [NoCall EXCEPT !.at = "gate", !.op = op, !.way = way, !.valid = valid,
                                       !.snap = [enabled |-> hubWorld.enabled, path |-> hubWorld.path]]
               IN  IF way = "dispatch" /\ op \notin Dispatchable THEN Block("not_implemented")
                   ELSE hubCall' = c /\ UNCHANGED hubAnswer
    BY DEF Ask
  <1>2. UNCHANGED hubWorld
    BY DEF Ask
  <1>3. CASE Block("not_implemented")
    BY <1>2, <1>3, HubBlocked
  <1>4. CASE ~Block("not_implemented")
    <2> DEFINE snap == [enabled |-> hubWorld.enabled, path |-> hubWorld.path]
    <2>1. hubCall' = [NoCall EXCEPT !.at = "gate", !.op = op, !.way = way, !.valid = valid, !.snap = snap]
          /\ UNCHANGED hubAnswer
      BY <1>1, <1>4
    <2>2. snap.enabled \in BOOLEAN
      BY DEF HubInv, HubCallShape, World
    <2> HIDE DEF snap
    <2>3. HubCallShape'
      BY <1>2, <2>1, <2>2 DEF NoCall, HubCallShape, HubInv
    <2>4. HubRules'
      BY <1>1, <2>1 DEF NoCall, HubRules
    <2> QED
      BY <2>1, <2>3, <2>4, HubGoesOn
  <1> QED
    BY <1>3, <1>4

LEMMA HubGates ==
    ASSUME HubInv, Gate
    PROVE  HubInv'
  <1>1. UNCHANGED hubWorld
    BY DEF Gate
  <1>2. CASE Block("not_implemented")
    BY <1>1, <1>2, HubBlocked
  <1>3. CASE GateReady(hubCall) /\ hubCall' = [hubCall EXCEPT !.at = "check"] /\ UNCHANGED hubAnswer
    <2>1. HubCallShape'
      BY <1>1, <1>3 DEF HubInv, HubCallShape
    <2>2. HubRules'
      BY <1>3 DEF GateReady, HubInv, HubCallShape, HubRules
    <2> QED
      BY <1>3, <2>1, <2>2, HubGoesOn
  <1> QED
    BY <1>2, <1>3 DEF Gate

LEMMA HubChecks ==
    ASSUME HubInv, Check
    PROVE  HubInv'
  <1>1. UNCHANGED hubWorld /\ hubCall.at = "check"
    BY DEF Check
  <1>2. CASE Block("not_implemented")
    BY <1>1, <1>2, HubBlocked
  <1>3. CASE PassesCheck(hubCall) /\ hubCall' = [hubCall EXCEPT !.at = "run", !.fresh = DigestMatches]
             /\ UNCHANGED hubAnswer
    <2>1. hubCall' = [hubCall EXCEPT !.at = "run", !.fresh = TRUE] /\ hubCall.op \in Dispatchable
      BY <1>3 DEF PassesCheck, DigestMatches
    <2>2. HubCallShape'
      BY <1>1, <2>1 DEF HubInv, HubCallShape
    <2>3. HubRules'
      BY <1>1, <2>1 DEF HubInv, HubCallShape, HubRules
    <2> QED
      BY <1>3, <2>2, <2>3, HubGoesOn
  <1> QED
    BY <1>2, <1>3 DEF Check

LEMMA HubRuns ==
    ASSUME HubInv, RunHub
    PROVE  HubInv'
  <1>1. PICK reply \in HubReplies : hubCall' = [hubCall EXCEPT !.at = "confine", !.reply = reply, !.ran = TRUE]
    BY DEF RunHub
  <1>2. UNCHANGED <<hubWorld, hubAnswer>> /\ hubCall.at = "run" /\ reply \in HubReply
    BY HubAssumption DEF RunHub
  <1>3. HubCallShape'
    BY <1>1, <1>2 DEF HubInv, HubCallShape
  <1>4. HubRules'
    BY <1>1, <1>2 DEF HubInv, HubCallShape, HubRules
  <1> QED
    BY <1>2, <1>3, <1>4, HubGoesOn

LEMMA HubConfines ==
    ASSUME HubInv, Confine
    PROVE  HubInv'
  <1> DEFINE must == MustConfine(hubCall.op, hubCall.reply)
             sound == must /\ Confined(hubCall.reply)
             seen == RedactedStatus(hubCall.reply, sound)
  <1>1. UNCHANGED hubWorld /\ hubCall.at = "confine" /\ hubCall.way # "status"
    BY DEF Confine
  <1>2. CASE Block("not_implemented")
    BY <1>1, <1>2, HubBlocked
  <1>3. CASE ~Block("not_implemented")
    <2>1. (sound \/ ~must) /\ hubCall' = [hubCall EXCEPT !.at = "adapt", !.sound = sound, !.seen = seen]
          /\ UNCHANGED hubAnswer
      BY <1>3 DEF Confine
    <2>2. sound \in BOOLEAN /\ (sound => hubCall.reply.kind = "object" /\ hubCall.reply.path)
      BY DEF Confined
    <2>3. PICK b, st : b = sound /\ st = seen
      OBVIOUS
    <2>4. st = RedactedStatus(hubCall.reply, b)
      BY <2>3
    <2>5. (b \/ ~must) /\ hubCall' = [hubCall EXCEPT !.at = "adapt", !.sound = b, !.seen = st]
          /\ b \in BOOLEAN /\ (b => hubCall.reply.kind = "object" /\ hubCall.reply.path)
      BY <2>1, <2>2, <2>3
    <2> HIDE DEF must, sound, seen
    <2>6. HubCallShape'
      BY <1>1, <2>5 DEF HubInv, HubCallShape
    <2>7. /\ hubCall'.at = "adapt" /\ hubCall'.sound = b /\ hubCall'.seen = st /\ hubCall'.reply = hubCall.reply
          /\ hubCall'.op = hubCall.op /\ hubCall'.way = hubCall.way /\ hubCall'.snap = hubCall.snap
          /\ hubCall'.fresh = hubCall.fresh /\ hubCall'.ran = hubCall.ran /\ hubCall.reply \in HubReply
      BY <1>1, <2>5 DEF HubInv, HubCallShape
    <2>8. MustConfine(hubCall.op, hubCall.reply)' = must
      BY <2>7 DEF MustConfine, must
    <2>9. RedactedStatus(hubCall.reply, hubCall.sound)' = RedactedStatus(hubCall.reply, b)
      BY <2>7 DEF RedactedStatus
    <2>10. HubRules'
      BY <1>1, <2>4, <2>5, <2>7, <2>8, <2>9 DEF HubInv, HubRules
    <2> QED
      BY <2>1, <2>6, <2>10, HubGoesOn
  <1> QED
    BY <1>2, <1>3

\* What is told of a call.
Told(outcome, path, c) ==
    /\ outcome \in {"ok", "running"} => c.ran /\ c.reply.kind = "object"
    /\ outcome = "ok" =>
        \/ c.reply.status = "ok" \/ (c.way = "status" /\ c.reply.status = "done")
        \/ c.reply.status = "none" /\ ~c.reply.error /\ (c.reply.complete \/ c.sound)
    /\ outcome = "ok" /\ c.op \in NeedsDirectory => c.sound \/ (c.op = "video" /\ c.reply.status = "none")
    /\ outcome = "ok" /\ path => c.reply.path

LEMMA HubTells ==
    ASSUME HubInv, UNCHANGED hubWorld, NEW outcome, outcome # "health", NEW status, NEW path,
           Answer(outcome, status, path), Told(outcome, path, hubCall)
    PROVE  HubInv'
  <1>1. /\ HubCallShape' /\ HubRules'
        /\ hubCall'.at = "idle" /\ hubAnswer'.outcome = outcome
        /\ hubAnswer'.path = path /\ hubAnswer'.call = hubCall
    BY HubAnswered
  <1>2. HubFailsClosed'
    BY <1>1 DEF HubFailsClosed, Told
  <1> QED
    BY <1>1, <1>2 DEF HubInv

\* The redaction says ok, and running, only of a reply that does.
LEMMA RedactionIsHonest ==
    ASSUME NEW reply \in HubReply, NEW sound \in BOOLEAN
    PROVE  /\ RedactedStatus(reply, sound) \in {"ok", "running"} => reply.kind = "object"
           /\ RedactedStatus(reply, sound) = "ok" =>
                \/ reply.status = "ok"
                \/ reply.status = "none" /\ ~reply.error /\ (reply.complete \/ sound)
  <1>1. /\ reply.kind \in {"object", "other", "failed"} /\ reply.error \in BOOLEAN /\ reply.complete \in BOOLEAN
    BY DEF HubReply
  <1>2. CASE reply.kind # "object"
    <2>1. RedactedStatus(reply, sound) = "error"
      BY <1>2 DEF RedactedStatus
    <2> QED
      BY <2>1
  <1>3. CASE reply.kind = "object" /\ reply.status # "none"
    <2>1. RedactedStatus(reply, sound) = reply.status
      BY <1>3 DEF RedactedStatus
    <2> QED
      BY <1>3, <2>1
  <1>4. CASE reply.kind = "object" /\ reply.status = "none" /\ ~reply.error /\ (reply.complete \/ sound)
    BY <1>4
  <1>5. CASE reply.kind = "object" /\ reply.status = "none" /\ ~(~reply.error /\ (reply.complete \/ sound))
    <2>1. RedactedStatus(reply, sound) = "error"
      BY <1>5 DEF RedactedStatus
    <2> QED
      BY <2>1
  <1> QED
    BY <1>1, <1>2, <1>3, <1>4, <1>5

LEMMA HubAdapts ==
    ASSUME HubInv, Adapt
    PROVE  HubInv'
  <1>1. UNCHANGED hubWorld /\ hubCall.at = "adapt" /\ hubCall.way = "dispatch"
    BY DEF Adapt
  <1>2. CASE Block(hubCall.seen)
    BY <1>1, <1>2, HubBlocked
  <1>3. CASE hubCall.seen = "ok" /\ Answer("ok", "ok", hubCall.sound /\ hubFile \in {"inside", "big"})
    <2> DEFINE path == hubCall.sound /\ hubFile \in {"inside", "big"}
    <2>1. /\ hubCall.ran /\ hubCall.reply \in HubReply /\ hubCall.sound \in BOOLEAN
          /\ RedactedStatus(hubCall.reply, hubCall.sound) = "ok"
          /\ hubCall.sound => hubCall.reply.path
          /\ hubCall.sound \/ ~MustConfine(hubCall.op, hubCall.reply)
      BY <1>1, <1>3 DEF HubInv, HubRules, HubCallShape
    <2>2. /\ hubCall.reply.kind = "object"
          /\ \/ hubCall.reply.status = "ok"
             \/ hubCall.reply.status = "none" /\ ~hubCall.reply.error /\ (hubCall.reply.complete \/ hubCall.sound)
      BY <2>1, RedactionIsHonest
    <2>3. hubCall.op \in NeedsDirectory => hubCall.sound \/ (hubCall.op = "video" /\ hubCall.reply.status = "none")
      BY <2>1, <2>2 DEF MustConfine, NeedsDirectory
    <2>4. Told("ok", path, hubCall)
      BY <2>1, <2>2, <2>3 DEF Told
    <2> HIDE DEF path
    <2>5. Answer("ok", "ok", path)
      BY <1>3 DEF path
    <2> QED
      BY <1>1, <2>4, <2>5, HubTells
  <1> QED
    BY <1>2, <1>3 DEF Adapt

LEMMA HubStarts ==
    ASSUME HubInv, Started
    PROVE  HubInv'
  <1>1. UNCHANGED hubWorld /\ hubCall.at = "adapt"
    BY DEF Started
  <1>2. CASE Block(hubCall.seen)
    BY <1>1, <1>2, HubBlocked
  <1>3. CASE hubCall.seen = "running" /\ Answer("running", "running", FALSE)
    <2>1. /\ hubCall.ran /\ hubCall.reply \in HubReply /\ hubCall.sound \in BOOLEAN
          /\ RedactedStatus(hubCall.reply, hubCall.sound) = "running"
      BY <1>1, <1>3 DEF HubInv, HubRules, HubCallShape
    <2>2. Told("running", FALSE, hubCall)
      BY <2>1, RedactionIsHonest DEF Told
    <2> QED
      BY <1>1, <1>3, <2>2, HubTells
  <1> QED
    BY <1>2, <1>3 DEF Started

LEMMA HubPolled ==
    ASSUME HubInv, Polled
    PROVE  HubInv'
  <1>1. UNCHANGED hubWorld /\ hubCall.at = "confine" /\ hubCall.way = "status"
    BY DEF Polled
  <1>2. hubCall.ran /\ hubCall.reply \in HubReply /\ hubCall.op = "status"
    BY <1>1 DEF HubInv, HubRules, HubCallShape
  <1>3. CASE hubCall.reply.kind # "object"
    <2>1. PICK status : Block(status)
      BY <1>3 DEF Polled
    <2> QED
      BY <1>1, <2>1, HubBlocked
  <1>4. CASE hubCall.reply.kind = "object" /\ hubCall.reply.status = "done"
    <2>1. CASE Block("not_implemented")
      BY <1>1, <2>1, HubBlocked
    <2>2. CASE Confined(hubCall.reply) /\ Answer("ok", "ok", TRUE)
      <3>1. Told("ok", TRUE, hubCall)
        BY <1>1, <1>2, <1>4, <2>2 DEF Told, Confined, NeedsDirectory
      <3> QED
        BY <1>1, <2>2, <3>1, HubTells
    <2> QED
      BY <1>4, <2>1, <2>2 DEF Polled
  <1>5. CASE hubCall.reply.kind = "object" /\ hubCall.reply.status \in {"running", "queued"}
    <2>1. Answer("running", hubCall.reply.status, FALSE)
      BY <1>5 DEF Polled
    <2>2. Told("running", FALSE, hubCall)
      BY <1>2, <1>5 DEF Told
    <2> QED
      BY <1>1, <2>1, <2>2, HubTells
  <1>6. CASE hubCall.reply.kind = "object" /\ hubCall.reply.status \notin {"done", "running", "queued"}
    <2>1. PICK status : Block(status)
      BY <1>6 DEF Polled
    <2> QED
      BY <1>1, <2>1, HubBlocked
  <1> QED
    BY <1>3, <1>4, <1>5, <1>6

LEMMA HubIsChecked ==
    ASSUME HubInv, HealthCheck
    PROVE  HubInv'
  <1>1. PICK item \in Capabilities, live \in BOOLEAN, reply \in HubReplies :
            LET status == CASE ~live -> "available"
                            [] live /\ item = "chatgpt_web" -> WebHealth(reply)
                            [] live /\ item = "cli" -> CliHealth(reply)
                            [] OTHER -> "not_implemented"
            IN  hubAnswer' = [outcome |-> "health", status |-> status, path |-> live,
                              call |-> [NoCall EXCEPT !.reply = reply]]
    BY DEF HealthCheck
  <1> DEFINE status == CASE ~live -> "available"
                         [] live /\ item = "chatgpt_web" -> WebHealth(reply)
                         [] live /\ item = "cli" -> CliHealth(reply)
                         [] OTHER -> "not_implemented"
  <1>2. reply \in HubReply
    BY HubAssumption
  <1>3. status = "healthy" => live /\ reply.kind = "object"
    <2>1. CASE ~live
      BY <2>1
    <2>2. CASE live /\ item = "chatgpt_web"
      <3>1. status = WebHealth(reply)
        BY <2>2
      <3>2. reply.kind # "object" => WebHealth(reply) # "healthy"
        BY DEF WebHealth
      <3> QED
        BY <2>2, <3>1, <3>2
    <2>3. CASE live /\ item = "cli"
      <3>1. status = CliHealth(reply)
        BY <2>3
      <3>2. reply.kind # "object" => CliHealth(reply) # "healthy"
        BY DEF CliHealth
      <3> QED
        BY <2>3, <3>1, <3>2
    <2>4. CASE live /\ item \notin {"chatgpt_web", "cli"}
      <3>1. status = "not_implemented"
        BY <2>4
      <3> QED
        BY <3>1
    <2> QED
      BY <2>1, <2>2, <2>3, <2>4
  <1>4. hubAnswer' = [outcome |-> "health", status |-> status, path |-> live,
                      call |-> [NoCall EXCEPT !.reply = reply]]
    BY <1>1
  <1> HIDE DEF status
  <1>5. /\ hubAnswer'.outcome = "health" /\ hubAnswer'.status = status /\ hubAnswer'.path = live
        /\ hubAnswer'.call.reply = reply
    BY <1>4 DEF NoCall
  <1>6. UNCHANGED <<hubWorld, hubCall>> /\ hubCall.at = "idle"
    BY DEF HealthCheck
  <1>7. HubCallShape' /\ HubRules'
    BY <1>6 DEF HubInv, HubCallShape, HubRules
  <1>8. HubFailsClosed'
    BY <1>3, <1>5, <1>6 DEF HubFailsClosed
  <1> QED
    BY <1>7, <1>8 DEF HubInv

LEMMA HubTurns ==
    ASSUME HubInv, Turn \/ UNCHANGED hubVars
    PROVE  HubInv'
  <1>1. UNCHANGED <<hubCall, hubAnswer>> /\ hubWorld' \in World
    BY HubAssumption DEF Turn, hubVars, HubInv, HubCallShape
  <1>2. HubCallShape' /\ HubRules'
    BY <1>1 DEF HubInv, HubCallShape, HubRules, RedactedStatus, MustConfine
  <1> QED
    BY <1>1, <1>2, HubGoesOn

\* Whatever changes between the steps of a call: the hub is run only for an operation of
\* the closed set, with the opt-in, of the build that was pinned when it was checked last;
\* and a call is told to have succeeded only by a run whose reply said so, with its
\* artifact where it belongs (web_ai_hub_automation.py, hub_adapter.py).
THEOREM HubStaysClosed == HubSpec => []HubFailsClosed
  <1>1. HubInit => HubInv
    <2> SUFFICES ASSUME HubInit PROVE HubInv
      OBVIOUS
    <2>1. hubWorld \in World /\ hubCall = NoCall /\ hubAnswer = Blank
      BY HubAssumption DEF HubInit
    <2>2. HubCallShape
      BY <2>1 DEF HubCallShape, NoCall
    <2>3. HubRules
      BY <2>1 DEF HubRules, NoCall
    <2>4. hubCall.at = "idle" /\ hubAnswer.outcome = "none"
      BY <2>1 DEF NoCall, Blank
    <2>5. HubFailsClosed
      BY <2>4 DEF HubFailsClosed
    <2> QED
      BY <2>2, <2>3, <2>5 DEF HubInv
  <1>2. HubInv /\ [HubNext]_hubVars => HubInv'
    BY HubAsked, HubGates, HubChecks, HubRuns, HubConfines, HubAdapts, HubStarts, HubPolled, HubIsChecked, HubTurns
       DEF HubNext
  <1>3. HubInv => HubFailsClosed
    BY DEF HubInv
  <1> QED
    BY <1>1, <1>2, <1>3, PTL DEF HubSpec

-----------------------------------------------------------------------------
(* StatusObserver: types and the inductive invariant.                      *)

Health == {"ok", "fail", "unknown"}
ObsTypeOK ==
    /\ accounts \in [text : Texts, stat : Nat]
    /\ looking \in [at : {"idle", "next", "before", "read", "after"}, next : Nat, attempt : Nat, stat : Nat,
                    text : Texts, health : Health]
    /\ looking.next \in DOMAIN Asked \cup {1}
    /\ shown = [c \in DOMAIN shown |-> shown[c]]
    /\ obsPast \in [last : [seen : SUBSET Texts, span : SUBSET Texts, refused : BOOLEAN, raised : SUBSET Clis,
                            answered : SUBSET Clis],
                    changes : Nat, observed : Nat, errors : Nat]

AtFile == looking.at \in {"before", "read", "after"}

\* What is shown is of the capabilities before the one that is looked at.
ShownHolds ==
    /\ looking.at # "idle" => looking.next \in DOMAIN Asked /\ DOMAIN shown = {Asked[j] : j \in 1..looking.next - 1}
    /\ AtFile => Subject = "gemini"
    /\ obsPast.last.answered \subseteq DOMAIN shown \cup (IF AtFile THEN {"gemini"} ELSE {})
    /\ AtFile => looking.health \in {"ok", "fail"} /\ (looking.health = "ok" <=> "gemini" \in obsPast.last.answered)

\* What the file was while it is looked at.
FileHolds ==
    /\ accounts.stat >= looking.stat
    /\ AtFile => accounts.text \in obsPast.last.seen
    /\ looking.at \in {"read", "after"} =>
        /\ \A x \in Texts : obsPast.last.seen = {x} => accounts.stat = looking.stat
        /\ accounts.stat = looking.stat => obsPast.last.span = {accounts.text} /\ accounts.text # "absent"
    /\ looking.at = "after" =>
        /\ looking.text \notin {"absent", "binary"} /\ looking.text \in obsPast.last.seen
        /\ accounts.stat = looking.stat => looking.text = accounts.text

ObsInv == ObsTypeOK /\ ShownHolds /\ FileHolds /\ StatusIsSettled

PastShape == [last : [seen : SUBSET Texts, span : SUBSET Texts, refused : BOOLEAN, raised : SUBSET Clis,
                      answered : SUBSET Clis],
              changes : Nat, observed : Nat, errors : Nat]

\* The two halves of StatusIsSettled, of a record and of a history.
LoginSettled(r, past) ==
    /\ r.login = "logged_in" => past.span = {"active"}
    /\ r.login = "logged_out" => past.span \in {{"absent"}, {"empty"}, {"inactive"}}
    /\ "gemini" \notin past.raised /\ ~past.refused =>
         /\ past.seen = {"active"} => r.login = "logged_in"
         /\ past.seen \in {{"absent"}, {"empty"}, {"inactive"}} => r.login = "logged_out"
    /\ r.snapshot = "ok" <=> r.login # "unknown"
HealthSettled == \A c \in DOMAIN shown \cap Clis : shown[c].health = "ok" <=> c \in obsPast.last.answered

LEMMA SettledParts ==
    StatusIsSettled <=> /\ "gemini" \in DOMAIN shown => LoginSettled(shown["gemini"], obsPast.last)
                        /\ HealthSettled
BY DEF StatusIsSettled, LoginSettled, HealthSettled

LEMMA NextSettledParts ==
    StatusIsSettled' <=> /\ "gemini" \in DOMAIN shown' => LoginSettled(shown'["gemini"], obsPast'.last)
                         /\ HealthSettled'
BY DEF StatusIsSettled, LoginSettled, HealthSettled

\* While the file is looked at, its account is not shown yet.
LEMMA FileIsNotShown ==
    ASSUME ObsInv, AtFile
    PROVE  "gemini" \notin DOMAIN shown /\ Subject = "gemini" /\ looking.next \in DOMAIN Asked
<1>1. looking.at # "idle" /\ Subject = "gemini" BY DEF ObsInv, ShownHolds, AtFile
<1>2. looking.next \in DOMAIN Asked /\ DOMAIN shown = {Asked[j] : j \in 1..looking.next - 1}
  BY <1>1 DEF ObsInv, ShownHolds
<1>3. SUFFICES ASSUME NEW j \in 1..looking.next - 1, Asked[j] = "gemini" PROVE FALSE
  BY <1>1, <1>2
<1>4. j \in DOMAIN Asked /\ j # looking.next
  BY <1>2, ObserverAssumption
<1> QED BY <1>1, <1>2, <1>3, <1>4, ObserverAssumption DEF Subject

\* The shown record is the new one, and the look moves on to what is asked next.
LEMMA ShowKeeps ==
    ASSUME ObsInv, looking.at # "idle", NEW record, Show(record), UNCHANGED accounts,
           obsPast' \in PastShape,
           obsPast'.last.answered \ {Subject} = obsPast.last.answered \ {Subject},
           Subject \in Clis => (record.health = "ok" <=> Subject \in obsPast'.last.answered),
           Subject \notin Clis => obsPast'.last.answered = obsPast.last.answered
    PROVE  /\ ObsTypeOK' /\ ShownHolds' /\ FileHolds' /\ HealthSettled'
           /\ DOMAIN shown' = DOMAIN shown \cup {Subject}
           /\ \A c \in DOMAIN shown' : shown'[c] = IF c = Subject THEN record ELSE shown[c]
<1>1. looking.next \in DOMAIN Asked /\ DOMAIN shown = {Asked[j] : j \in 1..looking.next - 1}
  BY DEF ObsInv, ShownHolds
<1> DEFINE n == looking.next
<1>2. n \in 1..Len(Asked) /\ Len(Asked) \in Nat /\ DOMAIN Asked = 1..Len(Asked)
  BY <1>1, ObserverAssumption
<1>3. shown' = [c \in DOMAIN shown \cup {Subject} |-> IF c = Subject THEN record ELSE shown[c]]
  BY DEF Show
<1>4. /\ DOMAIN shown' = DOMAIN shown \cup {Subject}
      /\ \A c \in DOMAIN shown' : shown'[c] = IF c = Subject THEN record ELSE shown[c]
  BY <1>3
<1>5. looking' = IF n = Len(Asked) THEN Away ELSE [Away EXCEPT !.at = "next", !.next = n + 1]
  BY DEF Show
<1>6. DOMAIN shown' = {Asked[j] : j \in 1..n}
  <2>1. 1..n = (1..n - 1) \cup {n} BY <1>2
  <2> QED BY <2>1, <1>1, <1>4 DEF Subject
<1>7. /\ looking' \in [at : {"idle", "next", "before", "read", "after"}, next : Nat, attempt : Nat, stat : Nat,
                       text : Texts, health : Health]
      /\ looking'.at \in {"idle", "next"} /\ looking'.stat = 0 /\ looking'.next \in DOMAIN Asked \cup {1}
      /\ looking'.at # "idle" => looking'.next \in DOMAIN Asked /\ looking'.next = n + 1
  <2>1. CASE n = Len(Asked)
    <3>1. looking' = [at |-> "idle", next |-> 1, attempt |-> 1, stat |-> 0, text |-> "absent", health |-> "unknown"]
      BY <1>5, <2>1 DEF Away
    <3> QED BY <3>1 DEF Texts, Health
  <2>2. CASE n # Len(Asked)
    <3>1. looking' = [at |-> "next", next |-> n + 1, attempt |-> 1, stat |-> 0, text |-> "absent", health |-> "unknown"]
      BY <1>5, <2>2 DEF Away
    <3>2. n + 1 \in DOMAIN Asked BY <1>2, <2>2
    <3> QED BY <3>1, <3>2, <1>2 DEF Texts, Health
  <2> QED BY <2>1, <2>2
<1>8. accounts' \in [text : Texts, stat : Nat] BY DEF ObsInv, ObsTypeOK
<1>9. ObsTypeOK' BY <1>3, <1>7, <1>8 DEF ObsTypeOK, PastShape
<1>10. ~AtFile' BY <1>7 DEF AtFile
<1>11. obsPast.last.answered \subseteq DOMAIN shown \cup {Subject}
  BY DEF ObsInv, ShownHolds, AtFile
<1>12. ShownHolds'
  <2>1. obsPast'.last.answered \subseteq DOMAIN shown' BY <1>4, <1>11
  <2>2. looking'.at # "idle" => DOMAIN shown' = {Asked[j] : j \in 1..looking'.next - 1}
    <3>1. looking'.at # "idle" => looking'.next - 1 = n BY <1>7, <1>2
    <3> QED BY <3>1, <1>6
  <2> QED BY <2>1, <2>2, <1>7, <1>10 DEF ShownHolds
<1>13. FileHolds' BY <1>7, <1>8, <1>10 DEF FileHolds, AtFile
<1>14. HealthSettled'
  <2>1. SUFFICES ASSUME NEW c \in DOMAIN shown' \cap Clis
                 PROVE  shown'[c].health = "ok" <=> c \in obsPast'.last.answered
    BY DEF HealthSettled
  <2>2. CASE c = Subject BY <2>2, <1>4
  <2>3. CASE c # Subject
    <3>1. c \in DOMAIN shown \cap Clis /\ shown'[c] = shown[c] BY <2>3, <1>4
    <3>2. shown[c].health = "ok" <=> c \in obsPast.last.answered
      BY <3>1, SettledParts DEF ObsInv, HealthSettled
    <3> QED BY <3>1, <3>2, <2>3
  <2> QED BY <2>2, <2>3
<1> QED BY <1>4, <1>9, <1>12, <1>13, <1>14

\* The end of a look at the file: what is said is settled by what was seen.
LEMMA EndKeeps ==
    ASSUME ObsInv, AtFile, NEW login, NEW snapshot, Ends(login, snapshot), UNCHANGED accounts,
           obsPast' \in PastShape, obsPast'.last.answered = obsPast.last.answered,
           LoginSettled(Status(login, looking.health, snapshot), obsPast'.last)
    PROVE  ObsInv'
<1> DEFINE record == Status(login, looking.health, snapshot)
<1>1. Subject = "gemini" BY FileIsNotShown
<1>2. record.health = looking.health BY DEF Status
<1>3. looking.health = "ok" <=> "gemini" \in obsPast.last.answered BY DEF ObsInv, ShownHolds
<1>4. looking.at # "idle" /\ Show(record) BY DEF AtFile, Ends
<1>5. Subject \in Clis => (record.health = "ok" <=> Subject \in obsPast'.last.answered)
  BY <1>1, <1>2, <1>3
<1>6. Subject \notin Clis => obsPast'.last.answered = obsPast.last.answered
  OBVIOUS
<1>7. LoginSettled(record, obsPast'.last) OBVIOUS
<1> HIDE DEF record
<1>8. /\ ObsTypeOK' /\ ShownHolds' /\ FileHolds' /\ HealthSettled'
      /\ DOMAIN shown' = DOMAIN shown \cup {Subject}
      /\ \A c \in DOMAIN shown' : shown'[c] = IF c = Subject THEN record ELSE shown[c]
  BY <1>4, <1>5, <1>6, ShowKeeps
<1>9. StatusIsSettled' BY <1>1, <1>7, <1>8, NextSettledParts
<1> QED BY <1>8, <1>9 DEF ObsInv

\* Of the step where the file does not change: what is known of it while it is looked at.
LEMMA FileFacts ==
    ASSUME ObsInv, AtFile
    PROVE  /\ accounts.text \in Texts /\ accounts.stat \in Nat /\ looking.stat \in Nat
           /\ accounts.text \in obsPast.last.seen
           /\ obsPast \in PastShape /\ obsPast.last.seen \in SUBSET Texts
           /\ \A x \in Texts : obsPast.last.seen = {x} => x = accounts.text
           /\ looking.health \in {"ok", "fail"}
<1>1. accounts.text \in Texts /\ accounts.stat \in Nat /\ looking.stat \in Nat BY DEF ObsInv, ObsTypeOK
<1>2. accounts.text \in obsPast.last.seen BY DEF ObsInv, FileHolds
<1>3. obsPast \in PastShape BY DEF ObsInv, ObsTypeOK, PastShape
<1>4. obsPast.last.seen \in SUBSET Texts BY <1>3 DEF PastShape
<1>5. looking.health \in {"ok", "fail"} BY DEF ObsInv, ShownHolds
<1> QED BY <1>1, <1>2, <1>3, <1>4, <1>5

\* A look that goes on keeps what is shown.
LEMMA GoKeeps ==
    ASSUME ObsInv, AtFile, NEW local, Go(local), UNCHANGED accounts, local.at \in {"before", "read", "after"},
           local \in [at : {"idle", "next", "before", "read", "after"}, next : Nat, attempt : Nat, stat : Nat,
                      text : Texts, health : Health],
           local.next = looking.next, local.health = looking.health,
           obsPast' \in PastShape, obsPast'.last.answered = obsPast.last.answered,
           FileHolds'
    PROVE  ObsInv'
<1>1. looking' = local /\ UNCHANGED shown BY DEF Go
<1>2. AtFile' BY <1>1 DEF AtFile
<1>3. ObsTypeOK' BY <1>1 DEF ObsInv, ObsTypeOK, PastShape
<1>4. Subject' = Subject BY <1>1 DEF Subject
<1>5. looking.at # "idle" BY DEF AtFile
<1>6. ShownHolds' BY <1>1, <1>2, <1>4, <1>5 DEF ObsInv, ShownHolds
<1>7. HealthSettled' BY <1>1, SettledParts DEF ObsInv, HealthSettled
<1>8. StatusIsSettled' BY <1>1, <1>7, NextSettledParts, FileIsNotShown
<1> QED BY <1>3, <1>6, <1>8 DEF ObsInv

LEMMA RetriesKeep ==
    ASSUME ObsInv, AtFile, Retries, UNCHANGED accounts,
           obsPast' \in PastShape, obsPast'.last.answered = obsPast.last.answered,
           obsPast'.last.seen = obsPast.last.seen,
           \/ obsPast'.last.refused
           \/ \A x \in {"absent", "empty", "active", "inactive"} : obsPast.last.seen # {x}
    PROVE  ObsInv'
<1>1. CASE looking.attempt = 1
  <2> DEFINE local == [looking EXCEPT !.at = "before", !.attempt = 2]
  <2>1. Go(local) BY <1>1 DEF Retries
  <2>2. looking \in [at : {"idle", "next", "before", "read", "after"}, next : Nat, attempt : Nat, stat : Nat,
                     text : Texts, health : Health]
    BY DEF ObsInv, ObsTypeOK
  <2>3. /\ local \in [at : {"idle", "next", "before", "read", "after"}, next : Nat, attempt : Nat, stat : Nat,
                      text : Texts, health : Health]
        /\ local.at = "before" /\ local.next = looking.next /\ local.health = looking.health
        /\ local.stat = looking.stat
    BY <2>2
  <2> HIDE DEF local
  <2>4. looking' = local BY <2>1 DEF Go
  <2>5. accounts'.stat >= looking'.stat BY <2>3, <2>4 DEF ObsInv, FileHolds
  <2>6. accounts'.text \in obsPast'.last.seen BY FileFacts
  <2>7. FileHolds' BY <2>3, <2>4, <2>5, <2>6 DEF FileHolds
  <2> QED BY <2>1, <2>3, <2>7, GoKeeps
<1>2. CASE looking.attempt # 1
  <2>1. Ends("unknown", "racing") BY <1>2 DEF Retries
  <2> DEFINE record == Status("unknown", looking.health, "racing")
  <2>2. record.login = "unknown" /\ record.snapshot = "racing" BY DEF Status
  <2> HIDE DEF record
  <2>3. LoginSettled(record, obsPast'.last) BY <2>2 DEF LoginSettled
  <2> QED BY <2>1, <2>3, EndKeeps DEF record
<1> QED BY <1>1, <1>2

\* A refused call is remembered, and counts as no answer.
LEMMA RefusalFacts ==
    ASSUME ObsInv, IsRefused
    PROVE  /\ obsPast' \in PastShape /\ obsPast'.last.answered = obsPast.last.answered
           /\ obsPast'.last.seen = obsPast.last.seen /\ obsPast'.last.refused
<1> DEFINE l == [obsPast.last EXCEPT !.refused = TRUE]
<1>1. obsPast \in PastShape BY DEF ObsInv, ObsTypeOK, PastShape
<1>2. obsPast.last \in [seen : SUBSET Texts, span : SUBSET Texts, refused : BOOLEAN, raised : SUBSET Clis,
                        answered : SUBSET Clis] /\ obsPast.errors \in Nat
  BY <1>1 DEF PastShape
<1>3. /\ l \in [seen : SUBSET Texts, span : SUBSET Texts, refused : BOOLEAN, raised : SUBSET Clis,
                answered : SUBSET Clis]
      /\ l.answered = obsPast.last.answered /\ l.seen = obsPast.last.seen /\ l.refused
  BY <1>2
<1>4. obsPast' = [obsPast EXCEPT !.errors = obsPast.errors + 1, !.last = l]
  BY DEF IsRefused
<1> HIDE DEF l
<1>5. PICK k \in Nat : k = obsPast.errors + 1 BY <1>2
<1>6. obsPast' = [obsPast EXCEPT !.errors = k, !.last = l] BY <1>4, <1>5
<1>7. obsPast' \in PastShape /\ obsPast'.last = l BY <1>1, <1>3, <1>6 DEF PastShape
<1> QED BY <1>3, <1>7

LEMMA RefusedEnd ==
    ASSUME ObsInv, AtFile, IsRefused, Ends("unknown", "racing"), UNCHANGED accounts
    PROVE  ObsInv'
<1> DEFINE record == Status("unknown", looking.health, "racing")
<1>1. record.login = "unknown" /\ record.snapshot = "racing" BY DEF Status
<1> HIDE DEF record
<1>2. LoginSettled(record, obsPast'.last) BY <1>1, RefusalFacts DEF LoginSettled
<1> QED BY <1>2, RefusalFacts, EndKeeps DEF record

LEMMA StatBeforeKeeps == ASSUME ObsInv, StatBefore PROVE ObsInv'
<1>0. AtFile /\ UNCHANGED accounts BY DEF StatBefore, AtFile
<1>1. CASE IsRefused /\ Ends("unknown", "racing") BY <1>0, <1>1, RefusedEnd
<1>2. CASE /\ IF accounts.text = "absent" THEN Ends("logged_out", "ok")
              ELSE Go([looking EXCEPT !.at = "read", !.stat = accounts.stat])
           /\ obsPast' = [obsPast EXCEPT !.last.span = {accounts.text}]
  <2> DEFINE l == [obsPast.last EXCEPT !.span = {accounts.text}]
  <2>1. obsPast.last \in [seen : SUBSET Texts, span : SUBSET Texts, refused : BOOLEAN, raised : SUBSET Clis,
                          answered : SUBSET Clis]
    BY <1>0, FileFacts DEF PastShape
  <2>2. /\ l \in [seen : SUBSET Texts, span : SUBSET Texts, refused : BOOLEAN, raised : SUBSET Clis,
                  answered : SUBSET Clis]
        /\ l.answered = obsPast.last.answered /\ l.seen = obsPast.last.seen /\ l.span = {accounts.text}
    BY <1>0, <2>1, FileFacts
  <2>3. obsPast' = [obsPast EXCEPT !.last = l] BY <1>2
  <2> HIDE DEF l
  <2>4. obsPast' \in PastShape /\ obsPast'.last = l BY <1>0, <2>2, <2>3, FileFacts DEF PastShape
  <2>5. CASE accounts.text = "absent"
    <3> DEFINE record == Status("logged_out", looking.health, "ok")
    <3>1. record.login = "logged_out" /\ record.snapshot = "ok" BY DEF Status
    <3> HIDE DEF record
    <3>2. LoginSettled(record, obsPast'.last)
      <4>1. obsPast.last.seen # {"active"} BY <1>0, <2>5, FileFacts DEF Texts
      <4> QED BY <2>2, <2>4, <2>5, <3>1, <4>1 DEF LoginSettled
    <3> QED BY <1>0, <1>2, <2>2, <2>4, <2>5, <3>2, EndKeeps DEF record
  <2>6. CASE accounts.text # "absent"
    <3> DEFINE local == [looking EXCEPT !.at = "read", !.stat = accounts.stat]
    <3>1. looking \in [at : {"idle", "next", "before", "read", "after"}, next : Nat, attempt : Nat, stat : Nat,
                       text : Texts, health : Health]
      BY DEF ObsInv, ObsTypeOK
    <3>2. /\ local \in [at : {"idle", "next", "before", "read", "after"}, next : Nat, attempt : Nat, stat : Nat,
                        text : Texts, health : Health]
          /\ local.at = "read" /\ local.next = looking.next /\ local.health = looking.health
          /\ local.stat = accounts.stat
      BY <1>0, <3>1, FileFacts
    <3>3. Go(local) BY <1>2, <2>6
    <3> HIDE DEF local
    <3>4. looking' = local BY <3>3 DEF Go
    <3>5. FileHolds' BY <1>0, <2>2, <2>4, <2>6, <3>2, <3>4, FileFacts DEF FileHolds
    <3> QED BY <1>0, <2>2, <2>4, <3>2, <3>3, <3>5, GoKeeps
  <2> QED BY <2>5, <2>6
<1> QED BY <1>1, <1>2 DEF StatBefore

\* At a read or the second stat of a file that has gone, it has changed since the first.
LEMMA GoneIsNotSettled ==
    ASSUME ObsInv, looking.at \in {"read", "after"}, accounts.text = "absent"
    PROVE  \A x \in Texts : obsPast.last.seen # {x}
BY DEF ObsInv, FileHolds

LEMMA UnknownEnd ==
    ASSUME ObsInv, AtFile, Ends("unknown", "racing"), UNCHANGED <<accounts, obsPast>>,
           \A x \in Texts : obsPast.last.seen # {x}
    PROVE  ObsInv'
<1> DEFINE record == Status("unknown", looking.health, "racing")
<1>1. record.login = "unknown" /\ record.snapshot = "racing" BY DEF Status
<1> HIDE DEF record
<1>2. LoginSettled(record, obsPast'.last) BY <1>1 DEF LoginSettled, Texts
<1> QED BY <1>2, FileFacts, EndKeeps DEF record

LEMMA ReadTextKeeps == ASSUME ObsInv, ReadText PROVE ObsInv'
<1>0. AtFile /\ UNCHANGED accounts /\ looking.at = "read" BY DEF ReadText, AtFile
<1>1. CASE IsRefused /\ Retries BY <1>0, <1>1, RefusalFacts, RetriesKeep
<1>2. CASE /\ CASE accounts.text = "absent" -> Ends("unknown", "racing")
                [] accounts.text = "binary" -> Retries
                [] OTHER -> Go([looking EXCEPT !.at = "after", !.text = accounts.text])
           /\ UNCHANGED obsPast
  <2>1. CASE accounts.text = "absent"
    BY <1>0, <1>2, <2>1, GoneIsNotSettled, UnknownEnd
  <2>2. CASE accounts.text = "binary"
    <3>1. \A x \in {"absent", "empty", "active", "inactive"} : obsPast.last.seen # {x}
      BY <1>0, <2>2, FileFacts DEF Texts
    <3>2. Retries BY <1>2, <2>2
    <3> QED BY <1>0, <1>2, <3>1, <3>2, FileFacts, RetriesKeep
  <2>3. CASE accounts.text \notin {"absent", "binary"}
    <3> DEFINE local == [looking EXCEPT !.at = "after", !.text = accounts.text]
    <3>1. looking \in [at : {"idle", "next", "before", "read", "after"}, next : Nat, attempt : Nat, stat : Nat,
                       text : Texts, health : Health]
      BY DEF ObsInv, ObsTypeOK
    <3>2. /\ local \in [at : {"idle", "next", "before", "read", "after"}, next : Nat, attempt : Nat, stat : Nat,
                        text : Texts, health : Health]
          /\ local.at = "after" /\ local.next = looking.next /\ local.health = looking.health
          /\ local.stat = looking.stat /\ local.text = accounts.text
      BY <1>0, <3>1, FileFacts
    <3>3. Go(local) BY <1>2, <2>3
    <3> HIDE DEF local
    <3>4. looking' = local BY <3>3 DEF Go
    <3>5. FileHolds' BY <1>0, <1>2, <2>3, <3>2, <3>4, FileFacts DEF FileHolds, ObsInv
    <3> QED BY <1>0, <1>2, <3>2, <3>3, <3>5, FileFacts, GoKeeps
  <2> QED BY <2>1, <2>2, <2>3
<1> QED BY <1>1, <1>2 DEF ReadText

LEMMA StatAfterKeeps == ASSUME ObsInv, StatAfter PROVE ObsInv'
<1>0. AtFile /\ UNCHANGED accounts /\ looking.at = "after" BY DEF StatAfter, AtFile
<1>1. CASE IsRefused /\ Retries BY <1>0, <1>1, RefusalFacts, RetriesKeep
<1>2. CASE /\ CASE accounts.text = "absent" -> Ends("unknown", "racing")
                [] accounts.text # "absent" /\ (accounts.stat # looking.stat \/ looking.text = "broken") -> Retries
                [] OTHER -> Ends(IF looking.text = "active" THEN "logged_in" ELSE "logged_out", "ok")
           /\ UNCHANGED obsPast
  <2>1. CASE accounts.text = "absent"
    BY <1>0, <1>2, <2>1, GoneIsNotSettled, UnknownEnd
  <2>2. CASE accounts.text # "absent" /\ (accounts.stat # looking.stat \/ looking.text = "broken")
    <3>1. looking.text \in obsPast.last.seen BY <1>0 DEF ObsInv, FileHolds
    <3>2. \A x \in Texts : obsPast.last.seen = {x} => accounts.stat = looking.stat
      BY <1>0 DEF ObsInv, FileHolds
    <3>3. \A x \in {"absent", "empty", "active", "inactive"} : obsPast.last.seen # {x}
      BY <2>2, <3>1, <3>2 DEF Texts
    <3>4. Retries BY <1>2, <2>2
    <3> QED BY <1>0, <1>2, <3>3, <3>4, FileFacts, RetriesKeep
  <2>3. CASE accounts.text # "absent" /\ accounts.stat = looking.stat /\ looking.text # "broken"
    <3> DEFINE login == IF looking.text = "active" THEN "logged_in" ELSE "logged_out"
               record == Status(login, looking.health, "ok")
    <3>1. record.login = login /\ record.snapshot = "ok" BY DEF Status
    <3>2. /\ looking.text \notin {"absent", "binary", "broken"} /\ looking.text = accounts.text
          /\ obsPast.last.span = {accounts.text}
      BY <1>0, <2>3 DEF ObsInv, FileHolds
    <3>3. looking.text \in {"empty", "active", "inactive"} BY <1>0, <3>2, FileFacts DEF Texts
    <3>4. Ends(login, "ok") BY <1>2, <2>3
    <3>5. LoginSettled(record, obsPast'.last)
      <4>1. \A x \in Texts : obsPast.last.seen = {x} => x = looking.text BY <1>0, <3>2, FileFacts
      <4> HIDE DEF record
      <4>2. CASE looking.text = "active" BY <1>2, <3>1, <3>2, <4>1, <4>2 DEF LoginSettled, Texts
      <4>3. CASE looking.text \in {"empty", "inactive"} BY <1>2, <3>1, <3>2, <4>1, <4>3 DEF LoginSettled, Texts
      <4> QED BY <3>3, <4>2, <4>3
    <3> QED BY <1>0, <1>2, <3>4, <3>5, FileFacts, EndKeeps
  <2> QED BY <2>1, <2>2, <2>3
<1> QED BY <1>1, <1>2 DEF StatAfter

LEMMA ObserveKeeps == ASSUME ObsInv, Observe PROVE ObsInv'
<1>1. obsPast \in PastShape BY DEF ObsInv, ObsTypeOK, PastShape
<1>2. /\ NewPast \in [seen : SUBSET Texts, span : SUBSET Texts, refused : BOOLEAN, raised : SUBSET Clis,
                      answered : SUBSET Clis]
      /\ NewPast.answered = {}
  BY DEF NewPast
<1>3. PICK k \in Nat : k = obsPast.observed + 1 BY <1>1 DEF PastShape
<1>4. obsPast' = [obsPast EXCEPT !.observed = k, !.last = NewPast] BY <1>3 DEF Observe
<1>5. obsPast' \in PastShape /\ obsPast'.last = NewPast BY <1>1, <1>2, <1>4 DEF PastShape
<1>6. 1 \in DOMAIN Asked BY ObserverAssumption DEF Observe
<1>7. looking' = [at |-> "next", next |-> 1, attempt |-> 1, stat |-> 0, text |-> "absent", health |-> "unknown"]
  BY DEF Observe, Away
<1>8. shown' = [c \in {} |-> Status("unknown", "unknown", "ok")] /\ accounts' = accounts BY DEF Observe, Nobody
<1>9. DOMAIN shown' = {} /\ shown' = [c \in DOMAIN shown' |-> shown'[c]] BY <1>8
<1>10. ObsTypeOK' BY <1>5, <1>7, <1>8, <1>9 DEF ObsInv, ObsTypeOK, PastShape, Texts, Health
<1>11. ShownHolds' BY <1>2, <1>5, <1>6, <1>7, <1>9 DEF ShownHolds, AtFile
<1>12. FileHolds' BY <1>7, <1>8 DEF ObsInv, ObsTypeOK, FileHolds, AtFile
<1>13. StatusIsSettled' BY <1>9, NextSettledParts DEF HealthSettled
<1> QED BY <1>10, <1>11, <1>12, <1>13 DEF ObsInv

LEMMA AskWebKeeps == ASSUME ObsInv, AskWeb PROVE ObsInv'
<1>1. PICK r : Show(r) BY DEF AskWeb
<1>2. looking.at # "idle" /\ Subject \notin Clis /\ UNCHANGED <<accounts, obsPast>> BY DEF AskWeb, Clis
<1>3. obsPast' \in PastShape BY <1>2 DEF ObsInv, ObsTypeOK, PastShape
<1>4. /\ ObsTypeOK' /\ ShownHolds' /\ FileHolds' /\ HealthSettled'
      /\ DOMAIN shown' = DOMAIN shown \cup {Subject}
      /\ \A c \in DOMAIN shown' : shown'[c] = IF c = Subject THEN r ELSE shown[c]
  BY <1>1, <1>2, <1>3, ShowKeeps
<1>5. Subject # "gemini" BY <1>2 DEF Clis
<1>6. StatusIsSettled' BY <1>2, <1>4, <1>5, SettledParts, NextSettledParts DEF ObsInv
<1> QED BY <1>4, <1>6 DEF ObsInv

LEMMA AskVersionKeeps == ASSUME ObsInv, AskVersion PROVE ObsInv'
<1>0. looking.at = "next" /\ Subject \in Clis /\ UNCHANGED accounts BY DEF AskVersion
<1>1. /\ obsPast \in PastShape
      /\ obsPast.last \in [seen : SUBSET Texts, span : SUBSET Texts, refused : BOOLEAN, raised : SUBSET Clis,
                           answered : SUBSET Clis]
      /\ accounts.text \in Texts /\ accounts.stat \in Nat
      /\ looking \in [at : {"idle", "next", "before", "read", "after"}, next : Nat, attempt : Nat, stat : Nat,
                      text : Texts, health : Health]
  BY DEF ObsInv, ObsTypeOK, PastShape
\* It has not been shown, and so has not answered, before.
<1>2. Subject \notin DOMAIN shown /\ Subject \notin obsPast.last.answered
  <2>1. looking.next \in DOMAIN Asked /\ DOMAIN shown = {Asked[j] : j \in 1..looking.next - 1}
    BY <1>0 DEF ObsInv, ShownHolds
  <2>2. \A j \in 1..looking.next - 1 : j \in DOMAIN Asked /\ j # looking.next BY <2>1, ObserverAssumption
  <2>3. Subject \notin DOMAIN shown BY <2>1, <2>2, ObserverAssumption DEF Subject
  <2> QED BY <1>0, <2>3 DEF ObsInv, ShownHolds, AtFile
<1>3. ASSUME NEW health \in {"ok", "fail"},
             IF Subject = "gemini" THEN Go([looking EXCEPT !.at = "before", !.health = health])
             ELSE Show(Status("unknown", health, "ok")),
             obsPast' = [obsPast EXCEPT
               !.last.answered = IF health = "ok" THEN obsPast.last.answered \cup {Subject} ELSE obsPast.last.answered,
               !.last.seen = IF Subject = "gemini" THEN {accounts.text} ELSE obsPast.last.seen]
      PROVE  ObsInv'
  <2> DEFINE a == IF health = "ok" THEN obsPast.last.answered \cup {Subject} ELSE obsPast.last.answered
             s == IF Subject = "gemini" THEN {accounts.text} ELSE obsPast.last.seen
             l == [obsPast.last EXCEPT !.answered = a, !.seen = s]
  <2>1. a \in SUBSET Clis /\ s \in SUBSET Texts BY <1>0, <1>1
  <2>2. /\ a \ {Subject} = obsPast.last.answered \ {Subject} /\ (health = "ok" <=> Subject \in a)
        /\ (Subject = "gemini" => s = {accounts.text}) /\ (Subject # "gemini" => s = obsPast.last.seen)
    BY <1>2
  <2>3. obsPast' = [obsPast EXCEPT !.last = l] BY <1>3, <1>1 DEF PastShape
  <2> HIDE DEF a, s
  <2>4. /\ l \in [seen : SUBSET Texts, span : SUBSET Texts, refused : BOOLEAN, raised : SUBSET Clis,
                  answered : SUBSET Clis]
        /\ l.answered = a /\ l.seen = s /\ l.span = obsPast.last.span /\ l.raised = obsPast.last.raised
        /\ l.refused = obsPast.last.refused
    BY <1>1, <2>1
  <2> HIDE DEF l
  <2>5. obsPast' \in PastShape /\ obsPast'.last = l BY <1>1, <2>3, <2>4 DEF PastShape
  <2>6. CASE Subject = "gemini"
    <3> DEFINE local == [looking EXCEPT !.at = "before", !.health = health]
    <3>1. /\ local \in [at : {"idle", "next", "before", "read", "after"}, next : Nat, attempt : Nat, stat : Nat,
                        text : Texts, health : Health]
          /\ local.at = "before" /\ local.next = looking.next /\ local.health = health /\ local.stat = looking.stat
      BY <1>1 DEF Health
    <3>2. looking' = local /\ UNCHANGED shown BY <1>3, <2>6 DEF Go
    <3> HIDE DEF local
    <3>3. ObsTypeOK' BY <1>0, <2>5, <3>1, <3>2 DEF ObsInv, ObsTypeOK, PastShape
    <3>4. AtFile' /\ Subject' = Subject BY <3>1, <3>2 DEF AtFile, Subject
    <3>5. a \subseteq DOMAIN shown \cup {"gemini"}
      BY <1>0, <2>2, <2>6 DEF ObsInv, ShownHolds, AtFile
    <3>6. ShownHolds' BY <1>0, <2>2, <2>4, <2>5, <2>6, <3>1, <3>2, <3>4, <3>5 DEF ObsInv, ShownHolds
    <3>7. FileHolds' BY <1>0, <1>1, <2>2, <2>4, <2>5, <2>6, <3>1, <3>2 DEF ObsInv, FileHolds
    <3>8. HealthSettled'
      <4>1. \A c \in DOMAIN shown : c # Subject BY <1>2
      <4> QED BY <2>2, <2>4, <2>5, <3>2, <4>1, SettledParts DEF ObsInv, HealthSettled
    <3>9. StatusIsSettled' BY <1>2, <2>6, <3>2, <3>8, NextSettledParts
    <3> QED BY <3>3, <3>6, <3>7, <3>9 DEF ObsInv
  <2>7. CASE Subject # "gemini"
    <3> DEFINE record == Status("unknown", health, "ok")
    <3>1. record.health = health BY DEF Status
    <3>2. Show(record) BY <1>3, <2>7
    <3> HIDE DEF record
    <3>3. looking.at # "idle" BY <1>0
    <3>4. obsPast'.last.answered \ {Subject} = obsPast.last.answered \ {Subject} BY <2>2, <2>4, <2>5
    <3>5. Subject \in Clis => (record.health = "ok" <=> Subject \in obsPast'.last.answered) BY <2>2, <2>4, <2>5, <3>1
    <3>6. Subject \notin Clis => obsPast'.last.answered = obsPast.last.answered BY <1>0
    <3>7. /\ ObsTypeOK' /\ ShownHolds' /\ FileHolds' /\ HealthSettled'
          /\ DOMAIN shown' = DOMAIN shown \cup {Subject}
          /\ \A c \in DOMAIN shown' : shown'[c] = IF c = Subject THEN record ELSE shown[c]
      BY <1>0, <2>5, <3>2, <3>3, <3>4, <3>5, <3>6, ShowKeeps
    <3>8. ASSUME "gemini" \in DOMAIN shown' PROVE LoginSettled(shown'["gemini"], obsPast'.last)
      <4>1. "gemini" \in DOMAIN shown /\ shown'["gemini"] = shown["gemini"] BY <2>7, <3>7, <3>8
      <4>2. LoginSettled(shown["gemini"], obsPast.last) BY <4>1, SettledParts DEF ObsInv
      <4> QED BY <2>2, <2>4, <2>5, <2>7, <4>1, <4>2 DEF LoginSettled
    <3>9. StatusIsSettled' BY <3>7, <3>8, NextSettledParts
    <3> QED BY <3>7, <3>9 DEF ObsInv
  <2> QED BY <2>6, <2>7
<1>4. ASSUME Show(Status("unknown", "unknown", "racing")),
             obsPast' = [obsPast EXCEPT !.last.raised = obsPast.last.raised \cup {Subject}]
      PROVE  ObsInv'
  <2> DEFINE l == [obsPast.last EXCEPT !.raised = obsPast.last.raised \cup {Subject}]
             record == Status("unknown", "unknown", "racing")
  <2>1. obsPast' = [obsPast EXCEPT !.last = l] BY <1>4
  <2>2. /\ l \in [seen : SUBSET Texts, span : SUBSET Texts, refused : BOOLEAN, raised : SUBSET Clis,
                  answered : SUBSET Clis]
        /\ l.answered = obsPast.last.answered /\ l.seen = obsPast.last.seen /\ l.span = obsPast.last.span
        /\ l.raised = obsPast.last.raised \cup {Subject} /\ l.refused = obsPast.last.refused
    BY <1>0, <1>1
  <2>3. record.health = "unknown" /\ record.login = "unknown" /\ record.snapshot = "racing" /\ Show(record)
    BY <1>4 DEF Status
  <2> HIDE DEF l, record
  <2>4. obsPast' \in PastShape /\ obsPast'.last = l BY <1>1, <2>1, <2>2 DEF PastShape
  <2>5. Subject \in Clis => (record.health = "ok" <=> Subject \in obsPast'.last.answered) BY <1>2, <2>2, <2>3, <2>4
  <2>6. Subject \notin Clis => obsPast'.last.answered = obsPast.last.answered BY <1>0
  <2>7. obsPast'.last.answered \ {Subject} = obsPast.last.answered \ {Subject} BY <2>2, <2>4
  <2>8. looking.at # "idle" BY <1>0
  <2>9. /\ ObsTypeOK' /\ ShownHolds' /\ FileHolds' /\ HealthSettled'
        /\ DOMAIN shown' = DOMAIN shown \cup {Subject}
        /\ \A c \in DOMAIN shown' : shown'[c] = IF c = Subject THEN record ELSE shown[c]
    BY <1>0, <2>3, <2>4, <2>5, <2>6, <2>7, <2>8, ShowKeeps
  <2>10. ASSUME "gemini" \in DOMAIN shown' PROVE LoginSettled(shown'["gemini"], obsPast'.last)
    <3>1. CASE Subject = "gemini" BY <2>2, <2>3, <2>4, <2>9, <3>1 DEF LoginSettled
    <3>2. CASE Subject # "gemini"
      <4>1. "gemini" \in DOMAIN shown /\ shown'["gemini"] = shown["gemini"] BY <3>2, <2>9, <2>10
      <4>2. LoginSettled(shown["gemini"], obsPast.last) BY <4>1, SettledParts DEF ObsInv
      <4> QED BY <2>2, <2>4, <3>2, <4>1, <4>2 DEF LoginSettled
    <3> QED BY <3>1, <3>2
  <2>11. StatusIsSettled' BY <2>9, <2>10, NextSettledParts
  <2> QED BY <2>9, <2>11 DEF ObsInv
<1> QED BY <1>3, <1>4 DEF AskVersion

LEMMA FileChangesKeeps == ASSUME ObsInv, NEW text \in Texts, FileChanges(text) PROVE ObsInv'
<1>1. /\ obsPast \in PastShape /\ accounts.text \in Texts /\ accounts.stat \in Nat /\ looking.stat \in Nat
      /\ obsPast.last \in [seen : SUBSET Texts, span : SUBSET Texts, refused : BOOLEAN, raised : SUBSET Clis,
                           answered : SUBSET Clis]
      /\ obsPast.changes \in Nat
  BY DEF ObsInv, ObsTypeOK, PastShape
<1>2. /\ accounts' = [text |-> text, stat |-> accounts.stat + 1] /\ UNCHANGED <<looking, shown>>
      /\ text # accounts.text
  BY DEF FileChanges
<1> DEFINE l == IF looking.at \notin {"before", "read", "after"} THEN obsPast.last
                ELSE [obsPast.last EXCEPT !.seen = obsPast.last.seen \cup {text},
                                          !.span = obsPast.last.span \cup {text}]
<1>3. PICK k \in Nat : k = obsPast.changes + 1 BY <1>1
<1>4. obsPast' = [obsPast EXCEPT !.changes = k, !.last = l] BY <1>3 DEF FileChanges
<1>5. /\ l \in [seen : SUBSET Texts, span : SUBSET Texts, refused : BOOLEAN, raised : SUBSET Clis,
                answered : SUBSET Clis]
      /\ l.answered = obsPast.last.answered
      /\ AtFile => l.seen = obsPast.last.seen \cup {text}
      /\ ~AtFile => l = obsPast.last
  BY <1>1 DEF AtFile
<1> HIDE DEF l
<1>6. obsPast' \in PastShape /\ obsPast'.last = l BY <1>1, <1>4, <1>5 DEF PastShape
<1>7. ObsTypeOK' BY <1>1, <1>2, <1>6 DEF ObsInv, ObsTypeOK, PastShape
<1>8. AtFile' <=> AtFile BY <1>2 DEF AtFile
<1>9. Subject' = Subject BY <1>2 DEF Subject
<1>10. ShownHolds' BY <1>2, <1>5, <1>6, <1>8, <1>9 DEF ObsInv, ShownHolds
<1>11. FileHolds'
  <2>1. accounts'.text = text /\ accounts'.stat = accounts.stat + 1 /\ accounts.stat >= looking.stat
    BY <1>2 DEF ObsInv, FileHolds
  <2>2. CASE AtFile
    <3>1. \A x \in Texts : l.seen # {x} BY <1>2, <1>5, <2>2 DEF ObsInv, FileHolds
    <3>2. text \in l.seen BY <1>5, <2>2
    <3>3. looking.at = "after" => looking.text \notin {"absent", "binary"} /\ looking.text \in l.seen
      BY <1>5, <2>2 DEF ObsInv, FileHolds
    <3>4. accounts'.stat # looking'.stat /\ accounts'.stat >= looking'.stat BY <1>1, <1>2, <2>1
    <3> QED BY <1>2, <1>6, <2>1, <3>1, <3>2, <3>3, <3>4 DEF FileHolds
  <2>3. CASE ~AtFile
    <3>1. accounts'.stat >= looking'.stat BY <1>1, <1>2, <2>1
    <3> QED BY <1>8, <2>3, <3>1 DEF FileHolds, AtFile
  <2> QED BY <2>2, <2>3
<1>12. HealthSettled' BY <1>2, <1>5, <1>6, SettledParts DEF ObsInv, HealthSettled
<1>13. ASSUME "gemini" \in DOMAIN shown' PROVE LoginSettled(shown'["gemini"], obsPast'.last)
  <2>1. ~AtFile BY <1>2, <1>13, FileIsNotShown
  <2> QED BY <1>2, <1>5, <1>6, <1>13, <2>1, SettledParts DEF ObsInv
<1>14. StatusIsSettled' BY <1>12, <1>13, NextSettledParts
<1> QED BY <1>7, <1>10, <1>11, <1>14 DEF ObsInv

LEMMA ObsInvInit == ObsInit => ObsInv
<1> SUFFICES ASSUME ObsInit PROVE ObsInv
  OBVIOUS
<1>1. /\ accounts \in [text : FirstTexts, stat : {0}] /\ FirstTexts \subseteq Texts
      /\ looking = [at |-> "idle", next |-> 1, attempt |-> 1, stat |-> 0, text |-> "absent", health |-> "unknown"]
      /\ shown = [c \in {} |-> Status("unknown", "unknown", "ok")]
      /\ obsPast = [last |-> NewPast, changes |-> 0, observed |-> 0, errors |-> 0]
      /\ NewPast = [seen |-> {}, span |-> {}, refused |-> FALSE, raised |-> {}, answered |-> {}]
  BY ObserverAssumption DEF ObsInit, Away, Nobody, NewPast
<1>2. DOMAIN shown = {} /\ shown = [c \in DOMAIN shown |-> shown[c]] BY <1>1
<1>3. ObsTypeOK
  <2>1. accounts \in [text : Texts, stat : Nat] BY <1>1
  <2>2. /\ looking \in [at : {"idle", "next", "before", "read", "after"}, next : Nat, attempt : Nat, stat : Nat,
                        text : Texts, health : Health]
        /\ looking.next = 1
    BY <1>1 DEF Texts, Health
  <2>3. obsPast \in PastShape BY <1>1 DEF PastShape
  <2> QED BY <1>2, <2>1, <2>2, <2>3 DEF ObsTypeOK, PastShape
<1>4. ShownHolds BY <1>1, <1>2 DEF ShownHolds, AtFile
<1>5. FileHolds BY <1>1 DEF FileHolds, AtFile
<1>6. StatusIsSettled BY <1>2, SettledParts DEF HealthSettled
<1> QED BY <1>3, <1>4, <1>5, <1>6 DEF ObsInv

\* What the panel says of the Gemini command line was so while it looked, and a program
\* is well only if it has answered (observe_status, _observe_gemini_cli_snapshot), for
\* any file, any order of what is asked and any number of changes.
THEOREM StatusStaysSettled == ObsSpec => []StatusIsSettled
<1>1. ASSUME ObsInv, [ObsNext]_obsVars PROVE ObsInv'
  <2>1. CASE UNCHANGED obsVars
    BY <1>1, <2>1 DEF obsVars, ObsInv, ObsTypeOK, ShownHolds, FileHolds, StatusIsSettled, AtFile, Subject
  <2>2. CASE Observe BY <1>1, <2>2, ObserveKeeps
  <2>3. CASE AskVersion BY <1>1, <2>3, AskVersionKeeps
  <2>4. CASE AskWeb BY <1>1, <2>4, AskWebKeeps
  <2>5. CASE StatBefore BY <1>1, <2>5, StatBeforeKeeps
  <2>6. CASE ReadText BY <1>1, <2>6, ReadTextKeeps
  <2>7. CASE StatAfter BY <1>1, <2>7, StatAfterKeeps
  <2>8. ASSUME NEW text \in Texts, FileChanges(text) PROVE ObsInv' BY <1>1, <2>8, FileChangesKeeps
  <2> QED BY <1>1, <2>1, <2>2, <2>3, <2>4, <2>5, <2>6, <2>7, <2>8 DEF ObsNext
<1>2. ObsInv => StatusIsSettled BY DEF ObsInv
<1> QED BY <1>1, <1>2, ObsInvInit, PTL DEF ObsSpec

-----------------------------------------------------------------------------
(* DeliverablePack: types and the inductive invariant.                     *)

PackRow == [modality : {"document", "slides", "poster"}, file : Nat, sha : Drafts]

\* What a renderer is at; its texts and records are described where they matter.
RendererShape(r) ==
    \/ r = Waiting
    \/ r.at \in {"slides", "poster", "record"} /\ r = [at |-> r.at, out |-> r.out]
    \/ r.at = "save" /\ r = [at |-> "save", sidecar |-> r.sidecar]

PackTypeOK ==
    /\ packRows \in Seq(PackRow)
    /\ packFiles = [m \in Converted |-> packFiles[m]]
    /\ packDate \in Nat /\ packDate > 0
    /\ renderers = [p \in Renderers |-> renderers[p]] /\ \A p \in Renderers : RendererShape(renderers[p])
    /\ packAnswer = [at |-> packAnswer.at, dated |-> packAnswer.dated, item |-> packAnswer.item]
    /\ packAnswer.at \in 0..5 /\ packAnswer.dated \in 0..packDate
    /\ packAlone \in BOOLEAN

\* A file that has come from a draft the ledger has a row for.
FromDraft(m, file) == \E d \in Ledgered(m) : file = Rendered(m, d)

SidecarOK(s) ==
    /\ s.at \in 0..packDate
    /\ \A m \in Converted : s.record[m] = NoFile \/ FromDraft(m, s.record[m])

\* What a process has written by the time it is where it is.
Written(at) == CASE at = "poster" -> {"slides"} [] at \in {"record", "save"} -> Converted [] OTHER -> {}

RendererHolds(r) ==
    /\ r.at \in {"slides", "poster", "record"} => \A m \in Converted : FromDraft(m, r.out[m])
    /\ r.at \in {"poster", "record"} => \A m \in Written(r.at) : FromDraft(m, packFiles[m])
    /\ r.at = "save" => SidecarOK(r.sidecar) /\ r.sidecar.at # 0

\* The process that nothing disturbs has the sources' rendering, and writes nothing else.
Wanted(m) == Rendered(m, Chosen(m).sha)
RendererAlone(r) ==
    /\ r.at \in {"slides", "poster", "record"} => \A m \in Converted : r.out[m] = Wanted(m)
    /\ \A m \in Written(r.at) : packFiles[m] = Wanted(m)
    /\ r.at = "save" => \A m \in Converted : r.sidecar.record[m] = packFiles[m]

PackInv ==
    /\ PackTypeOK /\ SidecarOK(packSidecar) /\ DeliveredIsLedgered /\ RunMaterializes
    /\ \A p \in Renderers : RendererHolds(renderers[p])
    /\ packAlone => /\ \A p, q \in Busy : p = q
                    /\ \A p \in Busy : RendererAlone(renderers[p])

Smallest(S) == CHOOSE k \in S : \A j \in S : k <= j
Among(m) == IF Preferred(m) # {} THEN Preferred(m) ELSE Candidates(m)

LEMMA ChosenIs == \A m : Chosen(m) = packRows[Smallest(Among(m))]
BY DEF Chosen, Smallest, Among

LEMMA LeastRow ==
    ASSUME NEW S, S \subseteq Nat, S # {}
    PROVE  Smallest(S) \in S
<1> DEFINE R == OpToRel(<, Nat)
<1>1. \A x, y \in Nat : <<x, y>> \in R <=> x < y BY DEF OpToRel
<1>2. IsWellFoundedOn(R, Nat) BY NatLessThanWellFounded
<1> HIDE DEF R
<1>3. PICK n \in S : \A k \in S : ~ <<k, n>> \in R BY <1>2, WFMin
<1>4. ASSUME NEW k \in S PROVE n <= k
  <2>1. k \in Nat /\ n \in Nat OBVIOUS
  <2>2. ~(k < n) BY <1>1, <1>3, <2>1
  <2> QED BY <2>1, <2>2
<1> QED BY <1>4 DEF Smallest

\* A source that is found is a draft that the ledger has a row for.
LEMMA SourceIsLedgered ==
    ASSUME packRows \in Seq(PackRow), NEW m, HasSource(m)
    PROVE  Chosen(m).sha \in Ledgered(m)
<1>1. Candidates(m) \subseteq {k \in DOMAIN packRows : packRows[k].modality = m}
  BY DEF Candidates, Stands
<1>2. Among(m) \subseteq Candidates(m) /\ Among(m) # {} BY DEF Among, Preferred, HasSource
<1>3. DOMAIN packRows \subseteq Nat BY DEF PackRow
<1>4. Among(m) \subseteq Nat BY <1>1, <1>2, <1>3
<1>5. Smallest(Among(m)) \in Among(m) BY <1>2, <1>4, LeastRow
<1>6. PICK k \in DOMAIN packRows : k = Smallest(Among(m)) /\ packRows[k].modality = m
  BY <1>1, <1>2, <1>5
<1>7. Chosen(m).sha = packRows[k].sha BY <1>6, ChosenIs
<1> QED BY <1>6, <1>7 DEF Ledgered

\* What is wanted follows from the rows and the sources alone.
LEMMA WantedStays ==
    ASSUME UNCHANGED <<packRows, packSources>>
    PROVE  \A m : Wanted(m)' = Wanted(m)
<1>1. ASSUME NEW m PROVE Wanted(m)' = Wanted(m)
  <2>1. Candidates(m)' = Candidates(m) BY DEF Candidates, Stands
  <2>2. Preferred(m)' = Preferred(m) BY <2>1 DEF Preferred
  <2>3. Among(m)' = Among(m) BY <2>1, <2>2 DEF Among
  <2>4. Chosen(m) = packRows[Smallest(Among(m))] BY DEF Chosen, Smallest, Among
  <2>5. Chosen(m)' = packRows'[Smallest(Among(m)')] BY DEF Chosen, Smallest, Among
  <2>6. Chosen(m)' = Chosen(m) BY <2>3, <2>4, <2>5
  <2> QED BY <2>6 DEF Wanted
<1> QED BY <1>1

\* The ledger only grows, and with it what counts as come from a draft.
LEMMA LedgerGrows ==
    ASSUME packRows \in Seq(PackRow), packDate \in Nat, packDate' \in Nat, packDate' >= packDate,
           packRows' = packRows \/ \E row \in PackRow : packRows' = Append(packRows, row)
    PROVE  /\ packRows' \in Seq(PackRow)
           /\ \A m : Ledgered(m) \subseteq Ledgered(m)'
           /\ \A m, f : FromDraft(m, f) => FromDraft(m, f)'
           /\ \A s : SidecarOK(s) => SidecarOK(s)'
<1>1. packRows' \in Seq(PackRow) OBVIOUS
<1>2. \A k \in DOMAIN packRows : k \in DOMAIN packRows' /\ packRows'[k] = packRows[k] OBVIOUS
<1>3. \A m : Ledgered(m) \subseteq Ledgered(m)' BY <1>2 DEF Ledgered
<1>4. \A m, f : FromDraft(m, f) => FromDraft(m, f)' BY <1>3 DEF FromDraft
<1>5. \A s : SidecarOK(s) => SidecarOK(s)' BY <1>4 DEF SidecarOK
<1> QED BY <1>1, <1>3, <1>4, <1>5

LEMMA WrittenFacts ==
    /\ Written("slides") = {} /\ Written("idle") = {} /\ Written("poster") = {"slides"}
    /\ Written("record") = Converted /\ Written("save") = Converted
BY DEF Written

\* What was said of a draft stays so.
LEMMA SaidStays ==
    ASSUME PackInv, packDate' \in Nat, packDate' >= packDate, packAnswer'.item = packAnswer.item,
           packRows' = packRows \/ \E row \in PackRow : packRows' = Append(packRows, row)
    PROVE  DeliveredIsLedgered'
<1>1. packRows \in Seq(PackRow) /\ packDate \in Nat BY DEF PackInv, PackTypeOK
<1>2. \A m : Ledgered(m) \subseteq Ledgered(m)' BY <1>1, LedgerGrows
<1>3. DeliveredIsLedgered BY DEF PackInv
<1> DEFINE i == packAnswer.item
<1>4. /\ i.status \in {"delivered", "converted", "file"} /\ NeedsSource(i.modality) =>
           i.bytes.of = i.modality /\ i.bytes.draft \in Ledgered(i.modality)'
      /\ i.status = "converted" => i.date \in 1..packDate'
      /\ ~NeedsSource(i.modality) => i.status \in {"blocked", "file"}
  BY <1>1, <1>2, <1>3 DEF DeliveredIsLedgered
<1> QED BY <1>4 DEF DeliveredIsLedgered, Ledgered

\* A step of the server, the clock or a file that no row names.
LEMMA ServerKeeps ==
    ASSUME PackInv, UNCHANGED <<packRows, packSources, packFiles, packSidecar, renderers, packAlone>>,
           packDate' \in Nat, packDate' >= packDate,
           packAnswer' = [at |-> packAnswer'.at, dated |-> packAnswer'.dated, item |-> packAnswer'.item],
           packAnswer'.at \in 0..5, packAnswer'.dated \in 0..packDate, DeliveredIsLedgered'
    PROVE  PackInv'
<1>1. PackTypeOK BY DEF PackInv
<1>2. packRows \in Seq(PackRow) /\ packDate \in Nat /\ packDate > 0 BY <1>1 DEF PackTypeOK
<1>3. PackTypeOK' BY <1>1, <1>2 DEF PackTypeOK
<1>4. /\ \A m, f : FromDraft(m, f) => FromDraft(m, f)'
      /\ \A s : SidecarOK(s) => SidecarOK(s)'
  BY <1>2, LedgerGrows
<1>5. SidecarOK(packSidecar)' BY <1>4 DEF PackInv
<1>6. \A m : Wanted(m)' = Wanted(m) BY WantedStays
<1>7. Busy' = Busy BY DEF Busy
<1>8. RunMaterializes'
  <2>1. RunMaterializes <=>
          (packAlone /\ Busy = {} => \A m \in Converted : IsMaterialized(m) /\ packFiles[m] = Wanted(m))
    BY DEF RunMaterializes, Wanted
  <2>2. RunMaterializes' <=> (packAlone' /\ Busy' = {} =>
                                \A m \in Converted : IsMaterialized(m)' /\ packFiles'[m] = Wanted(m)')
    BY DEF RunMaterializes, Wanted
  <2>3. \A m : IsMaterialized(m)' = IsMaterialized(m) BY DEF IsMaterialized
  <2> QED BY <2>1, <2>2, <2>3, <1>6, <1>7 DEF PackInv
<1>9. \A p \in Renderers : RendererHolds(renderers[p])' BY <1>4 DEF PackInv, RendererHolds
<1>10. packAlone' => /\ \A p, q \in Busy' : p = q
                     /\ \A p \in Busy' : RendererAlone(renderers[p])'
  BY <1>6, <1>7 DEF PackInv, RendererAlone
<1> QED BY <1>3, <1>5, <1>8, <1>9, <1>10 DEF PackInv

\* A step of a process: what follows from the state of that process alone.
LEMMA ProcessKeeps ==
    ASSUME PackInv, NEW p \in Renderers, NEW now, Step(p, now), RendererShape(now),
           UNCHANGED <<packRows, packSources, packDate, packAnswer>>,
           packFiles' = [m \in Converted |-> packFiles'[m]],
           \A m \in Converted : packFiles'[m] = packFiles[m] \/ FromDraft(m, packFiles'[m]),
           SidecarOK(packSidecar'), packAlone' \in BOOLEAN, RunMaterializes',
           now.at \in {"slides", "poster", "record"} => \A m \in Converted : FromDraft(m, now.out[m]),
           now.at \in {"poster", "record"} => \A m \in Written(now.at) : FromDraft(m, packFiles'[m]),
           now.at = "save" => SidecarOK(now.sidecar) /\ now.sidecar.at # 0,
           packAlone' => /\ \A q \in Busy : q = p
                         /\ now.at \in {"slides", "poster", "record"} => \A m \in Converted : now.out[m] = Wanted(m)
                         /\ \A m \in Written(now.at) : packFiles'[m] = Wanted(m)
                         /\ now.at = "save" => \A m \in Converted : now.sidecar.record[m] = packFiles'[m]
    PROVE  PackInv'
<1>1. PackTypeOK BY DEF PackInv
<1>2. packRows \in Seq(PackRow) /\ packDate \in Nat /\ packDate > 0 BY <1>1 DEF PackTypeOK
<1>3. /\ renderers' = [q \in Renderers |-> renderers'[q]]
      /\ renderers'[p] = now /\ \A q \in Renderers : q # p => renderers'[q] = renderers[q]
  <2>1. renderers = [q \in Renderers |-> renderers[q]] BY <1>1 DEF PackTypeOK
  <2>2. renderers' = [renderers EXCEPT ![p] = now] BY DEF Step
  <2> QED BY <2>1, <2>2
<1>4. \A q \in Renderers : RendererShape(renderers'[q]) BY <1>1, <1>3 DEF PackTypeOK
<1>5. PackTypeOK'
  <2>1. \A q \in Renderers : RendererShape(renderers[q])' BY <1>4 DEF RendererShape, Waiting
  <2> QED BY <1>1, <1>3, <2>1 DEF PackTypeOK
<1>6. /\ \A m, f : FromDraft(m, f) <=> FromDraft(m, f)'
      /\ \A s : SidecarOK(s) <=> SidecarOK(s)'
  <2>1. \A m : Ledgered(m)' = Ledgered(m) BY DEF Ledgered
  <2>2. \A m, f : FromDraft(m, f) <=> FromDraft(m, f)' BY <2>1 DEF FromDraft
  <2> QED BY <2>2 DEF SidecarOK
<1>7. SidecarOK(packSidecar)'
  <2>1. PICK s : s = packSidecar' OBVIOUS
  <2>2. SidecarOK(s)' BY <1>6, <2>1
  <2> QED BY <2>1, <2>2 DEF SidecarOK, FromDraft, Ledgered
<1>8. DeliveredIsLedgered' BY <1>2, SaidStays
<1>9. \A m : Wanted(m)' = Wanted(m) BY WantedStays
<1>10. ASSUME NEW q \in Renderers PROVE RendererHolds(renderers[q])'
  <2>1. PICK r : r = renderers'[q] OBVIOUS
  <2>2. /\ r.at \in {"slides", "poster", "record"} => \A m \in Converted : FromDraft(m, r.out[m])
        /\ r.at \in {"poster", "record"} => \A m \in Written(r.at) : FromDraft(m, packFiles'[m])
        /\ r.at = "save" => SidecarOK(r.sidecar) /\ r.sidecar.at # 0
    <3>1. CASE q = p BY <1>3, <2>1, <3>1
    <3>2. CASE q # p
      <4>1. RendererHolds(renderers[q]) /\ r = renderers[q] BY <1>3, <2>1, <3>2 DEF PackInv
      <4>2. r.at \in {"poster", "record"} => Written(r.at) \subseteq Converted BY WrittenFacts DEF Converted
      <4> QED BY <4>1, <4>2 DEF RendererHolds
    <3> QED BY <3>1, <3>2
  <2>3. /\ r.at \in {"slides", "poster", "record"} => \A m \in Converted : FromDraft(m, r.out[m])'
        /\ r.at \in {"poster", "record"} => \A m \in Written(r.at) : FromDraft(m, packFiles[m])'
        /\ r.at = "save" => SidecarOK(r.sidecar)' /\ r.sidecar.at # 0
    <3>1. \A m, f : f = packFiles'[m] /\ FromDraft(m, f) => FromDraft(m, packFiles[m])'
      BY <1>6 DEF FromDraft, Ledgered
    <3> QED BY <1>6, <2>2, <3>1
  <2> QED BY <2>1, <2>3 DEF RendererHolds, FromDraft, Ledgered, SidecarOK
<1>11. ASSUME packAlone'
       PROVE  /\ \A x, y \in Busy' : x = y
              /\ \A x \in Busy' : RendererAlone(renderers[x])'
  <2>1. ASSUME NEW x \in Busy' PROVE x = p
    <3>1. x \in Renderers /\ renderers'[x].at # "idle" BY <2>1 DEF Busy
    <3>2. CASE x # p
      <4>1. x \in Busy BY <1>3, <3>1, <3>2 DEF Busy
      <4> QED BY <1>11, <3>2, <4>1
    <3> QED BY <3>2
  <2>2. RendererAlone(renderers[p])' BY <1>3, <1>9, <1>11 DEF RendererAlone
  <2> QED BY <2>1, <2>2
<1> QED BY <1>5, <1>7, <1>8, <1>10, <1>11 DEF PackInv

LEMMA RenderKeeps == ASSUME PackInv, NEW p \in Renderers, Render(p) PROVE PackInv'
<1> DEFINE o == [m \in Converted |-> Rendered(m, Chosen(m).sha)]
           now == [at |-> "slides", out |-> o]
<1>1. /\ Step(p, now) /\ packAlone' = (Busy = {}) /\ \A m \in Converted : HasSource(m)
      /\ UNCHANGED <<packRows, packSources, packFiles, packSidecar, packDate, packAnswer>>
  BY DEF Render
<1>2. now.at = "slides" /\ now.out = o /\ RendererShape(now) BY DEF RendererShape
<1>3. packRows \in Seq(PackRow) BY DEF PackInv, PackTypeOK
<1>4. ASSUME NEW m \in Converted PROVE FromDraft(m, o[m]) /\ o[m] = Wanted(m)
  <2>1. o[m] = Rendered(m, Chosen(m).sha) OBVIOUS
  <2>2. Chosen(m).sha \in Ledgered(m) BY <1>1, <1>3, SourceIsLedgered
  <2> QED BY <2>1, <2>2 DEF FromDraft, Wanted
<1> HIDE DEF o
<1>5. Busy' # {}
  <2>1. renderers = [q \in Renderers |-> renderers[q]] BY DEF PackInv, PackTypeOK
  <2>2. renderers'[p] = now BY <1>1, <2>1 DEF Step
  <2> QED BY <1>2, <2>2 DEF Busy
<1>6. RunMaterializes' BY <1>5 DEF RunMaterializes
<1>7. packFiles' = [m \in Converted |-> packFiles'[m]] /\ \A m \in Converted : packFiles'[m] = packFiles[m]
  BY <1>1 DEF PackInv, PackTypeOK
<1>8. SidecarOK(packSidecar') BY <1>1 DEF PackInv
<1> HIDE DEF now
<1> QED BY <1>1, <1>2, <1>4, <1>6, <1>7, <1>8, WrittenFacts, ProcessKeeps

LEMMA WriteFileKeeps == ASSUME PackInv, NEW p \in Renderers, WriteFile(p) PROVE PackInv'
<1> DEFINE n == renderers[p].at
           o == renderers[p].out
           now == [renderers[p] EXCEPT !.at = After(n)]
<1>1. /\ n \in {"slides", "poster"} /\ Step(p, now) /\ packFiles' = [packFiles EXCEPT ![n] = o[n]]
      /\ UNCHANGED <<packRows, packSources, packSidecar, packDate, packAnswer, packAlone>>
  BY DEF WriteFile, Converted
<1>2. renderers[p] = [at |-> n, out |-> o]
  <2>1. RendererShape(renderers[p]) BY DEF PackInv, PackTypeOK
  <2> QED BY <1>1, <2>1 DEF RendererShape, Waiting
<1>3. now = [at |-> After(n), out |-> o] BY <1>2
<1>4. now.at = After(n) /\ now.out = o /\ RendererShape(now)
  BY <1>1, <1>3 DEF RendererShape, After
<1>5. RendererHolds(renderers[p]) BY DEF PackInv
<1>6. \A m \in Converted : FromDraft(m, o[m]) BY <1>1, <1>5 DEF RendererHolds
<1>7. packFiles = [m \in Converted |-> packFiles[m]] BY DEF PackInv, PackTypeOK
<1>8. /\ packFiles' = [m \in Converted |-> packFiles'[m]]
      /\ \A m \in Converted : packFiles'[m] = IF m = n THEN o[n] ELSE packFiles[m]
  BY <1>1, <1>7 DEF Converted
<1>9. renderers'[p] = now
  <2>1. renderers = [q \in Renderers |-> renderers[q]] BY DEF PackInv, PackTypeOK
  <2> QED BY <1>1, <2>1 DEF Step
<1>10. (n = "slides" /\ After(n) = "poster") \/ (n = "poster" /\ After(n) = "record") BY <1>1 DEF After
<1>11. \A m \in Written(After(n)) : m = n \/ m \in Written(n) BY <1>10, WrittenFacts DEF Converted
<1>12. Written(n) \subseteq Converted /\ n \in Converted BY <1>10, WrittenFacts DEF Converted
<1>13. \A m \in Written(n) : FromDraft(m, packFiles[m]) BY <1>1, <1>5, WrittenFacts DEF RendererHolds
<1>14. ASSUME NEW m \in Written(After(n)) PROVE FromDraft(m, packFiles'[m])
  <2>1. m \in Converted BY <1>11, <1>12
  <2>2. CASE m = n BY <1>6, <1>8, <2>1, <2>2
  <2>3. CASE m # n BY <1>8, <1>11, <1>13, <2>1, <2>3
  <2> QED BY <2>2, <2>3
<1>15. p \in Busy BY <1>1 DEF Busy
<1>16. ASSUME packAlone'
       PROVE  /\ \A q \in Busy : q = p
              /\ \A m \in Converted : o[m] = Wanted(m)
              /\ \A m \in Written(After(n)) : packFiles'[m] = Wanted(m)
  <2>1. packAlone BY <1>1, <1>16
  <2>2. RendererAlone(renderers[p]) /\ \A q \in Busy : q = p BY <1>15, <2>1 DEF PackInv
  <2>3. \A m \in Converted : o[m] = Wanted(m) BY <1>1, <2>2 DEF RendererAlone
  <2>4. \A m \in Written(n) : packFiles[m] = Wanted(m) BY <2>2 DEF RendererAlone
  <2> QED BY <1>8, <1>11, <1>12, <2>2, <2>3, <2>4
<1>17. SidecarOK(packSidecar') BY <1>1 DEF PackInv
<1>18. Busy' # {} BY <1>4, <1>9, <1>10 DEF Busy
<1>19. RunMaterializes' BY <1>18 DEF RunMaterializes
<1>20. packAlone' \in BOOLEAN BY <1>1 DEF PackInv, PackTypeOK
<1>21. \A m \in Converted : packFiles'[m] = packFiles[m] \/ FromDraft(m, packFiles'[m]) BY <1>6, <1>8
<1>22. now.at # "save" BY <1>4, <1>10
<1>23. now.at \in {"slides", "poster", "record"} => \A m \in Converted : FromDraft(m, now.out[m])
  BY <1>4, <1>6
<1>24. \A m \in Written(now.at) : FromDraft(m, packFiles'[m]) BY <1>4, <1>14
<1>25. packAlone' => /\ \A q \in Busy : q = p
                     /\ \A m \in Converted : now.out[m] = Wanted(m)
                     /\ \A m \in Written(now.at) : packFiles'[m] = Wanted(m)
  BY <1>4, <1>16
<1>26. RendererShape(now) BY <1>4
<1> HIDE DEF now, n, o
<1> QED BY <1>1, <1>8, <1>17, <1>19, <1>20, <1>21, <1>22, <1>23, <1>24, <1>25, <1>26, ProcessKeeps

LEMMA RecordKeeps == ASSUME PackInv, NEW p \in Renderers, Record(p) PROVE PackInv'
<1> DEFINE date == IF packSidecar.at # 0 THEN packSidecar.at ELSE packDate
           s == [at |-> date, record |-> packFiles]
           now == [at |-> "save", sidecar |-> s]
<1>1. /\ renderers[p].at = "record" /\ Step(p, now)
      /\ UNCHANGED <<packRows, packSources, packFiles, packSidecar, packDate, packAnswer, packAlone>>
  BY DEF Record
<1>2. now.at = "save" /\ now.sidecar = s /\ RendererShape(now) BY DEF RendererShape
<1>3. s.at = date /\ s.record = packFiles OBVIOUS
<1>4. packDate \in Nat /\ packDate > 0 /\ packSidecar.at \in 0..packDate
  BY DEF PackInv, PackTypeOK, SidecarOK
<1>5. date \in 1..packDate BY <1>4
<1>6. RendererHolds(renderers[p]) BY DEF PackInv
<1>7. \A m \in Converted : FromDraft(m, packFiles[m]) BY <1>1, <1>6, WrittenFacts DEF RendererHolds
<1> HIDE DEF date
<1>8. SidecarOK(s) /\ s.at # 0 BY <1>3, <1>4, <1>5, <1>7 DEF SidecarOK
<1>9. p \in Busy BY <1>1 DEF Busy
<1>10. packAlone' => /\ \A q \in Busy : q = p
                     /\ \A m \in Written(now.at) : packFiles'[m] = Wanted(m)
                     /\ \A m \in Converted : now.sidecar.record[m] = packFiles'[m]
  BY <1>1, <1>2, <1>3, <1>9, WrittenFacts DEF PackInv, RendererAlone
<1>11. renderers'[p] = now
  <2>1. renderers = [q \in Renderers |-> renderers[q]] BY DEF PackInv, PackTypeOK
  <2> QED BY <1>1, <2>1 DEF Step
<1>12. RunMaterializes'
  <2>1. Busy' # {} BY <1>2, <1>11 DEF Busy
  <2> QED BY <2>1 DEF RunMaterializes
<1>13. packFiles' = [m \in Converted |-> packFiles'[m]] /\ \A m \in Converted : packFiles'[m] = packFiles[m]
  BY <1>1 DEF PackInv, PackTypeOK
<1>14. SidecarOK(packSidecar') /\ packAlone' \in BOOLEAN BY <1>1 DEF PackInv, PackTypeOK
<1> HIDE DEF now, s
<1> QED BY <1>1, <1>2, <1>8, <1>10, <1>12, <1>13, <1>14, ProcessKeeps

\* A process that has nothing left to do.
LEMMA WaitingFacts == Waiting.at = "idle" /\ RendererShape(Waiting) /\ Written(Waiting.at) = {}
BY WrittenFacts DEF Waiting, RendererShape

LEMMA SaveSidecarKeeps == ASSUME PackInv, NEW p \in Renderers, SaveSidecar(p) PROVE PackInv'
<1> DEFINE s == renderers[p].sidecar
<1>1. /\ renderers[p].at = "save" /\ Step(p, Waiting) /\ packSidecar' = s
      /\ UNCHANGED <<packRows, packSources, packFiles, packDate, packAnswer, packAlone>>
  BY DEF SaveSidecar
<1>2. RendererHolds(renderers[p]) BY DEF PackInv
<1>3. SidecarOK(packSidecar') /\ packSidecar'.at # 0 BY <1>1, <1>2 DEF RendererHolds
<1>4. p \in Busy BY <1>1 DEF Busy
<1>5. ASSUME packAlone'
      PROVE  /\ \A q \in Busy : q = p
             /\ \A m \in Converted : packFiles'[m] = Wanted(m) /\ packSidecar'.record[m] = packFiles'[m]
  <2>1. RendererAlone(renderers[p]) /\ \A q \in Busy : q = p BY <1>1, <1>4, <1>5 DEF PackInv
  <2> QED BY <1>1, <2>1, WrittenFacts DEF RendererAlone
<1>6. RunMaterializes'
  <2>1. SUFFICES ASSUME packAlone', NEW m \in Converted
                 PROVE  IsMaterialized(m)' /\ (packFiles[m] = Rendered(m, Chosen(m).sha))'
    BY DEF RunMaterializes
  <2>2. packFiles'[m] = Wanted(m) /\ packSidecar'.record[m] = packFiles'[m] BY <1>5, <2>1
  <2>3. Wanted(m).of # "none" BY DEF Wanted, Rendered, Converted
  <2>4. packFiles'[m] # NoFile BY <2>2, <2>3 DEF NoFile
  <2>5. IsMaterialized(m)' BY <1>3, <2>2, <2>4 DEF IsMaterialized, NoFile
  <2>6. Wanted(m)' = Wanted(m) BY <1>1, WantedStays
  <2> QED BY <2>2, <2>5, <2>6 DEF Wanted
<1>7. packFiles' = [m \in Converted |-> packFiles'[m]] /\ \A m \in Converted : packFiles'[m] = packFiles[m]
  BY <1>1 DEF PackInv, PackTypeOK
<1>8. packAlone' \in BOOLEAN BY <1>1 DEF PackInv, PackTypeOK
<1> QED BY <1>1, <1>3, <1>5, <1>6, <1>7, <1>8, WaitingFacts, ProcessKeeps

LEMMA PackDieKeeps == ASSUME PackInv, NEW p \in Renderers, PackDie(p) PROVE PackInv'
<1>1. /\ Step(p, Waiting) /\ ~packAlone' /\ packAlone' \in BOOLEAN
      /\ UNCHANGED <<packRows, packSources, packFiles, packSidecar, packDate, packAnswer>>
  BY DEF PackDie
<1>2. RunMaterializes' BY <1>1 DEF RunMaterializes
<1>3. packFiles' = [m \in Converted |-> packFiles'[m]] /\ \A m \in Converted : packFiles'[m] = packFiles[m]
  BY <1>1 DEF PackInv, PackTypeOK
<1>4. SidecarOK(packSidecar') BY <1>1 DEF PackInv
<1> QED BY <1>1, <1>2, <1>3, <1>4, WaitingFacts, ProcessKeeps

\* What the server says of a modality whose source is there.
LEMMA PayloadIsLedgered ==
    ASSUME PackInv, NEW m, NEW dated \in 0..packDate,
           m \in {"document", "slides", "poster", "image", "music"}, NeedsSource(m) => HasSource(m)
    PROVE  LET i == Payload(m, dated) IN
             /\ i.modality = m
             /\ i.status \in {"delivered", "converted"} /\ NeedsSource(m) =>
                  i.bytes.of = m /\ i.bytes.draft \in Ledgered(m)
             /\ m \in Converted => i.status \in {"blocked", "converted"}
             /\ i.status = "converted" => i.date \in 1..packDate
             /\ ~NeedsSource(m) => i.status = "blocked"
             /\ m = "document" => i.status = "delivered"
             /\ m \in Converted /\ IsMaterialized(m) /\ dated # 0 => i.status = "converted"
<1> DEFINE i == Payload(m, dated)
<1>1. packRows \in Seq(PackRow) /\ packDate \in Nat BY DEF PackInv, PackTypeOK
<1>2. \A t, d : Rendered(t, d).of = t /\ Rendered(t, d).draft = d BY DEF Rendered
<1>3. Blocked(m).modality = m /\ Blocked(m).status = "blocked" BY DEF Blocked
<1>4. CASE m = "document"
  <2>1. i = [modality |-> m, status |-> "delivered", url |-> TRUE, bytes |-> Rendered(m, Chosen(m).sha)]
    BY <1>4 DEF Payload, Converted
  <2>2. NeedsSource(m) BY <1>4 DEF NeedsSource
  <2>3. Chosen(m).sha \in Ledgered(m) BY <1>1, <2>2, SourceIsLedgered
  <2> HIDE DEF i
  <2>4. i.modality = m /\ i.status = "delivered" /\ i.bytes = Rendered(m, Chosen(m).sha) BY <2>1
  <2> QED BY <1>2, <1>4, <2>2, <2>3, <2>4 DEF i, Converted
<1>5. CASE m \in Converted /\ IsMaterialized(m) /\ dated # 0
  <2>0. m # "document" BY <1>5 DEF Converted
  <2>1. i = [modality |-> m, status |-> "converted", bytes |-> packFiles[m], url |-> TRUE,
             date |-> dated, source |-> Chosen(m).sha]
    BY <1>5, <2>0 DEF Payload, Converted
  <2>2. FromDraft(m, packFiles[m]) BY <1>5 DEF PackInv, SidecarOK, IsMaterialized
  <2>3. packFiles[m].of = m /\ packFiles[m].draft \in Ledgered(m) BY <1>2, <2>2 DEF FromDraft
  <2>4. dated \in 1..packDate BY <1>1, <1>5
  <2>5. NeedsSource(m) BY <1>5 DEF NeedsSource
  <2> HIDE DEF i
  <2>6. i.modality = m /\ i.status = "converted" /\ i.bytes = packFiles[m] /\ i.date = dated BY <2>1
  <2> QED BY <1>5, <2>0, <2>3, <2>4, <2>5, <2>6 DEF i
<1>6. CASE m # "document" /\ ~(m \in Converted /\ IsMaterialized(m) /\ dated # 0)
  <2>1. i.modality = m /\ i.status = "blocked"
    <3>1. CASE m = "image" /\ packLoose # {}
      <4> DEFINE u == Rendered(m, CHOOSE k \in packLoose : \A j \in packLoose : j <= k)
      <4>1. m \notin Converted BY <3>1 DEF Converted
      <4>2. i = [Blocked(m) EXCEPT !.url = TRUE, !.bytes = u] BY <1>6, <3>1, <4>1 DEF Payload, Converted
      <4> HIDE DEF u, i
      <4>3. i.modality = Blocked(m).modality /\ i.status = Blocked(m).status BY <4>2 DEF Blocked
      <4> QED BY <1>3, <4>3
    <3>2. CASE ~(m = "image" /\ packLoose # {})
      <4>1. i = Blocked(m) BY <1>6, <3>2 DEF Payload, Converted
      <4> QED BY <1>3, <4>1
    <3> QED BY <3>1, <3>2
  <2> HIDE DEF i
  <2> QED BY <1>6, <2>1 DEF i
<1> QED BY <1>4, <1>5, <1>6

\* A payload has a status, a modality and the bytes.
LEMMA FieldsOfPayload ==
    ASSUME NEW m, NEW dated, m \in {"document", "slides", "poster", "image", "music"}
    PROVE  LET i == Payload(m, dated) r == [i EXCEPT !.status = "file"] IN
             r.modality = i.modality /\ r.bytes = i.bytes /\ r.status = "file"
<1> DEFINE i == Payload(m, dated)
<1>1. i = [d \in DOMAIN i |-> i[d]] /\ {"status", "modality", "bytes"} \subseteq DOMAIN i
  <2>1. CASE m = "document" BY <2>1 DEF Payload, Converted
  <2>2. CASE m \in Converted /\ IsMaterialized(m) /\ dated # 0
    <3>1. m # "document" BY <2>2 DEF Converted
    <3> QED BY <2>2, <3>1 DEF Payload, Converted
  <2>3. CASE m # "document" /\ ~(m \in Converted /\ IsMaterialized(m) /\ dated # 0)
    <3>1. Blocked(m) = [modality |-> m, status |-> "blocked", bytes |-> NoFile, url |-> FALSE] BY DEF Blocked
    <3>2. CASE m = "image" /\ packLoose # {}
      <4> DEFINE u == Rendered(m, CHOOSE k \in packLoose : \A j \in packLoose : j <= k)
      <4>1. m \notin Converted BY <3>2 DEF Converted
      <4>2. i = [Blocked(m) EXCEPT !.url = TRUE, !.bytes = u] BY <2>3, <3>2, <4>1 DEF Payload, Converted
      <4> HIDE DEF u, i
      <4>3. i = [modality |-> m, status |-> "blocked", bytes |-> u, url |-> TRUE] BY <4>2 DEF Blocked
      <4> QED BY <4>3 DEF i
    <3>3. CASE ~(m = "image" /\ packLoose # {})
      <4>1. i = Blocked(m) BY <2>3, <3>3 DEF Payload, Converted
      <4> HIDE DEF i
      <4> QED BY <3>1, <4>1 DEF i
    <3> QED BY <3>2, <3>3
  <2> QED BY <2>1, <2>2, <2>3
<1> HIDE DEF i
<1> QED BY <1>1 DEF i

\* A record that the server makes of a payload.
LEMMA ItemSaid ==
    ASSUME UNCHANGED <<packRows, packDate>>,
           LET i == packAnswer'.item IN
             /\ i.status \in {"delivered", "converted", "file"} /\ NeedsSource(i.modality) =>
                  i.bytes.of = i.modality /\ i.bytes.draft \in Ledgered(i.modality)
             /\ i.status = "converted" => i.date \in 1..packDate
             /\ ~NeedsSource(i.modality) => i.status \in {"blocked", "file"}
    PROVE  DeliveredIsLedgered'
BY DEF DeliveredIsLedgered, Ledgered

LEMMA QuietSaid ==
    /\ Quiet = [at |-> 0, dated |-> 0, item |-> Blocked("music")]
    /\ Blocked("music").status = "blocked" /\ Blocked("music").modality = "music"
BY DEF Quiet, Blocked

LEMMA ReportKeeps == ASSUME PackInv, Report PROVE PackInv'
<1>1. /\ packAnswer' = [at |-> 1, dated |-> packSidecar.at, item |-> Blocked("music")]
      /\ UNCHANGED <<packRows, packSources, packFiles, packSidecar, renderers, packAlone, packDate>>
  BY DEF Report
<1>2. packDate \in Nat /\ packSidecar.at \in 0..packDate BY DEF PackInv, PackTypeOK, SidecarOK
<1>3. DeliveredIsLedgered' BY <1>1, QuietSaid, ItemSaid
<1>4. packAnswer'.at \in 0..5 /\ packAnswer'.dated \in 0..packDate BY <1>1, <1>2
<1>5. packAnswer' = [at |-> packAnswer'.at, dated |-> packAnswer'.dated, item |-> packAnswer'.item] BY <1>1
<1>6. packDate' >= packDate /\ packDate' \in Nat BY <1>1, <1>2
<1> QED BY <1>1, <1>3, <1>4, <1>5, <1>6, ServerKeeps

\* The server falls silent.
LEMMA QuietKeeps ==
    ASSUME PackInv, packAnswer' = Quiet,
           UNCHANGED <<packRows, packSources, packFiles, packSidecar, renderers, packAlone, packDate>>
    PROVE  PackInv'
<1>1. packDate \in Nat BY DEF PackInv, PackTypeOK
<1>2. packAnswer' = [at |-> 0, dated |-> 0, item |-> Blocked("music")] BY QuietSaid
<1>3. DeliveredIsLedgered' BY <1>2, QuietSaid, ItemSaid
<1>4. packAnswer'.at \in 0..5 /\ packAnswer'.dated \in 0..packDate BY <1>1, <1>2
<1>5. packAnswer' = [at |-> packAnswer'.at, dated |-> packAnswer'.dated, item |-> packAnswer'.item] BY <1>2
<1>6. packDate' >= packDate /\ packDate' \in Nat BY <1>1
<1> QED BY <1>3, <1>4, <1>5, <1>6, ServerKeeps

LEMMA ItemKeeps == ASSUME PackInv, Item PROVE PackInv'
<1> DEFINE m == Planned[packAnswer.at]
<1>1. /\ packAnswer.at # 0
      /\ UNCHANGED <<packRows, packSources, packFiles, packSidecar, renderers, packAlone, packDate>>
      /\ packAnswer' = IF NeedsSource(m) /\ ~HasSource(m) THEN Quiet
                       ELSE [packAnswer EXCEPT !.item = Payload(m, packAnswer.dated),
                                               !.at = IF packAnswer.at = Len(Planned) THEN 0 ELSE packAnswer.at + 1]
  BY DEF Item
<1>2. /\ packDate \in Nat /\ packAnswer.dated \in 0..packDate /\ packAnswer.at \in 1..5
      /\ packAnswer = [at |-> packAnswer.at, dated |-> packAnswer.dated, item |-> packAnswer.item]
  BY <1>1 DEF PackInv, PackTypeOK
<1>3. m \in {"document", "slides", "poster", "image", "music"} /\ Len(Planned) = 5
  BY <1>2 DEF Planned
<1> HIDE DEF m
<1>4. CASE NeedsSource(m) /\ ~HasSource(m) BY <1>1, <1>4, QuietKeeps
<1>5. CASE ~(NeedsSource(m) /\ ~HasSource(m))
  <2>1. PICK i : i = Payload(m, packAnswer.dated) OBVIOUS
  <2>2. PICK n \in 0..5 : n = IF packAnswer.at = Len(Planned) THEN 0 ELSE packAnswer.at + 1 BY <1>2, <1>3
  <2>3. packAnswer' = [packAnswer EXCEPT !.item = i, !.at = n] BY <1>1, <1>5, <2>1, <2>2
  <2>4. packAnswer' = [at |-> n, dated |-> packAnswer.dated, item |-> i] BY <1>2, <2>3
  <2>5. /\ i.modality = m
        /\ i.status \in {"delivered", "converted"} /\ NeedsSource(m) =>
             i.bytes.of = m /\ i.bytes.draft \in Ledgered(m)
        /\ m \in Converted => i.status \in {"blocked", "converted"}
        /\ i.status = "converted" => i.date \in 1..packDate
        /\ ~NeedsSource(m) => i.status = "blocked"
        /\ m = "document" => i.status = "delivered"
    BY <1>2, <1>3, <1>5, <2>1, PayloadIsLedgered
  <2>6. NeedsSource(m) => m \in Converted \/ m = "document" BY DEF NeedsSource
  <2>7. DeliveredIsLedgered'
    <3>1. packAnswer'.item = i BY <2>4
    <3>2. m \in Converted => i.status \in {"blocked", "converted"} /\ NeedsSource(m)
      BY <2>5 DEF NeedsSource
    <3> QED BY <1>1, <2>5, <2>6, <3>1, <3>2, ItemSaid
  <2>8. packAnswer'.at \in 0..5 /\ packAnswer'.dated \in 0..packDate BY <1>2, <2>4
  <2>9. packAnswer' = [at |-> packAnswer'.at, dated |-> packAnswer'.dated, item |-> packAnswer'.item] BY <2>4
  <2>10. packDate' >= packDate /\ packDate' \in Nat BY <1>1, <1>2
  <2> QED BY <1>1, <2>7, <2>8, <2>9, <2>10, ServerKeeps
<1> QED BY <1>4, <1>5

LEMMA FetchKeeps == ASSUME PackInv, Fetch PROVE PackInv'
<1>1. PICK m \in {"document", "slides", "poster", "image"} :
        packAnswer' = IF Refused(m) THEN Quiet
                      ELSE [Quiet EXCEPT !.item = [Payload(m, packSidecar.at) EXCEPT !.status = "file"]]
  BY DEF Fetch
<1>2. UNCHANGED <<packRows, packSources, packFiles, packSidecar, renderers, packAlone, packDate>> BY DEF Fetch
<1>3. CASE Refused(m) BY <1>1, <1>2, <1>3, QuietKeeps
<1>4. CASE ~Refused(m)
  <2>1. packDate \in Nat /\ packSidecar.at \in 0..packDate BY DEF PackInv, PackTypeOK, SidecarOK
  <2>2. PICK i : i = Payload(m, packSidecar.at) OBVIOUS
  <2>3. /\ NeedsSource(m) => HasSource(m)
        /\ m \in Converted => IsMaterialized(m) /\ packSidecar.at # 0
    BY <1>4 DEF Refused, IsMaterialized
  <2>4. m \in {"document", "slides", "poster", "image", "music"} BY <1>1
  <2>5. /\ i.modality = m
        /\ i.status \in {"delivered", "converted"} /\ NeedsSource(m) =>
             i.bytes.of = m /\ i.bytes.draft \in Ledgered(m)
        /\ m = "document" => i.status = "delivered"
        /\ m \in Converted => i.status = "converted"
    BY <2>1, <2>2, <2>3, <2>4, PayloadIsLedgered
  <2>6. PICK r : r = [i EXCEPT !.status = "file"] OBVIOUS
  <2>7. packAnswer' = [at |-> 0, dated |-> 0, item |-> r] BY <1>1, <1>4, <2>2, <2>6 DEF Quiet
  <2>8. r.modality = i.modality /\ (NeedsSource(m) => r.bytes = i.bytes) /\ r.status = "file"
    BY <2>1, <2>2, <2>3, <2>4, <2>6, FieldsOfPayload
  <2>9. NeedsSource(m) => m \in Converted \/ m = "document" BY DEF NeedsSource
  <2>10. DeliveredIsLedgered' BY <1>2, <2>5, <2>7, <2>8, <2>9, ItemSaid
  <2>11. packAnswer'.at \in 0..5 /\ packAnswer'.dated \in 0..packDate BY <2>1, <2>7
  <2>12. packAnswer' = [at |-> packAnswer'.at, dated |-> packAnswer'.dated, item |-> packAnswer'.item] BY <2>7
  <2>13. packDate' >= packDate /\ packDate' \in Nat BY <1>2, <2>1
  <2> QED BY <1>2, <2>10, <2>11, <2>12, <2>13, ServerKeeps
<1> QED BY <1>3, <1>4

\* What the rest of the panel and its users do ends the calm, and takes no row away.
LEMMA OutsideKeeps ==
    ASSUME PackInv, UNCHANGED <<packSidecar, renderers, packDate, packAnswer>>, packAlone' = FALSE,
           packRows' = packRows \/ \E row \in PackRow : packRows' = Append(packRows, row),
           packFiles' = [m \in Converted |-> packFiles'[m]], packFiles' = packFiles \/ Busy = {}
    PROVE  PackInv'
<1>1. PackTypeOK BY DEF PackInv
<1>2. packRows \in Seq(PackRow) /\ packDate \in Nat /\ packDate > 0 BY <1>1 DEF PackTypeOK
<1>3. /\ packRows' \in Seq(PackRow)
      /\ \A m, f : FromDraft(m, f) => FromDraft(m, f)'
      /\ \A s : SidecarOK(s) => SidecarOK(s)'
  BY <1>2, LedgerGrows
<1>4. PackTypeOK' BY <1>1, <1>3 DEF PackTypeOK
<1>5. SidecarOK(packSidecar)' BY <1>3 DEF PackInv
<1>6. DeliveredIsLedgered' BY <1>2, SaidStays
<1>7. RunMaterializes' BY DEF RunMaterializes
<1>8. ASSUME NEW p \in Renderers PROVE RendererHolds(renderers[p])'
  <2>1. RendererHolds(renderers[p]) BY DEF PackInv
  <2>2. CASE packFiles' = packFiles BY <1>3, <2>1, <2>2 DEF RendererHolds
  <2>3. CASE Busy = {}
    <3>1. renderers'[p].at = "idle" BY <2>3 DEF Busy
    <3> QED BY <3>1 DEF RendererHolds
  <2> QED BY <2>2, <2>3
<1> QED BY <1>4, <1>5, <1>6, <1>7, <1>8 DEF PackInv

LEMMA ProduceKeeps == ASSUME PackInv, Produce PROVE PackInv'
<1>1. PICK m \in Converted, d \in Drafts :
        packRows' = Append(packRows, [modality |-> m, file |-> Len(packRows) + 1, sha |-> d])
  BY DEF Produce
<1>2. packRows \in Seq(PackRow) BY DEF PackInv, PackTypeOK
<1>3. PICK n \in Nat : n = Len(packRows) + 1 BY <1>2
<1>4. [modality |-> m, file |-> n, sha |-> d] \in PackRow BY DEF PackRow, Converted
<1>5. \E row \in PackRow : packRows' = Append(packRows, row) BY <1>1, <1>3, <1>4
<1>6. packFiles' = [x \in Converted |-> packFiles'[x]] BY DEF Produce, PackInv, PackTypeOK
<1> QED BY <1>5, <1>6, OutsideKeeps DEF Produce

LEMMA ChangeKeeps == ASSUME PackInv, Change PROVE PackInv'
<1>1. packFiles = [m \in Converted |-> packFiles[m]] BY DEF PackInv, PackTypeOK
<1>2. packFiles' = [m \in Converted |-> packFiles'[m]]
  <2>1. CASE UNCHANGED packFiles BY <1>1, <2>1
  <2>2. ASSUME NEW k \in Converted, packFiles' = [packFiles EXCEPT ![k] = Rendered(k, "changed")]
        PROVE  packFiles' = [m \in Converted |-> packFiles'[m]]
    BY <1>1, <2>2
  <2> QED BY <2>1, <2>2 DEF Change
<1> QED BY <1>2, OutsideKeeps DEF Change

LEMMA AroundKeeps == ASSUME PackInv, Spill \/ PackTick PROVE PackInv'
<1>1. /\ UNCHANGED <<packRows, packSources, packFiles, packSidecar, renderers, packAlone, packAnswer>>
      /\ packDate' = packDate \/ packDate' = packDate + 1
  BY DEF Spill, PackTick
<1>2. /\ packDate \in Nat /\ packAnswer.at \in 0..5 /\ packAnswer.dated \in 0..packDate
      /\ packAnswer = [at |-> packAnswer.at, dated |-> packAnswer.dated, item |-> packAnswer.item]
  BY DEF PackInv, PackTypeOK
<1>3. packDate' \in Nat /\ packDate' >= packDate BY <1>1, <1>2
<1>4. DeliveredIsLedgered' BY <1>1, <1>3, SaidStays
<1>5. packAnswer'.at \in 0..5 /\ packAnswer'.dated \in 0..packDate BY <1>1, <1>2
<1>6. packAnswer' = [at |-> packAnswer'.at, dated |-> packAnswer'.dated, item |-> packAnswer'.item] BY <1>1, <1>2
<1> QED BY <1>1, <1>3, <1>4, <1>5, <1>6, ServerKeeps

LEMMA PackInvInit == PackInit => PackInv
<1> SUFFICES ASSUME PackInit PROVE PackInv
  OBVIOUS
<1>1. /\ packRows = FirstRows /\ packFiles = [m \in Converted |-> NoFile] /\ packSidecar = NoSidecar
      /\ renderers = [p \in Renderers |-> Waiting] /\ packDate = 1
      /\ packAnswer = [at |-> 0, dated |-> 0, item |-> Blocked("music")] /\ packAlone = FALSE
  BY QuietSaid DEF PackInit
<1>2. packRows \in Seq(PackRow) BY <1>1, DeliverableAssumption DEF PackRow
<1>3. /\ packFiles = [m \in Converted |-> packFiles[m]] /\ renderers = [p \in Renderers |-> renderers[p]]
      /\ \A p \in Renderers : renderers[p] = Waiting
  BY <1>1
<1>4. PackTypeOK
  <2>1. \A p \in Renderers : RendererShape(renderers[p]) BY <1>3, WaitingFacts
  <2>2. /\ packAnswer = [at |-> packAnswer.at, dated |-> packAnswer.dated, item |-> packAnswer.item]
        /\ packAnswer.at = 0 /\ packAnswer.dated = 0
    BY <1>1
  <2>3. packAlone \in BOOLEAN BY <1>1
  <2>4. packDate = 1 BY <1>1
  <2>5. packDate \in Nat /\ packDate > 0 /\ 0 \in 0..packDate BY <2>4
  <2> QED BY <1>2, <1>3, <2>1, <2>2, <2>3, <2>5 DEF PackTypeOK
<1>5. packSidecar.at = 0 /\ \A m \in Converted : packSidecar.record[m] = NoFile BY <1>1 DEF NoSidecar
<1>6. SidecarOK(packSidecar) BY <1>1, <1>5 DEF SidecarOK
<1>7. DeliveredIsLedgered BY <1>1, QuietSaid DEF DeliveredIsLedgered
<1>8. RunMaterializes BY <1>1 DEF RunMaterializes
<1>9. \A p \in Renderers : RendererHolds(renderers[p]) BY <1>3, WaitingFacts DEF RendererHolds
<1> QED BY <1>1, <1>4, <1>6, <1>7, <1>8, <1>9 DEF PackInv

\* The panel claims no delivery that the ledger does not warrant, and a run of the
\* command that nothing disturbs makes the two conversions (materialize_deliverable,
\* _converted_payload, _resolve_download), for any number of processes, drafts and rows.
THEOREM PackStaysHonest == PackSpec => []PackHolds
<1>1. ASSUME PackInv, [PackNext]_packVars PROVE PackInv'
  <2>1. CASE UNCHANGED packVars
    <3>1. UNCHANGED <<packRows, packSources, packFiles, packSidecar, renderers, packAlone, packAnswer, packDate>>
      BY <2>1 DEF packVars
    <3>2. /\ packDate \in Nat /\ packAnswer.at \in 0..5 /\ packAnswer.dated \in 0..packDate
          /\ packAnswer = [at |-> packAnswer.at, dated |-> packAnswer.dated, item |-> packAnswer.item]
      BY <1>1 DEF PackInv, PackTypeOK
    <3>3. packDate' \in Nat /\ packDate' >= packDate BY <3>1, <3>2
    <3>4. DeliveredIsLedgered' BY <1>1, <3>1, <3>3, SaidStays
    <3>5. packAnswer'.at \in 0..5 /\ packAnswer'.dated \in 0..packDate BY <3>1, <3>2
    <3>6. packAnswer' = [at |-> packAnswer'.at, dated |-> packAnswer'.dated, item |-> packAnswer'.item]
      BY <3>1, <3>2
    <3> QED BY <1>1, <3>1, <3>3, <3>4, <3>5, <3>6, ServerKeeps
  <2>2. ASSUME NEW p \in Renderers, Render(p) \/ WriteFile(p) \/ Record(p) \/ SaveSidecar(p) \/ PackDie(p)
        PROVE  PackInv'
    BY <1>1, <2>2, RenderKeeps, WriteFileKeeps, RecordKeeps, SaveSidecarKeeps, PackDieKeeps
  <2>3. CASE Report BY <1>1, <2>3, ReportKeeps
  <2>4. CASE Item BY <1>1, <2>4, ItemKeeps
  <2>5. CASE Fetch BY <1>1, <2>5, FetchKeeps
  <2>6. CASE Produce BY <1>1, <2>6, ProduceKeeps
  <2>7. CASE Change BY <1>1, <2>7, ChangeKeeps
  <2>8. CASE Spill \/ PackTick BY <1>1, <2>8, AroundKeeps
  <2> QED BY <1>1, <2>1, <2>2, <2>3, <2>4, <2>5, <2>6, <2>7, <2>8 DEF PackNext
<1>2. PackInv => PackHolds BY DEF PackInv, PackHolds
<1> QED BY <1>1, <1>2, PackInvInit, PTL DEF PackSpec

-----------------------------------------------------------------------------
(* AttachmentStore: the rows of an index, the parts quoted of them, and    *)
(* the inductive invariant.                                                *)


LEMMA HasLeast ==
    ASSUME NEW S, S \subseteq Nat, S # {}
    PROVE  \E m \in S : \A k \in S : m <= k
  <1> DEFINE R == OpToRel(<, Nat)
  <1>1. \A x, y \in Nat : <<x, y>> \in R <=> x < y
    BY DEF OpToRel
  <1>2. IsWellFoundedOn(R, Nat)
    BY NatLessThanWellFounded
  <1> HIDE DEF R
  <1>3. PICK m \in S : \A k \in S : ~ <<k, m>> \in R
    BY <1>2, WFMin
  <1>4. ASSUME NEW k \in S PROVE m <= k
    <2>1. k \in Nat /\ m \in Nat
      OBVIOUS
    <2>2. ~(k < m)
      BY <1>1, <1>3, <2>1
    <2> QED
      BY <2>1, <2>2
  <1> QED
    BY <1>4

Entry == [id : Nat, body : Uploads]
IdsOf(s) == {s[k].id : k \in 1..Len(s)}
Single(s) == \A i, j \in 1..Len(s) : s[i].id = s[j].id => i = j

-----------------------------------------------------------------------------
(* The rows that remain of an index.                                       *)

\* One step of the count.
Rests(f, m) ==
    f = [k \in 0..m |-> IF k = 0 THEN <<>>
                        ELSE IF attIndex[k].id = attJob.id THEN f[k - 1] ELSE Append(f[k - 1], attIndex[k])]

LEMMA RestsExist ==
    ASSUME attIndex \in Seq(Entry)
    PROVE  \E f : Rests(f, Len(attIndex))
<1> DEFINE T == {k \in 0..Len(attIndex) : ~\E f : Rests(f, k)}
<1>0. Len(attIndex) \in Nat
  OBVIOUS
<1>1. SUFFICES ASSUME T # {} PROVE FALSE
  BY <1>0
<1>2. PICK m \in T : \A k \in T : m <= k
  <2>1. T \subseteq Nat
    BY <1>0
  <2> HIDE DEF T
  <2> QED
    BY <1>1, <2>1, HasLeast
<1>3. m \in 0..Len(attIndex) /\ ~\E f : Rests(f, m)
  OBVIOUS
<1>4. m # 0
  <2>1. SUFFICES ASSUME m = 0 PROVE FALSE
    OBVIOUS
  <2>2. PICK f : f = [k \in 0..0 |-> <<>>]
    OBVIOUS
  <2>3. Rests(f, 0)
    BY <2>2 DEF Rests
  <2> QED
    BY <1>3, <2>1, <2>3
<1>5. m - 1 \in 0..Len(attIndex) /\ m - 1 \notin T
  <2>1. m - 1 \in 0..Len(attIndex) /\ ~(m <= m - 1)
    BY <1>0, <1>3, <1>4
  <2> HIDE DEF T
  <2> QED
    BY <1>2, <2>1
<1>6. PICK g : Rests(g, m - 1)
  BY <1>5
<1>7. PICK h : h = [k \in 0..m |-> IF k < m THEN g[k]
                                   ELSE IF attIndex[m].id = attJob.id THEN g[m - 1] ELSE Append(g[m - 1], attIndex[m])]
  OBVIOUS
<1>8. ASSUME NEW k \in 0..m
      PROVE  h[k] = IF k = 0 THEN <<>>
                    ELSE IF attIndex[k].id = attJob.id THEN h[k - 1] ELSE Append(h[k - 1], attIndex[k])
  <2>1. CASE k < m
    <3>1. k \in 0..(m - 1) /\ (k # 0 => k - 1 \in 0..m /\ k - 1 < m)
      BY <1>0, <1>3, <2>1
    <3>2. h[k] = g[k] /\ (k # 0 => h[k - 1] = g[k - 1])
      BY <1>7, <2>1, <3>1
    <3> QED
      BY <1>6, <3>1, <3>2 DEF Rests
  <2>2. CASE k = m
    <3>1. m - 1 \in 0..m /\ m - 1 < m /\ ~(m < m)
      BY <1>0, <1>3, <1>4
    <3>2. h[m - 1] = g[m - 1]
      BY <1>7, <3>1
    <3>3. h[m] = IF attIndex[m].id = attJob.id THEN g[m - 1] ELSE Append(g[m - 1], attIndex[m])
      BY <1>7, <2>2, <3>1
    <3> QED
      BY <1>4, <2>2, <3>2, <3>3
  <2> QED
    BY <1>0, <1>3, <2>1, <2>2
<1>9. Rests(h, m)
  BY <1>7, <1>8 DEF Rests
<1> QED
  BY <1>3, <1>9

\* A part of the index without the id.
RestOf(r, k) ==
    /\ r \in Seq(Entry) /\ Len(r) <= k
    /\ \A j \in 1..Len(r) : \E i \in 1..k : attIndex[i] = r[j] /\ r[j].id # attJob.id
    /\ \A i \in 1..k : attIndex[i].id # attJob.id => \E j \in 1..Len(r) : r[j] = attIndex[i]
    /\ Single(r)

LEMMA RestGrows ==
    ASSUME attIndex \in Seq(Entry), Single(attIndex), NEW m \in 1..Len(attIndex), NEW r, RestOf(r, m - 1)
    PROVE  /\ attIndex[m].id = attJob.id => RestOf(r, m)
           /\ attIndex[m].id # attJob.id => RestOf(Append(r, attIndex[m]), m)
<1>0. /\ Len(attIndex) \in Nat /\ m \in Nat /\ m - 1 \in Nat /\ attIndex[m] \in Entry
      /\ r \in Seq(Entry) /\ Len(r) \in Nat /\ Len(r) <= m - 1
  BY DEF RestOf
<1>1. \A i \in 1..m : i \in 1..(m - 1) \/ i = m
  BY <1>0
<1>2. \A i \in 1..(m - 1) : i \in 1..m
  BY <1>0
<1>3. CASE attIndex[m].id = attJob.id
  BY <1>0, <1>1, <1>2, <1>3 DEF RestOf
<1>4. CASE attIndex[m].id # attJob.id
  <2>1. PICK e \in Entry : e = attIndex[m]
    BY <1>0
  <2>2. PICK q : q = Append(r, e)
    OBVIOUS
  <2>3. q \in Seq(Entry) /\ Len(q) = Len(r) + 1 /\ q[Len(r) + 1] = e /\ \A j \in 1..Len(r) : q[j] = r[j]
    BY <1>0, <2>2
  <2>4. \A j \in 1..Len(q) : j \in 1..Len(r) \/ j = Len(r) + 1
    BY <1>0, <2>3
  <2>5. \A j \in 1..Len(r) : j \in 1..Len(q)
    BY <1>0, <2>3
  <2>6. Len(r) + 1 \in 1..Len(q) /\ Len(q) <= m /\ m \in 1..m
    BY <1>0, <2>3
  <2>7. ASSUME NEW j \in 1..Len(q) PROVE \E i \in 1..m : attIndex[i] = q[j] /\ q[j].id # attJob.id
    <3>1. CASE j \in 1..Len(r)
      <4>1. PICK i \in 1..(m - 1) : attIndex[i] = r[j] /\ r[j].id # attJob.id
        BY <3>1 DEF RestOf
      <4> QED
        BY <1>2, <2>3, <3>1, <4>1
    <3>2. CASE j = Len(r) + 1
      BY <1>4, <2>1, <2>3, <2>6, <3>2
    <3> QED
      BY <2>4, <3>1, <3>2
  <2>8. ASSUME NEW i \in 1..m, attIndex[i].id # attJob.id PROVE \E j \in 1..Len(q) : q[j] = attIndex[i]
    <3>1. CASE i \in 1..(m - 1)
      <4>1. PICK j \in 1..Len(r) : r[j] = attIndex[i]
        BY <2>8, <3>1 DEF RestOf
      <4> QED
        BY <2>3, <2>5, <4>1
    <3>2. CASE i = m
      BY <2>1, <2>3, <2>6, <3>2
    <3> QED
      BY <1>1, <3>1, <3>2
  <2>9. ASSUME NEW j \in 1..Len(r) PROVE r[j].id # e.id
    <3>1. PICK i \in 1..(m - 1) : attIndex[i] = r[j]
      BY DEF RestOf
    <3>2. i # m /\ i \in 1..Len(attIndex)
      BY <1>0, <3>1
    <3> QED
      BY <2>1, <3>1, <3>2 DEF Single
  <2>10. Single(q)
    <3>1. ASSUME NEW i \in 1..Len(q), NEW j \in 1..Len(q), q[i].id = q[j].id PROVE i = j
      <4>1. CASE i \in 1..Len(r) /\ j \in 1..Len(r)
        BY <2>3, <3>1, <4>1 DEF Single, RestOf
      <4>2. CASE i = Len(r) + 1 \/ j = Len(r) + 1
        BY <2>3, <2>4, <2>9, <3>1, <4>2
      <4> QED
        BY <2>4, <4>1, <4>2
    <3> QED
      BY <3>1 DEF Single
  <2> QED
    BY <1>4, <2>1, <2>2, <2>3, <2>6, <2>7, <2>8, <2>10 DEF RestOf
<1> QED
  BY <1>3, <1>4

LEMMA RemainingFacts ==
    ASSUME attIndex \in Seq(Entry), Single(attIndex), NEW n, n = Len(attIndex)
    PROVE  RestOf(Remaining[n], n)
<1>0. n \in Nat
  OBVIOUS
<1>1. PICK f : Rests(f, n) /\ Remaining = f
  <2>1. PICK g : Rests(g, n)
    BY RestsExist
  <2>2. Rests(Remaining, n)
    BY <2>1 DEF Rests, Remaining
  <2> QED
    BY <2>2
<1>2. ASSUME NEW k \in 0..n
      PROVE  f[k] = IF k = 0 THEN <<>>
                    ELSE IF attIndex[k].id = attJob.id THEN f[k - 1] ELSE Append(f[k - 1], attIndex[k])
  BY <1>1 DEF Rests
<1> DEFINE T == {k \in 0..n : ~RestOf(f[k], k)}
<1>3. SUFFICES ASSUME T # {} PROVE FALSE
  <2>1. n \in 0..n
    BY <1>0
  <2> QED
    BY <1>1, <2>1
<1>4. PICK m \in T : \A k \in T : m <= k
  <2>1. T \subseteq Nat
    BY <1>0
  <2> HIDE DEF T
  <2> QED
    BY <1>3, <2>1, HasLeast
<1>5. m \in 0..n /\ ~RestOf(f[m], m)
  OBVIOUS
<1>6. m # 0
  <2>1. PICK e : e = <<>>
    OBVIOUS
  <2>2. e \in Seq(Entry) /\ Len(e) = 0 /\ 1..0 = {}
    BY <2>1
  <2>3. RestOf(e, 0)
    BY <2>2 DEF RestOf, Single
  <2>4. 0 \in 0..n
    BY <1>0
  <2>5. f[0] = e
    BY <1>2, <2>1, <2>4
  <2> QED
    BY <1>5, <2>3, <2>5
<1>7. m \in 1..n /\ m - 1 \in 0..n /\ ~(m <= m - 1)
  BY <1>0, <1>5, <1>6
<1>8. RestOf(f[m - 1], m - 1)
  <2>1. m - 1 \notin T
    <3> HIDE DEF T
    <3> QED
      BY <1>4, <1>7
  <2> QED
    BY <1>7, <2>1
<1>9. f[m] = IF attIndex[m].id = attJob.id THEN f[m - 1] ELSE Append(f[m - 1], attIndex[m])
  BY <1>2, <1>5, <1>6
<1>10. m \in 1..Len(attIndex)
  BY <1>7
<1> QED
  BY <1>5, <1>8, <1>9, <1>10, RestGrows

-----------------------------------------------------------------------------
(* What is quoted.                                                         *)

QuoteOK(q) == q.left \in Nat /\ q.of \in Seq(Nat) /\ \A k \in 1..Len(q.of) : q.of[k] <= PerText
TakenOf(row, left) == IF row.body.type = "text" THEN Readable(row.id, Least(PerText, left)) ELSE 0
QuoteStep(q, row) == [left |-> q.left - TakenOf(row, q.left), of |-> Append(q.of, TakenOf(row, q.left))]
Quotes(f, m) == f = [k \in 0..m |-> IF k = 0 THEN [left |-> AllText, of |-> <<>>] ELSE QuoteStep(f[k - 1], attIndex[k])]

BlobsTypeOK == \A i \in DOMAIN attBlobs : attBlobs[i].bytes \in Nat

LEMMA QuotesExist ==
    ASSUME attIndex \in Seq(Entry)
    PROVE  \E f : Quotes(f, Len(attIndex))
<1> DEFINE T == {k \in 0..Len(attIndex) : ~\E f : Quotes(f, k)}
<1>0. Len(attIndex) \in Nat
  OBVIOUS
<1>1. SUFFICES ASSUME T # {} PROVE FALSE
  BY <1>0
<1>2. PICK m \in T : \A k \in T : m <= k
  <2>1. T \subseteq Nat
    BY <1>0
  <2> HIDE DEF T
  <2> QED
    BY <1>1, <2>1, HasLeast
<1>3. m \in 0..Len(attIndex) /\ ~\E f : Quotes(f, m)
  OBVIOUS
<1>4. m # 0
  <2>1. SUFFICES ASSUME m = 0 PROVE FALSE
    OBVIOUS
  <2>2. PICK f : f = [k \in 0..0 |-> [left |-> AllText, of |-> <<>>]]
    OBVIOUS
  <2>3. Quotes(f, 0)
    BY <2>2 DEF Quotes
  <2> QED
    BY <1>3, <2>1, <2>3
<1>5. m - 1 \in 0..Len(attIndex) /\ m - 1 \notin T
  <2>1. m - 1 \in 0..Len(attIndex) /\ ~(m <= m - 1)
    BY <1>0, <1>3, <1>4
  <2> HIDE DEF T
  <2> QED
    BY <1>2, <2>1
<1>6. PICK g : Quotes(g, m - 1)
  BY <1>5
<1>7. PICK h : h = [k \in 0..m |-> IF k < m THEN g[k] ELSE QuoteStep(g[m - 1], attIndex[m])]
  OBVIOUS
<1>8. ASSUME NEW k \in 0..m
      PROVE  h[k] = IF k = 0 THEN [left |-> AllText, of |-> <<>>] ELSE QuoteStep(h[k - 1], attIndex[k])
  <2>1. CASE k < m
    <3>1. k \in 0..(m - 1) /\ (k # 0 => k - 1 \in 0..m /\ k - 1 < m)
      BY <1>0, <1>3, <2>1
    <3>2. h[k] = g[k] /\ (k # 0 => h[k - 1] = g[k - 1])
      BY <1>7, <2>1, <3>1
    <3> QED
      BY <1>6, <3>1, <3>2 DEF Quotes
  <2>2. CASE k = m
    <3>1. m - 1 \in 0..m /\ m - 1 < m /\ ~(m < m)
      BY <1>0, <1>3, <1>4
    <3>2. h[m - 1] = g[m - 1]
      BY <1>7, <3>1
    <3>3. h[m] = QuoteStep(g[m - 1], attIndex[m])
      BY <1>7, <2>2, <3>1
    <3> QED
      BY <1>4, <2>2, <3>2, <3>3
  <2> QED
    BY <1>0, <1>3, <2>1, <2>2
<1>9. Quotes(h, m)
  BY <1>7, <1>8 DEF Quotes
<1> QED
  BY <1>3, <1>9

\* No text is longer than it may be, or than what is left.
LEMMA TextFits ==
    ASSUME BlobsTypeOK, NEW row, NEW left \in Nat
    PROVE  TakenOf(row, left) \in Nat /\ TakenOf(row, left) <= left /\ TakenOf(row, left) <= PerText
<1>1. PerText \in Nat
  BY AttachmentAssumption
<1>2. PICK most \in Nat : most = Least(PerText, left) /\ most <= left /\ most <= PerText
  BY <1>1 DEF Least
<1>3. Readable(row.id, most) \in Nat /\ Readable(row.id, most) <= most
  BY DEF Readable, Least, BlobsTypeOK
<1> QED
  BY <1>1, <1>2, <1>3 DEF TakenOf

LEMMA QuoteGrows ==
    ASSUME BlobsTypeOK, NEW q, QuoteOK(q), NEW row
    PROVE  QuoteOK(QuoteStep(q, row))
<1>1. PICK t \in Nat : t = TakenOf(row, q.left) /\ t <= q.left /\ t <= PerText
  BY TextFits DEF QuoteOK
<1>2. PICK of \in Seq(Nat) : of = q.of /\ \A k \in 1..Len(of) : of[k] <= PerText
  BY DEF QuoteOK
<1>3. PICK new : new = Append(of, t)
  OBVIOUS
<1>4. /\ new \in Seq(Nat) /\ Len(new) = Len(of) + 1 /\ new[Len(of) + 1] = t
      /\ \A k \in 1..Len(of) : new[k] = of[k]
  BY <1>3
<1>5. \A k \in 1..Len(new) : k \in 1..Len(of) \/ k = Len(of) + 1
  BY <1>4
<1>6. q.left - t \in Nat
  BY <1>1 DEF QuoteOK
<1>7. PICK s : s = QuoteStep(q, row)
  OBVIOUS
<1>8. s.left = q.left - t /\ s.of = new
  BY <1>1, <1>2, <1>3, <1>7 DEF QuoteStep
<1> QED
  BY <1>1, <1>2, <1>4, <1>5, <1>6, <1>7, <1>8 DEF QuoteOK

LEMMA QuotedFacts ==
    ASSUME attIndex \in Seq(Entry), BlobsTypeOK, NEW n, n = Len(attIndex)
    PROVE  QuoteOK(Quoted[n])
<1>0. n \in Nat
  OBVIOUS
<1>1. PICK f : Quotes(f, n) /\ Quoted = f
  <2>1. PICK g : Quotes(g, n)
    BY QuotesExist
  <2>2. Quotes(Quoted, n)
    BY <2>1 DEF Quotes, Quoted, QuoteStep, TakenOf
  <2> QED
    BY <2>2
<1>2. ASSUME NEW k \in 0..n
      PROVE  f[k] = IF k = 0 THEN [left |-> AllText, of |-> <<>>] ELSE QuoteStep(f[k - 1], attIndex[k])
  BY <1>1 DEF Quotes
<1> DEFINE T == {k \in 0..n : ~QuoteOK(f[k])}
<1>3. SUFFICES ASSUME T # {} PROVE FALSE
  <2>1. n \in 0..n
    BY <1>0
  <2> QED
    BY <1>1, <2>1
<1>4. PICK m \in T : \A k \in T : m <= k
  <2>1. T \subseteq Nat
    BY <1>0
  <2> HIDE DEF T
  <2> QED
    BY <1>3, <2>1, HasLeast
<1>5. m \in 0..n /\ ~QuoteOK(f[m])
  OBVIOUS
<1>6. m # 0
  <2>1. PICK e : e = <<>>
    OBVIOUS
  <2>2. e \in Seq(Nat) /\ Len(e) = 0 /\ 1..0 = {} /\ AllText \in Nat
    BY <2>1, AttachmentAssumption
  <2>3. PICK q : q = [left |-> AllText, of |-> e]
    OBVIOUS
  <2>4. QuoteOK(q)
    BY <2>2, <2>3 DEF QuoteOK
  <2>5. 0 \in 0..n
    BY <1>0
  <2>6. f[0] = q
    BY <1>2, <2>1, <2>3, <2>5
  <2> QED
    BY <1>5, <2>4, <2>6
<1>7. m - 1 \in 0..n /\ ~(m <= m - 1)
  BY <1>0, <1>5, <1>6
<1>8. QuoteOK(f[m - 1])
  <2>1. m - 1 \notin T
    <3> HIDE DEF T
    <3> QED
      BY <1>4, <1>7
  <2> QED
    BY <1>7, <2>1
<1>9. f[m] = QuoteStep(f[m - 1], attIndex[m])
  BY <1>2, <1>5, <1>6
<1> QED
  BY <1>5, <1>8, <1>9, QuoteGrows

-----------------------------------------------------------------------------
(* The inductive invariant.                                                *)

Ids == IdsOf(attIndex)

\* Ids are drawn in order, and what is deleted had one.
PastOK ==
    /\ attPast = [used |-> attPast.used, faulty |-> attPast.faulty, died |-> attPast.died, deleted |-> attPast.deleted]
    /\ \E n \in Nat : attPast.used = 1..n
    /\ attPast.deleted \subseteq attPast.used /\ attPast.deleted \cap Ids = {}

IndexOK == attIndex \in Seq(Entry) /\ Single(attIndex) /\ Ids \subseteq attPast.used /\ Len(attIndex) <= MaxAttachments

BlobsOK ==
    /\ attBlobs = [i \in DOMAIN attBlobs |-> attBlobs[i]] /\ DOMAIN attBlobs \subseteq attPast.used /\ BlobsTypeOK
    /\ \A k \in 1..Len(attIndex) : attIndex[k].id \notin attPast.faulty =>
        attIndex[k].id \in DOMAIN attBlobs /\ attBlobs[attIndex[k].id] = attIndex[k].body
    /\ \A i \in DOMAIN attBlobs : i \notin attPast.faulty /\ i \notin attPast.died /\ i # attJob.id => i \in Ids

\* An upload has an id of its own; behind its first step its blob is there. A deletion
\* behind its first step has taken its row away.
UploadHolds ==
    /\ attJob = [op |-> "upload", id |-> attJob.id, todo |-> attJob.todo, body |-> attJob.body]
    /\ attJob.todo \in {UploadSteps, <<"index">>} /\ attJob.body \in Uploads
    /\ attJob.id \in attPast.used /\ attJob.id \notin Ids /\ attJob.id \notin attPast.deleted
    /\ Len(attIndex) < MaxAttachments
    /\ attJob.todo = <<"index">> /\ attJob.id \notin attPast.faulty =>
        attJob.id \in DOMAIN attBlobs /\ attBlobs[attJob.id] = attJob.body
DeleteHolds ==
    /\ attJob = [op |-> "delete", id |-> attJob.id, todo |-> attJob.todo]
    /\ attJob.todo \in {DeleteSteps, <<"unlink">>} /\ attJob.id \in attPast.used
    /\ attJob.todo = <<"unlink">> => attJob.id \notin Ids
JobHolds == attJob = NoJob \/ UploadHolds \/ DeleteHolds

AnswerHolds == attAnswer.kind = "context" => \A k \in DOMAIN attAnswer.of : attAnswer.of[k] <= PerText

AttInv == PastOK /\ IndexOK /\ BlobsOK /\ JobHolds /\ AnswerHolds

LEMMA ListedIs == ASSUME attIndex \in Seq(Entry) PROVE Listed = Ids
BY DEF Listed, Ids, IdsOf

LEMMA ListedNext == ASSUME attIndex' \in Seq(Entry) PROVE Listed' = Ids'
BY DEF Listed, Ids, IdsOf

\* The row of a listed id.
LEMMA RowIs ==
    ASSUME IndexOK, NEW k \in 1..Len(attIndex)
    PROVE  Row(attIndex[k].id) = attIndex[k]
<1>1. DOMAIN attIndex = 1..Len(attIndex)
  BY DEF IndexOK
<1>2. \A j \in 1..Len(attIndex) : attIndex[j].id = attIndex[k].id => j = k
  BY DEF IndexOK, Single
<1> QED
  BY <1>1, <1>2 DEF Row

LEMMA AttInvImplies == ASSUME AttInv PROVE AttachmentsHold
<1>1. attIndex \in Seq(Entry) /\ Listed = Ids
  BY ListedIs DEF AttInv, IndexOK
<1>2. ASSUME NEW id \in Listed \ attPast.faulty PROVE Intact(id)
  <2>1. PICK k \in 1..Len(attIndex) : attIndex[k].id = id
    BY <1>1, <1>2 DEF Ids, IdsOf
  <2>2. Row(id) = attIndex[k]
    BY <2>1, RowIs DEF AttInv
  <2> QED
    BY <1>2, <2>1, <2>2 DEF AttInv, BlobsOK, Intact
<1>3. Settled \cap DOMAIN attBlobs \subseteq Listed
  BY <1>1 DEF AttInv, BlobsOK, Settled
<1>4. attPast.deleted \cap Listed = {} /\ Len(attIndex) <= MaxAttachments
  BY <1>1 DEF AttInv, PastOK, IndexOK
<1> QED
  BY <1>2, <1>3, <1>4 DEF AttachmentsHold, AttInv, AnswerHolds

LEMMA AttBegins == ASSUME AttInit PROVE AttInv
<1>1. /\ attIndex = <<>> /\ attBlobs = [i \in {} |-> Spoilt] /\ attJob = NoJob /\ attAnswer = [kind |-> "none"]
      /\ attPast = [used |-> {}, faulty |-> {}, died |-> {}, deleted |-> {}]
  BY DEF AttInit, NoAnswer, NoPast
<1>2. PICK e : e = <<>>
  OBVIOUS
<1>3. attIndex = e /\ e \in Seq(Entry) /\ Len(e) = 0 /\ 1..0 = {}
  BY <1>1, <1>2
<1>4. Ids = {} /\ DOMAIN attBlobs = {}
  BY <1>1, <1>3 DEF Ids, IdsOf
<1>5. PastOK
  <2>1. 0 \in Nat /\ attPast.used = 1..0 /\ attPast.deleted = {}
    BY <1>1, <1>3
  <2> QED
    BY <1>1, <1>4, <2>1 DEF PastOK
<1>6. IndexOK
  <2>1. 0 <= MaxAttachments
    BY AttachmentAssumption
  <2> QED
    BY <1>3, <1>4, <2>1 DEF IndexOK, Single
<1>7. BlobsOK
  BY <1>1, <1>3, <1>4 DEF BlobsOK, BlobsTypeOK
<1> QED
  BY <1>1, <1>5, <1>6, <1>7 DEF AttInv, JobHolds, AnswerHolds

\* Steps that only answer.
LEMMA OnlyAnswers ==
    ASSUME AttInv, UNCHANGED <<attIndex, attBlobs, attJob, attPast>>, AnswerHolds'
    PROVE  AttInv'
<1>1. Ids' = Ids
  BY DEF Ids, IdsOf
<1> QED
  BY <1>1 DEF AttInv, PastOK, IndexOK, BlobsOK, BlobsTypeOK, JobHolds, UploadHolds, DeleteHolds, Single

\* An answer of one kind has no texts.
LEMMA SaidIsShort == ASSUME NEW kind, kind # "context", Says(kind) PROVE AnswerHolds'
BY DEF Says, AnswerHolds

LEMMA SameAnswer == ASSUME AttInv, UNCHANGED attAnswer PROVE AnswerHolds'
BY DEF AttInv, AnswerHolds

-----------------------------------------------------------------------------
(* The steps.                                                              *)

LEMMA RefusalIsNoContext == ASSUME NEW b PROVE Refusal(b) # "context"
BY DEF Refusal

\* The next id is new.
LEMMA DrawnIsNew ==
    ASSUME PastOK
    PROVE  Drawn \notin attPast.used /\ \E n \in Nat : attPast.used \cup {Drawn} = 1..n
<1>1. PICK n \in Nat : attPast.used = 1..n
  BY DEF PastOK
<1>2. Cardinality(1..n) = n
  BY FS_Interval
<1>3. Drawn = n + 1
  BY <1>1, <1>2 DEF Drawn
<1>4. 1..n \cup {n + 1} = 1..(n + 1)
  OBVIOUS
<1> QED
  BY <1>1, <1>3, <1>4

LEMMA UploadKeeps == ASSUME AttInv, Upload PROVE AttInv'
<1>1. attJob.op = "none" /\ UNCHANGED <<attIndex, attBlobs, attSending>>
  BY DEF Upload, Free
<1>2. PICK b \in Uploads :
        \/ Refusal(b) # "none" /\ Says(Refusal(b)) /\ UNCHANGED <<attJob, attPast>>
        \/ /\ Refusal(b) = "none" /\ UNCHANGED attAnswer
           /\ attJob' = [op |-> "upload", id |-> Drawn, todo |-> UploadSteps, body |-> b]
           /\ attPast' = [attPast EXCEPT !.used = @ \cup {Drawn}]
  BY DEF Upload
<1>3. CASE Refusal(b) # "none" /\ Says(Refusal(b)) /\ UNCHANGED <<attJob, attPast>>
  BY <1>1, <1>3, OnlyAnswers, SaidIsShort, RefusalIsNoContext
<1>4. CASE /\ Refusal(b) = "none" /\ UNCHANGED attAnswer
           /\ attJob' = [op |-> "upload", id |-> Drawn, todo |-> UploadSteps, body |-> b]
           /\ attPast' = [attPast EXCEPT !.used = @ \cup {Drawn}]
  <2>1. PICK d : d = Drawn /\ d \notin attPast.used /\ \E n \in Nat : attPast.used \cup {d} = 1..n
    BY DrawnIsNew DEF AttInv
  <2>2. attPast' = [used |-> attPast.used \cup {d}, faulty |-> attPast.faulty, died |-> attPast.died,
                    deleted |-> attPast.deleted]
    BY <1>4, <2>1 DEF AttInv, PastOK
  <2>3. Ids' = Ids
    BY <1>1 DEF Ids, IdsOf
  <2>4. PastOK'
    BY <2>1, <2>2, <2>3 DEF AttInv, PastOK
  <2>5. IndexOK'
    BY <1>1, <2>2, <2>3 DEF AttInv, IndexOK, Single
  <2>6. Len(attIndex) < MaxAttachments
    BY <1>4, AttachmentAssumption DEF Refusal, AttInv, IndexOK
  <2>7. attJob = NoJob
    BY <1>1 DEF AttInv, JobHolds, UploadHolds, DeleteHolds
  <2>8. BlobsOK'
    <3>1. attJob'.id = d /\ attPast'.faulty = attPast.faulty /\ attPast'.died = attPast.died
      BY <1>4, <2>1, <2>2
    <3>2. attJob.id = 0 /\ 0 \notin attPast.used
      BY <2>7 DEF NoJob, AttInv, PastOK
    <3>3. DOMAIN attBlobs \subseteq attPast'.used /\ \A i \in DOMAIN attBlobs : i # attJob.id
      BY <2>2, <3>2 DEF AttInv, BlobsOK
    <3> QED
      BY <1>1, <2>3, <3>1, <3>3 DEF AttInv, BlobsOK, BlobsTypeOK
  <2>9. UploadHolds'
    <3>1. /\ attJob'.id = d /\ attJob'.todo = UploadSteps /\ attJob'.body = b
          /\ attJob' = [op |-> "upload", id |-> attJob'.id, todo |-> attJob'.todo, body |-> attJob'.body]
      BY <1>4, <2>1
    <3>2. UploadSteps # <<"index">>
      BY DEF UploadSteps
    <3>3. d \in attPast'.used /\ attPast'.deleted = attPast.deleted /\ d \notin attPast.deleted /\ d \notin Ids
      BY <2>1, <2>2 DEF AttInv, PastOK, IndexOK
    <3> QED
      BY <1>1, <2>3, <2>6, <3>1, <3>2, <3>3 DEF UploadHolds
  <2> QED
    BY <1>4, <2>4, <2>5, <2>8, <2>9, SameAnswer DEF AttInv, JobHolds
<1> QED
  BY <1>2, <1>3, <1>4

LEMMA DeleteKeeps == ASSUME AttInv, Delete PROVE AttInv'
<1>1. attJob.op = "none" /\ UNCHANGED <<attIndex, attBlobs, attPast>>
  BY DEF Delete, Free
<1>2. PICK id \in attPast.used :
        IF id \notin Listed THEN Says("not_found") /\ UNCHANGED attJob
        ELSE attJob' = [op |-> "delete", id |-> id, todo |-> DeleteSteps] /\ UNCHANGED attAnswer
  BY DEF Delete
<1>3. CASE Says("not_found") /\ UNCHANGED attJob
  BY <1>1, <1>3, OnlyAnswers, SaidIsShort
<1>4. CASE attJob' = [op |-> "delete", id |-> id, todo |-> DeleteSteps] /\ UNCHANGED attAnswer
  <2>1. Ids' = Ids
    BY <1>1 DEF Ids, IdsOf
  <2>2. attJob.id = 0 /\ 0 \notin attPast.used
    BY <1>1 DEF NoJob, AttInv, PastOK, JobHolds, UploadHolds, DeleteHolds
  <2>3. \A i \in DOMAIN attBlobs : i # attJob.id
    BY <2>2 DEF AttInv, BlobsOK
  <2>4. BlobsOK'
    BY <1>1, <2>1, <2>3 DEF AttInv, BlobsOK, BlobsTypeOK
  <2>5. DeleteHolds'
    <3>1. DeleteSteps # <<"unlink">>
      BY DEF DeleteSteps
    <3>2. attJob'.id = id /\ attJob'.todo = DeleteSteps
      BY <1>4
    <3> QED
      BY <1>1, <1>4, <3>1, <3>2 DEF DeleteHolds
  <2>6. PastOK' /\ IndexOK'
    BY <1>1, <2>1 DEF AttInv, PastOK, IndexOK, Single
  <2> QED
    BY <1>4, <2>4, <2>5, <2>6, SameAnswer DEF AttInv, JobHolds
<1> QED
  BY <1>2, <1>3, <1>4

\* What the steps have at their heads, and leave.
LEMMA StepsOf ==
    /\ Head(UploadSteps) = "blob" /\ Tail(UploadSteps) = <<"index">> /\ Head(<<"index">>) = "index"
    /\ Tail(<<"index">>) = <<>> /\ Head(DeleteSteps) = "index" /\ Tail(DeleteSteps) = <<"unlink">>
    /\ Head(<<"unlink">>) = "unlink" /\ Tail(<<"unlink">>) = <<>>
    /\ <<"index">> # <<>> /\ <<"unlink">> # <<>>
BY DEF UploadSteps, DeleteSteps

LEMMA JobAt ==
    ASSUME AttInv, NEW step, At(step)
    PROVE  \/ step = "blob" /\ UploadHolds /\ attJob.op = "upload" /\ attJob.todo = UploadSteps
           \/ step = "index" /\ UploadHolds /\ attJob.op = "upload" /\ attJob.todo = <<"index">>
           \/ step = "index" /\ DeleteHolds /\ attJob.op = "delete" /\ attJob.todo = DeleteSteps
           \/ step = "unlink" /\ DeleteHolds /\ attJob.op = "delete" /\ attJob.todo = <<"unlink">>
<1>1. attJob.op # "none" /\ Head(attJob.todo) = step
  BY DEF At, Free
<1>2. CASE UploadHolds
  <2>1. attJob.op = "upload"
    BY <1>2 DEF UploadHolds
  <2> QED
    BY <1>1, <1>2, <2>1, StepsOf DEF UploadHolds
<1>3. CASE DeleteHolds
  <2>1. attJob.op = "delete"
    BY <1>3 DEF DeleteHolds
  <2> QED
    BY <1>1, <1>3, <2>1, StepsOf DEF DeleteHolds
<1> QED
  BY <1>1, <1>2, <1>3 DEF AttInv, JobHolds, NoJob

LEMMA FaultIs ==
    ASSUME AttInv, NEW id, Faulty(id)
    PROVE  attPast' = [used |-> attPast.used, faulty |-> attPast.faulty \cup {id}, died |-> attPast.died,
                       deleted |-> attPast.deleted]
BY DEF Faulty, AttInv, PastOK

\* The blob of an upload, written or not.
LEMMA NewBlobFacts ==
    ASSUME BlobsOK, attJob.body \in Uploads, NEW blobs, blobs = NewBlobs
    PROVE  /\ DOMAIN blobs = DOMAIN attBlobs \cup {attJob.id} /\ blobs = [i \in DOMAIN blobs |-> blobs[i]]
           /\ blobs[attJob.id] = attJob.body /\ \A i \in DOMAIN blobs : i # attJob.id => blobs[i] = attBlobs[i]
           /\ \A i \in DOMAIN blobs : blobs[i].bytes \in Nat
<1>1. attJob.body.bytes \in Nat
  BY AttachmentAssumption
<1>2. blobs = [i \in DOMAIN attBlobs \cup {attJob.id} |-> IF i = attJob.id THEN attJob.body ELSE attBlobs[i]]
  BY DEF NewBlobs
<1> QED
  BY <1>1, <1>2 DEF BlobsOK, BlobsTypeOK

LEMMA ProceedIs ==
    ASSUME NEW left, left = Tail(attJob.todo), Proceed
    PROVE  /\ left # <<>> => attJob' = [attJob EXCEPT !.todo = left] /\ UNCHANGED attAnswer
           /\ left = <<>> => attJob' = NoJob /\ \E kind : kind # "context" /\ Says(kind)
BY DEF Proceed

\* Blobs that are those of before except for the id of the job.
OthersStay(blobs) ==
    /\ blobs = [i \in DOMAIN blobs |-> blobs[i]] /\ \A i \in DOMAIN blobs : blobs[i].bytes \in Nat
    /\ \A i \in DOMAIN attBlobs : i # attJob.id => i \in DOMAIN blobs /\ blobs[i] = attBlobs[i]
    /\ \A i \in DOMAIN blobs : i = attJob.id \/ i \in DOMAIN attBlobs

\* A handler that gave up.
LEMMA GivingUp ==
    ASSUME AttInv, NEW id, id = attJob.id, id \in attPast.used, Faulty(id), Give, OthersStay(attBlobs'), IndexOK',
           attIndex' = attIndex \/ Ids' \subseteq Ids \cup {id}, Ids \subseteq Ids' \cup {id},
           id \notin attPast.deleted \/ id \notin Ids',
           \A k \in 1..Len(attIndex') : attIndex'[k].id # id =>
                \E j \in 1..Len(attIndex) : attIndex[j] = attIndex'[k]
    PROVE  AttInv'
<1>1. attPast' = [used |-> attPast.used, faulty |-> attPast.faulty \cup {id}, died |-> attPast.died,
                  deleted |-> attPast.deleted]
  BY FaultIs
<1>2. attJob' = NoJob /\ Says("not_found")
  BY DEF Give
<1>3. AnswerHolds'
  BY <1>2, SaidIsShort
<1>4. Ids' \subseteq Ids \cup {id}
  BY DEF Ids, IdsOf
<1>5. PastOK'
  BY <1>1, <1>4 DEF AttInv, PastOK
<1>6. BlobsOK'
  <2>1. /\ attBlobs' = [i \in DOMAIN attBlobs' |-> attBlobs'[i]] /\ BlobsTypeOK'
        /\ DOMAIN attBlobs' \subseteq attPast'.used
    BY <1>1 DEF OthersStay, BlobsTypeOK, AttInv, BlobsOK
  <2>2. ASSUME NEW k \in 1..Len(attIndex'), attIndex'[k].id \notin attPast'.faulty
        PROVE  attIndex'[k].id \in DOMAIN attBlobs' /\ attBlobs'[attIndex'[k].id] = attIndex'[k].body
    <3>1. attIndex'[k].id # id /\ attIndex'[k].id \notin attPast.faulty
      BY <1>1, <2>2
    <3>2. PICK j \in 1..Len(attIndex) : attIndex[j] = attIndex'[k]
      BY <3>1
    <3> QED
      BY <3>1, <3>2 DEF AttInv, BlobsOK, OthersStay
  <2>3. ASSUME NEW i \in DOMAIN attBlobs', i \notin attPast'.faulty, i \notin attPast'.died PROVE i \in Ids'
    <3>1. i # id /\ i \notin attPast.faulty /\ i \notin attPast.died
      BY <1>1, <2>3
    <3> QED
      BY <3>1 DEF OthersStay, AttInv, BlobsOK
  <2> QED
    BY <2>1, <2>2, <2>3 DEF BlobsOK
<1> QED
  BY <1>2, <1>3, <1>5, <1>6 DEF AttInv, JobHolds

LEMMA IndexStays ==
    ASSUME AttInv, UNCHANGED attIndex, attPast'.used = attPast.used
    PROVE  Ids' = Ids /\ IndexOK'
<1>1. Ids' = Ids
  BY DEF Ids, IdsOf
<1> QED
  BY <1>1 DEF AttInv, IndexOK, Single

\* Blobs left alone, and those an upload that fails may leave.
LEMMA AloneStay == ASSUME AttInv, NEW blobs, blobs = attBlobs PROVE OthersStay(blobs)
BY DEF AttInv, BlobsOK, BlobsTypeOK, OthersStay

LEMMA WrittenStay ==
    ASSUME AttInv, attJob.body \in Uploads, NEW blobs, blobs = NewBlobs
    PROVE  OthersStay(blobs) /\ attJob.id \in DOMAIN blobs /\ blobs[attJob.id] = attJob.body
BY NewBlobFacts DEF AttInv, OthersStay

LEMMA UndoneStay ==
    ASSUME NEW old, OthersStay(old), NEW blobs \in Undone(old)
    PROVE  OthersStay(blobs)
<1>1. CASE blobs = old
  BY <1>1
<1>2. CASE blobs = Without(old, attJob.id)
  <2>1. /\ DOMAIN blobs = DOMAIN old \ {attJob.id} /\ blobs = [i \in DOMAIN blobs |-> blobs[i]]
        /\ \A i \in DOMAIN blobs : blobs[i] = old[i] /\ blobs[i].bytes \in Nat
    BY <1>2 DEF Without, OthersStay
  <2> QED
    BY <2>1 DEF OthersStay
<1> QED
  BY <1>1, <1>2 DEF Undone

LEMMA WriteBlobKeeps == ASSUME AttInv, WriteBlob PROVE AttInv'
<1>1. At("blob") /\ UNCHANGED attIndex
  BY DEF WriteBlob
<1>2. UploadHolds /\ attJob.op = "upload" /\ attJob.todo = UploadSteps
  BY <1>1, JobAt
<1>3. PICK id : id = attJob.id /\ id \in attPast.used /\ id \notin attPast.deleted /\ id \notin Ids
  BY <1>2 DEF UploadHolds
<1>4. PICK new : new = NewBlobs
  OBVIOUS
<1>5. OthersStay(new) /\ id \in DOMAIN new /\ new[id] = attJob.body
  BY <1>2, <1>3, <1>4, WrittenStay DEF UploadHolds
<1>6. CASE attBlobs' = NewBlobs /\ Proceed /\ UNCHANGED attPast
  <2>1. PICK left : left = Tail(attJob.todo) /\ left = <<"index">> /\ left # <<>>
    BY <1>2, StepsOf
  <2>2. attJob' = [attJob EXCEPT !.todo = left] /\ UNCHANGED attAnswer
    BY <1>6, <2>1, ProceedIs
  <2>3. attJob' = [op |-> "upload", id |-> id, todo |-> left, body |-> attJob.body]
    BY <1>2, <1>3, <2>2 DEF UploadHolds
  <2>4. Ids' = Ids /\ IndexOK'
    BY <1>1, <1>6, IndexStays
  <2>5. attBlobs' = new
    BY <1>4, <1>6
  <2>6. UploadHolds'
    <3>1. /\ attJob'.id = id /\ attJob'.todo = left /\ attJob'.body = attJob.body
          /\ attJob' = [op |-> "upload", id |-> attJob'.id, todo |-> attJob'.todo, body |-> attJob'.body]
      BY <2>3
    <3> QED
      BY <1>1, <1>2, <1>3, <1>5, <1>6, <2>1, <2>4, <2>5, <3>1 DEF UploadHolds
  <2>7. BlobsOK'
    <3>1. DOMAIN new \subseteq attPast.used
      BY <1>3, <1>5 DEF OthersStay, AttInv, BlobsOK
    <3>2. ASSUME NEW k \in 1..Len(attIndex), attIndex[k].id \notin attPast.faulty
          PROVE  attIndex[k].id \in DOMAIN new /\ new[attIndex[k].id] = attIndex[k].body
      <4>1. attIndex[k].id # id
        BY <1>3 DEF Ids, IdsOf
      <4> QED
        BY <1>3, <1>5, <3>2, <4>1 DEF OthersStay, AttInv, BlobsOK
    <3>3. attJob'.id = id
      BY <2>3
    <3> QED
      BY <1>1, <1>3, <1>5, <1>6, <2>4, <2>5, <3>1, <3>2, <3>3 DEF OthersStay, AttInv, BlobsOK, BlobsTypeOK
  <2>8. PastOK'
    BY <1>6, <2>4 DEF AttInv, PastOK
  <2> QED
    BY <2>2, <2>4, <2>6, <2>7, <2>8, SameAnswer DEF AttInv, JobHolds
<1>7. CASE attBlobs' \in {attBlobs} \cup Undone(NewBlobs) /\ Give /\ Faulty(attJob.id)
  <2>1. OthersStay(attBlobs')
    BY <1>4, <1>5, <1>7, AloneStay, UndoneStay
  <2>2. attPast'.used = attPast.used
    BY <1>7, FaultIs
  <2>3. Ids' = Ids /\ IndexOK'
    BY <1>1, <2>2, IndexStays
  <2> QED
    BY <1>1, <1>3, <1>7, <2>1, <2>3, GivingUp
<1> QED
  BY <1>6, <1>7 DEF WriteBlob

-----------------------------------------------------------------------------
\* The index of an upload has one row more.
LEMMA IndexOfUpload ==
    ASSUME AttInv, UploadHolds, NEW new, new = NewIndex
    PROVE  /\ new \in Seq(Entry) /\ Single(new) /\ Len(new) <= MaxAttachments /\ IdsOf(new) = Ids \cup {attJob.id}
           /\ \A k \in 1..Len(new) : \/ new[k].id = attJob.id /\ new[k].body = attJob.body
                                     \/ \E j \in 1..Len(attIndex) : attIndex[j] = new[k]
<1>1. PICK e : e = [id |-> attJob.id, body |-> attJob.body]
  OBVIOUS
<1>2. attJob.id \in Nat
  BY DEF AttInv, PastOK, UploadHolds
<1>3. e \in Entry /\ e.id = attJob.id /\ e.body = attJob.body
  BY <1>1, <1>2 DEF UploadHolds, Entry
<1>4. PICK s \in Seq(Entry) : s = attIndex /\ Len(s) < MaxAttachments /\ Single(s) /\ e.id \notin IdsOf(s)
  BY <1>3 DEF AttInv, IndexOK, UploadHolds, Ids
<1>5. new = Append(s, e)
  BY <1>1, <1>4 DEF NewIndex, UploadHolds
<1>6. new \in Seq(Entry) /\ Len(new) = Len(s) + 1 /\ new[Len(s) + 1] = e /\ \A j \in 1..Len(s) : new[j] = s[j]
  BY <1>3, <1>5
<1>7. \A j \in 1..Len(new) : j \in 1..Len(s) \/ j = Len(s) + 1
  BY <1>6
<1>8. \A j \in 1..Len(s) : j \in 1..Len(new)
  BY <1>6
<1>9. Len(s) + 1 \in 1..Len(new)
  BY <1>6
<1>10. \A j \in 1..Len(s) : s[j].id # e.id
  BY <1>4 DEF IdsOf
<1>11. Single(new)
  BY <1>4, <1>6, <1>7, <1>10 DEF Single
<1>12. Len(new) <= MaxAttachments
  BY <1>4, <1>6, AttachmentAssumption
<1>13. IdsOf(new) = IdsOf(s) \cup {e.id}
  BY <1>6, <1>7, <1>8, <1>9 DEF IdsOf
<1> QED
  BY <1>3, <1>4, <1>6, <1>7, <1>11, <1>12, <1>13 DEF Ids

\* The index of a deletion has the others' rows.
LEMMA IndexOfDelete ==
    ASSUME AttInv, DeleteHolds, NEW new, new = NewIndex
    PROVE  /\ new \in Seq(Entry) /\ Single(new) /\ Len(new) <= MaxAttachments /\ IdsOf(new) = Ids \ {attJob.id}
           /\ \A k \in 1..Len(new) : \E j \in 1..Len(attIndex) : attIndex[j] = new[k]
<1>1. PICK n : n = Len(attIndex)
  OBVIOUS
<1>2. n \in Nat /\ n <= MaxAttachments /\ MaxAttachments \in Nat
  BY <1>1, AttachmentAssumption DEF AttInv, IndexOK
<1>3. new = Remaining[n]
  BY <1>1 DEF NewIndex, DeleteHolds
<1>4. RestOf(new, n)
  BY <1>1, <1>3, RemainingFacts DEF AttInv, IndexOK
<1>5. IdsOf(new) \subseteq Ids \ {attJob.id}
  <2>1. ASSUME NEW i \in IdsOf(new) PROVE i \in Ids \ {attJob.id}
    <3>1. PICK j \in 1..Len(new) : new[j].id = i
      BY DEF IdsOf
    <3>2. PICK k \in 1..n : attIndex[k] = new[j] /\ new[j].id # attJob.id
      BY <1>4, <3>1 DEF RestOf
    <3> QED
      BY <1>1, <3>1, <3>2 DEF Ids, IdsOf
  <2> QED
    BY <2>1
<1>6. Ids \ {attJob.id} \subseteq IdsOf(new)
  <2>1. ASSUME NEW i \in Ids, i # attJob.id PROVE i \in IdsOf(new)
    <3>1. PICK k \in 1..n : attIndex[k].id = i
      BY <1>1 DEF Ids, IdsOf
    <3>2. PICK j \in 1..Len(new) : new[j] = attIndex[k]
      BY <1>4, <2>1, <3>1 DEF RestOf
    <3> QED
      BY <3>1, <3>2 DEF IdsOf
  <2> QED
    BY <2>1
<1>7. Len(new) <= MaxAttachments
  BY <1>2, <1>4 DEF RestOf
<1> QED
  BY <1>1, <1>4, <1>5, <1>6, <1>7 DEF RestOf

LEMMA WriteIndexKeeps == ASSUME AttInv, WriteIndex PROVE AttInv'
<1>1. At("index")
  BY DEF WriteIndex
<1>2. PICK id : id = attJob.id
  OBVIOUS
<1>3. PICK new : new = NewIndex
  OBVIOUS
<1>4. ASSUME attIndex' \in {attIndex, new}, attBlobs' \in Undone(attBlobs), Give, Faulty(attJob.id)
      PROVE  AttInv'
  <2>1. OthersStay(attBlobs')
    BY <1>4, AloneStay, UndoneStay
  <2>2. attPast'.used = attPast.used
    BY <1>4, FaultIs
  <2>3. CASE attIndex' = attIndex
    <3>1. Ids' = Ids /\ IndexOK' /\ id \in attPast.used
      BY <1>1, <1>2, <2>2, <2>3, IndexStays, JobAt DEF UploadHolds, DeleteHolds
    <3>2. id \notin attPast.deleted \/ id \notin Ids'
      BY <3>1 DEF AttInv, PastOK
    <3> QED
      BY <1>2, <1>4, <2>1, <2>3, <3>1, <3>2, GivingUp
  <2>4. CASE attIndex' = new /\ UploadHolds
    <3>1. Ids' = IdsOf(new)
      BY <2>4 DEF Ids, IdsOf
    <3>2. /\ new \in Seq(Entry) /\ Single(new) /\ Len(new) <= MaxAttachments /\ IdsOf(new) = Ids \cup {id}
          /\ \A k \in 1..Len(new) : \/ new[k].id = id /\ new[k].body = attJob.body
                                    \/ \E j \in 1..Len(attIndex) : attIndex[j] = new[k]
      BY <1>2, <1>3, <2>4, IndexOfUpload
    <3>3. id \in attPast.used /\ id \notin attPast.deleted
      BY <1>2, <2>4 DEF UploadHolds
    <3>4. IndexOK'
      BY <2>2, <2>4, <3>1, <3>2, <3>3 DEF AttInv, IndexOK, Single
    <3> QED
      BY <1>2, <1>4, <2>1, <2>4, <3>1, <3>2, <3>3, <3>4, GivingUp
  <2>5. CASE attIndex' = new /\ DeleteHolds
    <3>1. Ids' = IdsOf(new)
      BY <2>5 DEF Ids, IdsOf
    <3>2. /\ new \in Seq(Entry) /\ Single(new) /\ Len(new) <= MaxAttachments /\ IdsOf(new) = Ids \ {id}
          /\ \A k \in 1..Len(new) : \E j \in 1..Len(attIndex) : attIndex[j] = new[k]
      BY <1>2, <1>3, <2>5, IndexOfDelete
    <3>3. id \in attPast.used
      BY <1>2, <2>5 DEF DeleteHolds
    <3>4. IndexOK'
      BY <2>2, <2>5, <3>1, <3>2, <3>3 DEF AttInv, IndexOK, Single
    <3> QED
      BY <1>2, <1>4, <2>1, <2>5, <3>1, <3>2, <3>3, <3>4, GivingUp
  <2> QED
    BY <1>1, <1>4, <2>3, <2>4, <2>5, JobAt
<1>5. ASSUME attIndex' = new, Proceed, UNCHANGED attBlobs, UploadHolds, attJob.todo = <<"index">>,
             attJob.op = "upload", UNCHANGED attPast
      PROVE  AttInv'
  <2>1. PICK left : left = Tail(attJob.todo) /\ left = <<>>
    BY <1>5, StepsOf
  <2>2. attJob' = NoJob /\ \E kind : kind # "context" /\ Says(kind)
    BY <1>5, <2>1, ProceedIs
  <2>3. AnswerHolds'
    BY <2>2, SaidIsShort
  <2>4. Ids' = IdsOf(new)
    BY <1>5 DEF Ids, IdsOf
  <2>5. /\ new \in Seq(Entry) /\ Single(new) /\ Len(new) <= MaxAttachments /\ IdsOf(new) = Ids \cup {id}
        /\ \A k \in 1..Len(new) : \/ new[k].id = id /\ new[k].body = attJob.body
                                  \/ \E j \in 1..Len(attIndex) : attIndex[j] = new[k]
    BY <1>2, <1>3, <1>5, IndexOfUpload
  <2>6. /\ id \in attPast.used /\ id \notin attPast.deleted
        /\ id \notin attPast.faulty => id \in DOMAIN attBlobs /\ attBlobs[id] = attJob.body
    BY <1>2, <1>5 DEF UploadHolds
  <2>7. IndexOK'
    BY <1>5, <2>4, <2>5, <2>6 DEF AttInv, IndexOK, Single
  <2>8. PastOK'
    BY <1>5, <2>4, <2>5, <2>6 DEF AttInv, PastOK
  <2>9. BlobsOK'
    <3>1. ASSUME NEW k \in 1..Len(new), new[k].id \notin attPast.faulty
          PROVE  new[k].id \in DOMAIN attBlobs /\ attBlobs[new[k].id] = new[k].body
      <4>1. CASE new[k].id = id /\ new[k].body = attJob.body
        BY <2>6, <3>1, <4>1
      <4>2. CASE \E j \in 1..Len(attIndex) : attIndex[j] = new[k]
        BY <3>1, <4>2 DEF AttInv, BlobsOK
      <4> QED
        BY <2>5, <4>1, <4>2
    <3>2. \A i \in DOMAIN attBlobs : i \notin attPast.faulty /\ i \notin attPast.died => i \in Ids'
      BY <1>2, <2>4, <2>5 DEF AttInv, BlobsOK
    <3> QED
      BY <1>5, <3>1, <3>2 DEF AttInv, BlobsOK, BlobsTypeOK
  <2> QED
    BY <2>2, <2>3, <2>7, <2>8, <2>9 DEF AttInv, JobHolds
<1>6. ASSUME attIndex' = new, Proceed, UNCHANGED attBlobs, DeleteHolds, attJob.todo = DeleteSteps,
             attJob.op = "delete", UNCHANGED attPast
      PROVE  AttInv'
  <2>1. PICK left : left = Tail(attJob.todo) /\ left = <<"unlink">> /\ left # <<>>
    BY <1>6, StepsOf
  <2>2. attJob' = [attJob EXCEPT !.todo = left] /\ UNCHANGED attAnswer
    BY <1>6, <2>1, ProceedIs
  <2>3. attJob' = [op |-> "delete", id |-> id, todo |-> left]
    BY <1>2, <1>6, <2>2 DEF DeleteHolds
  <2>4. Ids' = IdsOf(new)
    BY <1>6 DEF Ids, IdsOf
  <2>5. /\ new \in Seq(Entry) /\ Single(new) /\ Len(new) <= MaxAttachments /\ IdsOf(new) = Ids \ {id}
        /\ \A k \in 1..Len(new) : \E j \in 1..Len(attIndex) : attIndex[j] = new[k]
    BY <1>2, <1>3, <1>6, IndexOfDelete
  <2>6. id \in attPast.used
    BY <1>2, <1>6 DEF DeleteHolds
  <2>7. IndexOK'
    BY <1>6, <2>4, <2>5 DEF AttInv, IndexOK, Single
  <2>8. PastOK'
    BY <1>6, <2>4, <2>5 DEF AttInv, PastOK
  <2>9. BlobsOK'
    <3>1. \A k \in 1..Len(new) : new[k].id \notin attPast.faulty =>
            new[k].id \in DOMAIN attBlobs /\ attBlobs[new[k].id] = new[k].body
      BY <2>5 DEF AttInv, BlobsOK
    <3>2. attJob'.id = id
      BY <2>3
    <3>3. \A i \in DOMAIN attBlobs : i \notin attPast.faulty /\ i \notin attPast.died /\ i # id => i \in Ids'
      BY <1>2, <2>4, <2>5 DEF AttInv, BlobsOK
    <3> QED
      BY <1>6, <3>1, <3>2, <3>3 DEF AttInv, BlobsOK, BlobsTypeOK
  <2>10. DeleteHolds'
    <3>1. attJob'.id = id /\ attJob'.todo = left
      BY <2>3
    <3>2. id \notin Ids'
      BY <2>4, <2>5
    <3> QED
      BY <1>6, <2>1, <2>3, <2>6, <3>1, <3>2 DEF DeleteHolds
  <2> QED
    BY <2>2, <2>7, <2>8, <2>9, <2>10, SameAnswer DEF AttInv, JobHolds
<1>7. ASSUME attIndex' = new, Proceed, UNCHANGED attBlobs,
             attPast' = IF attJob.op = "delete" /\ Tail(attJob.todo) = <<>>
                        THEN [attPast EXCEPT !.deleted = @ \cup {attJob.id}] ELSE attPast
      PROVE  AttInv'
  <2>1. \/ UploadHolds /\ attJob.op = "upload" /\ attJob.todo = <<"index">>
        \/ DeleteHolds /\ attJob.op = "delete" /\ attJob.todo = DeleteSteps
    BY <1>1, JobAt
  <2>2. UNCHANGED attPast
    BY <1>7, <2>1, StepsOf
  <2> QED
    BY <1>5, <1>6, <1>7, <2>1, <2>2
<1> QED
  BY <1>3, <1>4, <1>7 DEF WriteIndex

-----------------------------------------------------------------------------
\* A deletion has come to its end: of its attachment nothing is left, or something went
\* wrong with it.
LEMMA UnlinkKeeps == ASSUME AttInv, Unlink PROVE AttInv'
<1>1. At("unlink") /\ UNCHANGED attIndex /\ Proceed
  BY DEF Unlink
<1>2. DeleteHolds /\ attJob.todo = <<"unlink">>
  BY <1>1, JobAt
<1>3. PICK id : id = attJob.id /\ id \in attPast.used /\ id \notin Ids
  BY <1>2 DEF DeleteHolds
<1>4. PICK left : left = Tail(attJob.todo) /\ left = <<>>
  BY <1>2, StepsOf
<1>5. attJob' = NoJob /\ \E kind : kind # "context" /\ Says(kind)
  BY <1>1, <1>4, ProceedIs
<1>6. AnswerHolds'
  BY <1>5, SaidIsShort
<1>7. /\ OthersStay(attBlobs')
      /\ \E faulty \in {attPast.faulty, attPast.faulty \cup {id}} :
            /\ attPast' = [used |-> attPast.used, faulty |-> faulty, died |-> attPast.died,
                           deleted |-> attPast.deleted \cup {id}]
            /\ id \in faulty \/ id \notin DOMAIN attBlobs'
  <2>1. CASE /\ attBlobs' = Without(attBlobs, attJob.id)
             /\ attPast' = [attPast EXCEPT !.deleted = @ \cup {attJob.id}]
    <3>1. PICK blobs : blobs = attBlobs'
      OBVIOUS
    <3>2. OthersStay(blobs) /\ id \notin DOMAIN blobs
      <4>1. blobs = [i \in DOMAIN attBlobs \ {id} |-> attBlobs[i]]
        BY <1>3, <2>1, <3>1 DEF Without
      <4> QED
        BY <1>3, <4>1 DEF OthersStay, AttInv, BlobsOK, BlobsTypeOK
    <3>3. attPast' = [used |-> attPast.used, faulty |-> attPast.faulty, died |-> attPast.died,
                      deleted |-> attPast.deleted \cup {id}]
      BY <1>3, <2>1 DEF AttInv, PastOK
    <3> QED
      BY <3>1, <3>2, <3>3
  <2>2. CASE /\ UNCHANGED attBlobs
             /\ attPast' = [attPast EXCEPT !.deleted = @ \cup {attJob.id}, !.faulty = @ \cup {attJob.id}]
    <3>1. attPast' = [used |-> attPast.used, faulty |-> attPast.faulty \cup {id}, died |-> attPast.died,
                      deleted |-> attPast.deleted \cup {id}]
      BY <1>3, <2>2 DEF AttInv, PastOK
    <3> QED
      BY <2>2, <3>1, AloneStay
  <2> QED
    BY <2>1, <2>2 DEF Unlink
<1>8. PICK faulty \in {attPast.faulty, attPast.faulty \cup {id}} :
        /\ attPast' = [used |-> attPast.used, faulty |-> faulty, died |-> attPast.died,
                       deleted |-> attPast.deleted \cup {id}]
        /\ id \in faulty \/ id \notin DOMAIN attBlobs'
  BY <1>7
<1>9. Ids' = Ids /\ IndexOK'
  BY <1>1, <1>8, IndexStays
<1>10. PastOK'
  BY <1>3, <1>8, <1>9 DEF AttInv, PastOK
<1>11. BlobsOK'
  <2>1. /\ attBlobs' = [i \in DOMAIN attBlobs' |-> attBlobs'[i]] /\ BlobsTypeOK'
        /\ DOMAIN attBlobs' \subseteq attPast'.used
    BY <1>3, <1>7, <1>8 DEF OthersStay, BlobsTypeOK, AttInv, BlobsOK
  <2>2. ASSUME NEW k \in 1..Len(attIndex), attIndex[k].id \notin faulty
        PROVE  attIndex[k].id \in DOMAIN attBlobs' /\ attBlobs'[attIndex[k].id] = attIndex[k].body
    <3>1. attIndex[k].id # id /\ attIndex[k].id \notin attPast.faulty
      BY <1>3, <1>8, <2>2 DEF Ids, IdsOf
    <3> QED
      BY <1>3, <1>7, <3>1 DEF OthersStay, AttInv, BlobsOK
  <2>3. ASSUME NEW i \in DOMAIN attBlobs', i \notin faulty, i \notin attPast.died PROVE i \in Ids
    <3>1. i # id /\ i \notin attPast.faulty
      BY <1>8, <2>3
    <3> QED
      BY <1>3, <1>7, <2>3, <3>1 DEF OthersStay, AttInv, BlobsOK
  <2> QED
    BY <1>1, <1>8, <1>9, <2>1, <2>2, <2>3 DEF BlobsOK
<1> QED
  BY <1>5, <1>6, <1>9, <1>10, <1>11 DEF AttInv, JobHolds

LEMMA AttDieKeeps == ASSUME AttInv, AttDie PROVE AttInv'
<1>1. /\ attJob' = NoJob /\ UNCHANGED <<attIndex, attBlobs, attAnswer>>
      /\ attPast' = [attPast EXCEPT !.died = @ \cup (IF Free THEN {} ELSE {attJob.id})]
  BY DEF AttDie
<1>2. attPast' = [used |-> attPast.used, faulty |-> attPast.faulty,
                  died |-> attPast.died \cup (IF Free THEN {} ELSE {attJob.id}), deleted |-> attPast.deleted]
  BY <1>1 DEF AttInv, PastOK
<1>3. Ids' = Ids /\ IndexOK'
  BY <1>1, <1>2, IndexStays
<1>4. PastOK'
  BY <1>2, <1>3 DEF AttInv, PastOK
<1>5. ASSUME NEW i \in DOMAIN attBlobs, i \notin attPast.faulty, i \notin attPast'.died PROVE i \in Ids
  <2>1. i # attJob.id \/ attJob = NoJob
    <3>1. CASE Free
      BY <3>1 DEF Free, AttInv, JobHolds, UploadHolds, DeleteHolds
    <3>2. CASE ~Free
      BY <1>2, <1>5, <3>2
    <3> QED
      BY <3>1, <3>2
  <2>2. 0 \notin attPast.used
    BY DEF AttInv, PastOK
  <2>3. i # attJob.id
    BY <2>1, <2>2 DEF NoJob, AttInv, BlobsOK
  <2>4. i \notin attPast.died
    BY <1>2, <1>5
  <2> QED
    BY <1>5, <2>3, <2>4 DEF AttInv, BlobsOK
<1>6. BlobsOK'
  BY <1>1, <1>2, <1>3, <1>5 DEF AttInv, BlobsOK, BlobsTypeOK
<1> QED
  BY <1>1, <1>3, <1>4, <1>6, SameAnswer DEF AttInv, JobHolds

LEMMA SpoilKeeps == ASSUME AttInv, Spoil PROVE AttInv'
<1>1. UNCHANGED <<attIndex, attJob, attAnswer>>
  BY DEF Spoil
<1>2. PICK id \in DOMAIN attBlobs :
        attBlobs' \in {[attBlobs EXCEPT ![id] = Spoilt], Without(attBlobs, id)} /\ Faulty(id)
  BY DEF Spoil
<1>3. attPast' = [used |-> attPast.used, faulty |-> attPast.faulty \cup {id}, died |-> attPast.died,
                  deleted |-> attPast.deleted]
  BY <1>2, FaultIs
<1>4. Ids' = Ids /\ IndexOK'
  BY <1>1, <1>3, IndexStays
<1>5. PastOK'
  BY <1>3, <1>4 DEF AttInv, PastOK
<1>6. /\ attBlobs' = [i \in DOMAIN attBlobs' |-> attBlobs'[i]] /\ DOMAIN attBlobs' \subseteq DOMAIN attBlobs
      /\ \A i \in DOMAIN attBlobs' : attBlobs'[i].bytes \in Nat
      /\ \A i \in DOMAIN attBlobs : i # id => i \in DOMAIN attBlobs' /\ attBlobs'[i] = attBlobs[i]
  <2>1. Spoilt.bytes \in Nat
    BY DEF Spoilt
  <2>2. CASE attBlobs' = [attBlobs EXCEPT ![id] = Spoilt]
    BY <2>1, <2>2 DEF AttInv, BlobsOK, BlobsTypeOK
  <2>3. CASE attBlobs' = Without(attBlobs, id)
    BY <2>3 DEF Without, AttInv, BlobsOK, BlobsTypeOK
  <2> QED
    BY <1>2, <2>2, <2>3
<1>7. BlobsOK'
  <2>1. ASSUME NEW k \in 1..Len(attIndex), attIndex[k].id \notin attPast'.faulty
        PROVE  attIndex[k].id \in DOMAIN attBlobs' /\ attBlobs'[attIndex[k].id] = attIndex[k].body
    BY <1>3, <1>6, <2>1 DEF AttInv, BlobsOK
  <2>2. \A i \in DOMAIN attBlobs' : i \notin attPast'.faulty /\ i \notin attPast'.died /\ i # attJob.id => i \in Ids
    BY <1>3, <1>6 DEF AttInv, BlobsOK
  <2>3. DOMAIN attBlobs' \subseteq attPast'.used
    BY <1>3, <1>6 DEF AttInv, BlobsOK
  <2> QED
    BY <1>1, <1>4, <1>6, <2>1, <2>2, <2>3 DEF BlobsOK, BlobsTypeOK
<1>8. JobHolds'
  <2>1. CASE attJob = NoJob
    BY <1>1, <2>1 DEF JobHolds
  <2>2. CASE UploadHolds
    <3>1. attJob.todo = <<"index">> /\ attJob.id \notin attPast'.faulty =>
            attJob.id \in DOMAIN attBlobs' /\ attBlobs'[attJob.id] = attJob.body
      BY <1>3, <1>6, <2>2 DEF UploadHolds
    <3> QED
      BY <1>1, <1>3, <1>4, <2>2, <3>1 DEF JobHolds, UploadHolds
  <2>3. CASE DeleteHolds
    BY <1>1, <1>3, <1>4, <2>3 DEF JobHolds, DeleteHolds
  <2> QED
    BY <2>1, <2>2, <2>3 DEF AttInv, JobHolds
<1> QED
  BY <1>1, <1>4, <1>5, <1>7, <1>8, SameAnswer DEF AttInv

LEMMA QuoteKeeps == ASSUME AttInv, Quote PROVE AttInv'
<1>1. PICK n : n = Len(attIndex)
  OBVIOUS
<1>2. PICK of : of = Quoted[n].of
  OBVIOUS
<1>3. QuoteOK(Quoted[n])
  BY <1>1, QuotedFacts DEF AttInv, IndexOK, BlobsOK
<1>4. of \in Seq(Nat) /\ \A k \in 1..Len(of) : of[k] <= PerText
  BY <1>2, <1>3 DEF QuoteOK
<1>5. attAnswer' = [kind |-> "context", of |-> of] /\ UNCHANGED <<attIndex, attBlobs, attJob, attPast>>
  BY <1>1, <1>2 DEF Quote
<1>6. AnswerHolds'
  BY <1>4, <1>5 DEF AnswerHolds
<1> QED
  BY <1>5, <1>6, OnlyAnswers

LEMMA ReadingKeeps == ASSUME AttInv, List \/ Download \/ Send \/ SendToHub PROVE AttInv'
<1>1. UNCHANGED <<attIndex, attBlobs, attJob, attPast>>
  BY DEF List, Download, Send, SendToHub
<1>2. AnswerHolds'
  <2>1. UNCHANGED attAnswer \/ \E kind : kind # "context" /\ Says(kind)
    BY DEF List, Download, Send, SendToHub, Says
  <2> QED
    BY <2>1, SaidIsShort, SameAnswer
<1> QED
  BY <1>1, <1>2, OnlyAnswers

LEMMA AttStep == ASSUME AttInv, [AttNext]_attVars PROVE AttInv'
<1>1. CASE Upload \/ Delete
  BY <1>1, UploadKeeps, DeleteKeeps
<1>2. CASE WriteBlob \/ WriteIndex \/ Unlink
  BY <1>2, WriteBlobKeeps, WriteIndexKeeps, UnlinkKeeps
<1>3. CASE AttDie \/ Spoil
  BY <1>3, AttDieKeeps, SpoilKeeps
<1>4. CASE List \/ Download \/ Send \/ Quote \/ SendToHub
  BY <1>4, QuoteKeeps, ReadingKeeps
<1>5. CASE UNCHANGED attVars
  BY <1>5, OnlyAnswers, SameAnswer DEF attVars
<1> QED
  BY <1>1, <1>2, <1>3, <1>4, <1>5 DEF AttNext

\* For any bodies, limits, failures, deaths and edits: a listed attachment has the bytes
\* that were uploaded unless an operation on it failed or somebody changed its file, nothing
\* of a settled one stays behind, what was answered as deleted is gone, and no more is
\* listed or quoted than the limits allow (platform/attachments/store.py).
THEOREM AttachmentsStay == AttSpec => []AttachmentsHold
<1>1. AttInit => AttInv
  BY AttBegins
<1>2. AttInv /\ [AttNext]_attVars => AttInv'
  BY AttStep
<1>3. AttInv => AttachmentsHold
  BY AttInvImplies
<1> QED
  BY <1>1, <1>2, <1>3, PTL DEF AttSpec

-----------------------------------------------------------------------------
(* RunLedgerFile: a recursive function over the tokens, place by place.    *)

\* Induction up to n, of the members of a set.
LEMMA UpTo ==
    ASSUME NEW n \in Nat, NEW S, 0 \in S, \A k \in 1..n : k - 1 \in S => k \in S
    PROVE  \A k \in 0..n : k \in S
<1> DEFINE T == (0..n) \ S
<1>1. SUFFICES ASSUME T # {} PROVE FALSE
  OBVIOUS
<1>2. PICK m \in T : \A k \in T : m <= k
  <2>1. T \subseteq Nat
    OBVIOUS
  <2> HIDE DEF T
  <2> QED
    BY <1>1, <2>1, HasLeast
<1>3. m \in 1..n
  OBVIOUS
<1>4. m - 1 \in 0..n /\ ~(m <= m - 1)
  BY <1>3
<1>5. m - 1 \notin T
  <2> HIDE DEF T
  <2> QED
    BY <1>2, <1>4
<1> QED
  BY <1>3, <1>4, <1>5

-----------------------------------------------------------------------------
(* What a reader makes of a file: the rows at some of its places.          *)

Scans(f, file, H, m) ==
    f = [k \in 0..m |-> IF k = 0 THEN <<>> ELSE IF k \in H THEN Append(f[k - 1], file[k].row) ELSE f[k - 1]]

LEMMA ScansExist ==
    ASSUME NEW file, NEW H, NEW n \in Nat
    PROVE  \E f : Scans(f, file, H, n)
<1> DEFINE S == {k \in 0..n : \E f : Scans(f, file, H, k)}
<1>1. 0 \in S
  <2>1. PICK f : f = [k \in 0..0 |-> <<>>]
    OBVIOUS
  <2>2. Scans(f, file, H, 0)
    BY <2>1 DEF Scans
  <2> QED
    BY <2>2
<1>2. ASSUME NEW m \in 1..n, m - 1 \in S PROVE m \in S
  <2>1. PICK g : Scans(g, file, H, m - 1)
    BY <1>2
  <2>2. PICK h : h = [k \in 0..m |-> IF k < m THEN g[k]
                                     ELSE IF m \in H THEN Append(g[m - 1], file[m].row) ELSE g[m - 1]]
    OBVIOUS
  <2>3. ASSUME NEW k \in 0..m
        PROVE  h[k] = IF k = 0 THEN <<>> ELSE IF k \in H THEN Append(h[k - 1], file[k].row) ELSE h[k - 1]
    <3>1. CASE k < m
      <4>1. k \in 0..(m - 1) /\ (k # 0 => k - 1 \in 0..m /\ k - 1 < m)
        BY <1>2, <3>1
      <4>2. h[k] = g[k] /\ (k # 0 => h[k - 1] = g[k - 1])
        BY <2>2, <3>1, <4>1
      <4> QED
        BY <2>1, <4>1, <4>2 DEF Scans
    <3>2. CASE k = m
      <4>1. m - 1 \in 0..m /\ m - 1 < m /\ ~(m < m) /\ m # 0
        BY <1>2
      <4>2. h[m - 1] = g[m - 1]
        BY <2>2, <4>1
      <4>3. h[m] = IF m \in H THEN Append(g[m - 1], file[m].row) ELSE g[m - 1]
        BY <2>2, <3>2, <4>1
      <4> QED
        BY <3>2, <4>1, <4>2, <4>3
    <3> QED
      BY <1>2, <3>1, <3>2
  <2>4. Scans(h, file, H, m)
    BY <2>2, <2>3 DEF Scans
  <2> QED
    BY <1>2, <2>4
<1>3. \A k \in 0..n : k \in S
  <2> HIDE DEF S
  <2> QED
    BY <1>1, <1>2, UpTo
<1> QED
  BY <1>3

\* The sequence r has the rows at the places H of the first k tokens.
Reads(r, file, H, k) ==
    /\ r \in Seq(Nat)
    /\ \A j \in 1..Len(r) : \E i \in 1..k : i \in H /\ r[j] = file[i].row
    /\ \A i \in 1..k : i \in H => \E j \in 1..Len(r) : r[j] = file[i].row
    /\ \A i, j \in 1..Len(r) : r[i] = r[j] => i = j

LEMMA ReadsOn ==
    ASSUME NEW file, NEW H, NEW m \in Nat, m # 0, NEW r, Reads(r, file, H, m - 1), file[m].row \in Nat,
           \A i \in 1..m - 1 : i \in H /\ m \in H => file[i].row # file[m].row
    PROVE  /\ m \in H => Reads(Append(r, file[m].row), file, H, m)
           /\ m \notin H => Reads(r, file, H, m)
<1>0. r \in Seq(Nat) /\ Len(r) \in Nat
  BY DEF Reads
<1>1. \A i \in 1..m : i \in 1..(m - 1) \/ i = m
  OBVIOUS
<1>2. \A i \in 1..(m - 1) : i \in 1..m
  OBVIOUS
<1>3. CASE m \notin H
  BY <1>0, <1>1, <1>2, <1>3 DEF Reads
<1>4. CASE m \in H
  <2>1. PICK e \in Nat : e = file[m].row
    OBVIOUS
  <2>2. PICK q : q = Append(r, e)
    OBVIOUS
  <2>3. q \in Seq(Nat) /\ Len(q) = Len(r) + 1 /\ q[Len(r) + 1] = e /\ \A j \in 1..Len(r) : q[j] = r[j]
    BY <1>0, <2>2
  <2>4. \A j \in 1..Len(q) : j \in 1..Len(r) \/ j = Len(r) + 1
    BY <1>0, <2>3
  <2>5. \A j \in 1..Len(r) : j \in 1..Len(q)
    BY <1>0, <2>3
  <2>6. Len(r) + 1 \in 1..Len(q) /\ m \in 1..m
    BY <1>0, <2>3
  <2>7. ASSUME NEW j \in 1..Len(q) PROVE \E i \in 1..m : i \in H /\ q[j] = file[i].row
    <3>1. CASE j \in 1..Len(r)
      <4>1. PICK i \in 1..(m - 1) : i \in H /\ r[j] = file[i].row
        BY <3>1 DEF Reads
      <4> QED
        BY <1>2, <2>3, <3>1, <4>1
    <3>2. CASE j = Len(r) + 1
      BY <1>4, <2>1, <2>3, <2>6, <3>2
    <3> QED
      BY <2>4, <3>1, <3>2
  <2>8. ASSUME NEW i \in 1..m, i \in H PROVE \E j \in 1..Len(q) : q[j] = file[i].row
    <3>1. CASE i \in 1..(m - 1)
      <4>1. PICK j \in 1..Len(r) : r[j] = file[i].row
        BY <2>8, <3>1 DEF Reads
      <4> QED
        BY <2>3, <2>5, <4>1
    <3>2. CASE i = m
      BY <2>1, <2>3, <2>6, <3>2
    <3> QED
      BY <1>1, <3>1, <3>2
  <2>9. ASSUME NEW j \in 1..Len(r) PROVE r[j] # e
    <3>1. PICK i \in 1..(m - 1) : i \in H /\ r[j] = file[i].row
      BY DEF Reads
    <3> QED
      BY <1>4, <2>1, <3>1
  <2>10. \A i, j \in 1..Len(q) : q[i] = q[j] => i = j
    <3>1. ASSUME NEW i \in 1..Len(q), NEW j \in 1..Len(q), q[i] = q[j] PROVE i = j
      <4>1. CASE i \in 1..Len(r) /\ j \in 1..Len(r)
        BY <2>3, <3>1, <4>1 DEF Reads
      <4>2. CASE i = Len(r) + 1 \/ j = Len(r) + 1
        BY <2>3, <2>4, <2>9, <3>1, <4>2
      <4> QED
        BY <2>4, <4>1, <4>2
    <3> QED
      BY <3>1
  <2>11. Reads(q, file, H, m)
    BY <2>3, <2>7, <2>8, <2>10 DEF Reads
  <2> QED
    BY <1>4, <2>1, <2>2, <2>11
<1> QED
  BY <1>3, <1>4

LEMMA ScanReads ==
    ASSUME NEW file, NEW H, NEW n \in Nat, NEW f, Scans(f, file, H, n), \A i \in 1..n : file[i].row \in Nat,
           \A i, j \in 1..n : i \in H /\ j \in H /\ file[i].row = file[j].row => i = j
    PROVE  \A k \in 0..n : Reads(f[k], file, H, k)
<1> DEFINE S == {k \in 0..n : Reads(f[k], file, H, k)}
<1>1. \A k \in 0..n : f[k] = IF k = 0 THEN <<>> ELSE IF k \in H THEN Append(f[k - 1], file[k].row) ELSE f[k - 1]
  BY DEF Scans
<1>2. 0 \in S
  <2>1. PICK e : e = <<>>
    OBVIOUS
  <2>2. e \in Seq(Nat) /\ Len(e) = 0 /\ 1..0 = {}
    BY <2>1
  <2>3. Reads(e, file, H, 0)
    BY <2>2 DEF Reads
  <2>4. 0 \in 0..n
    OBVIOUS
  <2>5. f[0] = e
    <3>1. f[0] = IF 0 = 0 THEN <<>> ELSE IF 0 \in H THEN Append(f[0 - 1], file[0].row) ELSE f[0 - 1]
      BY <1>1, <2>4, Zenon
    <3> QED
      BY <2>1, <3>1, Zenon
  <2> QED
    BY <2>3, <2>4, <2>5
<1>3. ASSUME NEW m \in 1..n, m - 1 \in S PROVE m \in S
  <2>1. m \in Nat /\ m # 0 /\ m \in 0..n /\ Reads(f[m - 1], file, H, m - 1) /\ file[m].row \in Nat
    BY <1>3
  <2>2. \A i \in 1..m - 1 : i \in 1..n /\ i # m
    OBVIOUS
  <2>3. \A i \in 1..m - 1 : i \in H /\ m \in H => file[i].row # file[m].row
    BY <2>2
  <2>4. Reads(f[m], file, H, m)
    BY <1>1, <2>1, <2>3, ReadsOn
  <2> QED
    BY <2>1, <2>4
<1>4. \A k \in 0..n : k \in S
  <2> HIDE DEF S
  <2> QED
    BY <1>2, <1>3, UpTo
<1> QED
  BY <1>4

Begins(s, t) == Len(s) <= Len(t) /\ \A k \in 1..Len(s) : t[k] = s[k]

LEMMA BeginsOn ==
    ASSUME NEW s \in Seq(Nat), NEW t \in Seq(Nat), NEW e \in Nat, Begins(s, t)
    PROVE  Begins(s, Append(t, e))
<1>1. PICK u : u = Append(t, e)
  OBVIOUS
<1>2. Len(u) = Len(t) + 1 /\ (\A k \in 1..Len(t) : u[k] = t[k]) /\ Len(t) \in Nat /\ Len(s) \in Nat
  BY <1>1
<1>3. Len(s) <= Len(t) /\ \A k \in 1..Len(s) : t[k] = s[k]
  BY DEF Begins
<1>4. Len(s) <= Len(u) /\ \A k \in 1..Len(s) : k \in 1..Len(t)
  BY <1>2, <1>3
<1>5. \A k \in 1..Len(s) : u[k] = s[k]
  BY <1>2, <1>3, <1>4
<1>6. Begins(s, u)
  BY <1>4, <1>5 DEF Begins
<1> QED
  BY <1>1, <1>6

\* The first m tokens of a file have the places H before n where the first n of the other have them.
Longer(old, H, n, file, G, m, g) ==
    /\ n \in Nat /\ m \in Nat /\ n <= m /\ n \notin H
    /\ \A i \in 1..m : file[i].row \in Nat
    /\ \A k \in 0..m : g[k] \in Seq(Nat)
    /\ \A i \in 1..n - 1 : (i \in H <=> i \in G) /\ old[i].row = file[i].row

LEMMA ScanGrows ==
    ASSUME NEW old, NEW H, NEW n, NEW f, Scans(f, old, H, n),
           NEW file, NEW G, NEW m, NEW g, Scans(g, file, G, m), Longer(old, H, n, file, G, m, g)
    PROVE  Begins(f[n], g[m])
<1>0. /\ n \in Nat /\ m \in Nat /\ n <= m /\ n \notin H
      /\ \A i \in 1..m : file[i].row \in Nat
      /\ \A k \in 0..m : g[k] \in Seq(Nat)
      /\ \A i \in 1..n - 1 : (i \in H <=> i \in G) /\ old[i].row = file[i].row
  BY DEF Longer
<1> DEFINE S == {k \in 0..m : IF k < n THEN f[k] = g[k] ELSE f[n] \in Seq(Nat) /\ Begins(f[n], g[k])}
<1>1. \A k \in 0..n : f[k] = IF k = 0 THEN <<>> ELSE IF k \in H THEN Append(f[k - 1], old[k].row) ELSE f[k - 1]
  BY DEF Scans
<1>2. \A k \in 0..m : g[k] = IF k = 0 THEN <<>> ELSE IF k \in G THEN Append(g[k - 1], file[k].row) ELSE g[k - 1]
  BY <1>0 DEF Scans
<1>3. \A s \in Seq(Nat) : Begins(s, s)
  BY DEF Begins
<1>4. 0 \in S
  <2>1. 0 \in 0..m /\ 0 \in 0..n /\ f[0] = g[0] /\ g[0] \in Seq(Nat)
    BY <1>0, <1>1, <1>2
  <2>2. CASE n = 0
    BY <1>0, <1>3, <2>1, <2>2
  <2>3. CASE 0 < n
    BY <2>1, <2>3
  <2> QED
    BY <1>0, <2>2, <2>3
<1>5. ASSUME NEW k \in 1..m, k - 1 \in S PROVE k \in S
  <2>1. k \in 0..m /\ k - 1 \in 0..m /\ k # 0
        /\ g[k] = (IF k \in G THEN Append(g[k - 1], file[k].row) ELSE g[k - 1])
    BY <1>0, <1>2
  <2>2. CASE k < n
    <3>1. k \in 0..n /\ k \in 1..n - 1 /\ k - 1 < n
      BY <1>0, <2>2
    <3>2. f[k] = g[k]
      BY <1>0, <1>1, <1>5, <2>1, <3>1
    <3> QED
      BY <2>1, <2>2, <3>2
  <2>3. CASE n <= k
    <3>1. f[n] \in Seq(Nat) /\ Begins(f[n], g[k - 1])
      <4>1. CASE n = k
        <5>1. k - 1 < n /\ n \in 0..n
          BY <1>0, <4>1
        <5>2. f[n] = g[k - 1]
          BY <1>0, <1>1, <1>5, <2>1, <4>1, <5>1
        <5> QED
          BY <1>0, <1>3, <2>1, <5>2
      <4>2. CASE n < k
        <5>1. ~(k - 1 < n)
          BY <1>0, <4>2
        <5> QED
          BY <1>5, <5>1
      <4> QED
        BY <1>0, <2>3, <4>1, <4>2
    <3>2. Begins(f[n], g[k])
      BY <1>0, <2>1, <3>1, BeginsOn
    <3>3. ~(k < n)
      BY <1>0, <2>3
    <3> QED
      BY <2>1, <3>1, <3>2, <3>3
  <2> QED
    BY <1>0, <2>2, <2>3
<1>6. \A k \in 0..m : k \in S
  <2> HIDE DEF S
  <2> QED
    BY <1>0, <1>4, <1>5, UpTo
<1>7. m \in 0..m /\ ~(m < n)
  BY <1>0
<1> QED
  BY <1>6, <1>7

-----------------------------------------------------------------------------
(* Files.                                                                  *)

LedTokens == [row : Nat, part : 1..3]

Has(file, n, part) == \E i \in 1..Len(file) : file[i].row = n /\ file[i].part = part

\* Each token is there once, and behind the one before it.
GoodFile(file) ==
    /\ file \in Seq(LedTokens)
    /\ \A i, j \in 1..Len(file) : file[i].row = file[j].row /\ file[i].part = file[j].part => i = j
    /\ \A i \in 1..Len(file) : file[i].part # 1 =>
         \E j \in 1..i - 1 : file[j].row = file[i].row /\ file[j].part = file[i].part - 1

\* Behind the place i another row begins on the same line.
Joint(file, i) == i \in 1..Len(file) - 1 /\ file[i].part # 3 /\ file[i].row # file[i + 1].row
Joins(file, S) ==
    /\ \A i \in 1..Len(file) : Joint(file, i) => {file[i].row, file[i + 1].row} \in S
    /\ \A pair \in S : \E i \in 1..Len(file) : Joint(file, i) /\ pair = {file[i].row, file[i + 1].row}

\* A line of one row, the last one perhaps without its end.
Line(file, i) ==
    /\ i < Len(file) /\ file[i].part = 1 /\ file[i + 1].row = file[i].row /\ file[i + 1].part = 2
    /\ i > 1 => file[i - 1].part = 3
    /\ i + 2 <= Len(file) => file[i + 2].part = 3

LEMMA PlaceType ==
    ASSUME NEW file, GoodFile(file), NEW i \in 1..Len(file)
    PROVE  file[i].row \in Nat /\ file[i].part \in 1..3 /\ Len(file) \in Nat /\ i \in Nat
<1>1. file \in Seq(LedTokens)
  BY DEF GoodFile
<1>2. file[i] \in LedTokens
  BY <1>1
<1>3. Len(file) \in Nat
  BY <1>1
<1> QED
  BY <1>2, <1>3 DEF LedTokens

\* The parts of a row come in their order.
LEMMA PartsInOrder ==
    ASSUME NEW file, GoodFile(file), NEW i \in 1..Len(file), NEW j \in 1..Len(file),
           file[i].row = file[j].row, file[i].part < file[j].part
    PROVE  i < j
<1>1. /\ file[i].part \in 1..3 /\ file[j].part \in 1..3 /\ Len(file) \in Nat
  BY PlaceType
<1>2. PICK k \in 1..j - 1 : file[k].row = file[j].row /\ file[k].part = file[j].part - 1
  BY <1>1 DEF GoodFile
<1>3. k \in 1..Len(file) /\ k < j
  BY <1>1
<1>4. CASE file[i].part = file[j].part - 1
  BY <1>2, <1>3, <1>4 DEF GoodFile
<1>5. CASE file[i].part = 1 /\ file[j].part = 3
  <2>1. PICK l \in 1..k - 1 : file[l].row = file[k].row /\ file[l].part = file[k].part - 1
    <3>1. file[k].part # 1
      BY <1>2, <1>5
    <3> QED
      BY <1>3, <3>1 DEF GoodFile
  <2>2. l \in 1..Len(file) /\ l < k /\ file[l].part = 1
    BY <1>1, <1>2, <1>3, <1>5, <2>1
  <2>3. l = i
    BY <1>2, <1>5, <2>1, <2>2 DEF GoodFile
  <2> QED
    BY <1>3, <2>2, <2>3
<1> QED
  BY <1>1, <1>4, <1>5

\* A row that shares no line and is there as a whole has a line.
LEMMA WholeRowHasLine ==
    ASSUME NEW file, NEW S, GoodFile(file), Joins(file, S), NEW n, \A part \in 1..3 : Has(file, n, part),
           n \notin UNION S
    PROVE  \E i \in 1..Len(file) : Line(file, i) /\ file[i].row = n
<1>1. PICK a \in 1..Len(file) : file[a].row = n /\ file[a].part = 1
  BY DEF Has
<1>2. PICK b \in 1..Len(file) : file[b].row = n /\ file[b].part = 2
  BY DEF Has
<1>3. PICK c \in 1..Len(file) : file[c].row = n /\ file[c].part = 3
  BY DEF Has
<1>4. a < b /\ b < c
  BY <1>1, <1>2, <1>3, PartsInOrder
<1>5. Len(file) \in Nat /\ a \in Nat /\ b \in Nat /\ c \in Nat
  BY <1>1, <1>2, <1>3
<1>6. ASSUME NEW i \in 1..Len(file) - 1, file[i].row = n \/ file[i + 1].row = n, file[i].part # 3
      PROVE  file[i].row = n /\ file[i + 1].row = n
  <2>1. SUFFICES ASSUME file[i].row # file[i + 1].row PROVE FALSE
    BY <1>6
  <2>2. i \in 1..Len(file) /\ Joint(file, i)
    BY <1>5, <1>6, <2>1 DEF Joint
  <2>3. {file[i].row, file[i + 1].row} \in S
    BY <2>2 DEF Joins
  <2> QED
    BY <1>6, <2>3
<1>7. ASSUME NEW i \in 1..Len(file), file[i].row = n PROVE i \in {a, b, c}
  <2>1. file[i].part \in 1..3
    BY PlaceType
  <2>2. file[i].part = 1 \/ file[i].part = 2 \/ file[i].part = 3
    BY <2>1
  <2> QED
    BY <1>1, <1>2, <1>3, <1>7, <2>2 DEF GoodFile
<1>8. b = a + 1
  <2>1. a \in 1..Len(file) - 1 /\ a + 1 \in 1..Len(file)
    BY <1>1, <1>2, <1>4, <1>5
  <2>2. a + 1 \in {a, b, c}
    BY <1>1, <1>6, <1>7, <2>1
  <2> QED
    BY <1>4, <1>5, <2>2
<1>9. c = b + 1
  <2>1. b \in 1..Len(file) - 1 /\ b + 1 \in 1..Len(file)
    BY <1>2, <1>3, <1>4, <1>5
  <2>2. b + 1 \in {a, b, c}
    BY <1>2, <1>6, <1>7, <2>1
  <2> QED
    BY <1>4, <1>5, <2>2
<1>10. ASSUME a > 1 PROVE file[a - 1].part = 3
  <2>1. a - 1 \in 1..Len(file) - 1 /\ a - 1 \in 1..Len(file) /\ (a - 1) + 1 = a
    BY <1>1, <1>5, <1>10
  <2>2. SUFFICES ASSUME file[a - 1].part # 3 PROVE FALSE
    OBVIOUS
  <2>3. file[a - 1].row = n
    BY <1>1, <1>6, <2>1, <2>2
  <2>4. a - 1 \in {a, b, c}
    BY <1>7, <2>1, <2>3
  <2> QED
    BY <1>4, <1>5, <2>4
<1>11. a < Len(file) /\ a + 2 = c
  BY <1>2, <1>4, <1>5, <1>8, <1>9
<1>12. Line(file, a)
  BY <1>1, <1>2, <1>3, <1>8, <1>10, <1>11 DEF Line
<1> QED
  BY <1>1, <1>12

\* A file that has grown, with no new rows that share a line, has the lines it had.
LEMMA LinesStay ==
    ASSUME NEW file, NEW out, NEW S, GoodFile(file), Joins(file, S), GoodFile(out), Joins(out, S),
           Len(file) <= Len(out), \A i \in 1..Len(file) : out[i] = file[i],
           NEW i \in 1..Len(file) - 1
    PROVE  Line(file, i) <=> Line(out, i)
<1>1. Len(file) \in Nat /\ Len(out) \in Nat /\ i \in 1..Len(file) /\ i + 1 \in 1..Len(file) /\ i \in Nat
  BY DEF GoodFile
<1>2. out[i] = file[i] /\ out[i + 1] = file[i + 1] /\ i < Len(file) /\ i < Len(out)
  BY <1>1
<1>3. i > 1 => out[i - 1] = file[i - 1]
  BY <1>1
<1>4. i + 2 <= Len(file) => out[i + 2] = file[i + 2] /\ i + 2 <= Len(out)
  BY <1>1
<1>5. CASE i + 2 <= Len(file) \/ ~(i + 2 <= Len(out)) \/ ~Line(file, i)
  BY <1>1, <1>2, <1>3, <1>4, <1>5 DEF Line
<1>6. CASE ~(i + 2 <= Len(file)) /\ i + 2 <= Len(out) /\ Line(file, i)
  <2>1. SUFFICES ASSUME out[i + 2].part # 3 PROVE FALSE
    BY <1>2, <1>3, <1>6, <2>1 DEF Line
  <2>2. Len(file) = i + 1 /\ i + 2 \in 1..Len(out) /\ i + 1 \in 1..Len(out) - 1 /\ i \in 1..Len(out)
        /\ i + 1 \in 1..Len(out) /\ (i + 1) + 1 = i + 2
    BY <1>1, <1>6
  <2>3. PICK n : n = file[i].row
    OBVIOUS
  <2>4. file[i].part = 1 /\ file[i + 1].row = n /\ file[i + 1].part = 2 /\ (i > 1 => file[i - 1].part = 3)
    BY <1>6, <2>3 DEF Line
  <2>5. out[i + 2].row # n
    <3>1. SUFFICES ASSUME out[i + 2].row = n PROVE FALSE
      OBVIOUS
    <3>2. out[i + 2].part = 1 \/ out[i + 2].part = 2
      BY <2>1, <2>2, PlaceType
    <3>3. i + 2 = i \/ i + 2 = i + 1
      BY <1>2, <2>2, <2>3, <2>4, <3>1, <3>2 DEF GoodFile
    <3> QED
      BY <1>1, <3>3
  <2>6. Joint(out, i + 1)
    <3>1. out[i + 1].part = 2 /\ out[i + 1].row = n
      BY <1>2, <2>4
    <3>2. out[(i + 1) + 1].row # n
      BY <2>2, <2>5
    <3> QED
      BY <2>2, <3>1, <3>2 DEF Joint
  <2>7. {n, out[i + 2].row} \in S
    BY <1>2, <2>2, <2>4, <2>6 DEF Joins
  <2>8. PICK j \in 1..Len(file) : Joint(file, j) /\ {n, out[i + 2].row} = {file[j].row, file[j + 1].row}
    BY <2>7 DEF Joins
  <2>9. j \in 1..Len(file) - 1 /\ j + 1 \in 1..Len(file) /\ file[j].part # 3 /\ file[j].row # file[j + 1].row
    BY <1>1, <2>8 DEF Joint
  <2>10. file[j].row = n \/ file[j + 1].row = n
    BY <2>8
  <2>11. CASE file[j].row = n
    <3>1. file[j].part = 1 \/ file[j].part = 2
      BY <2>9, PlaceType
    <3>2. j = i \/ j = i + 1
      BY <1>1, <2>3, <2>4, <2>11, <3>1 DEF GoodFile
    <3> QED
      BY <1>1, <2>2, <2>3, <2>4, <2>9, <2>11, <3>2
  <2>12. CASE file[j + 1].row = n
    <3>1. file[j + 1].part = 1 \/ file[j + 1].part = 2 \/ file[j + 1].part = 3
      BY <2>9, PlaceType
    <3>2. CASE file[j + 1].part = 1
      <4>1. j + 1 = i
        BY <1>1, <2>3, <2>4, <2>9, <2>12, <3>2 DEF GoodFile
      <4>2. i > 1 /\ i - 1 = j
        BY <1>1, <2>9, <4>1
      <4> QED
        BY <2>4, <2>9, <4>2
    <3>3. CASE file[j + 1].part = 2
      <4>1. j + 1 = i + 1
        BY <1>1, <2>3, <2>4, <2>9, <2>12, <3>3 DEF GoodFile
      <4>2. j = i
        BY <1>1, <2>9, <4>1
      <4> QED
        BY <2>3, <2>9, <2>12, <4>2
    <3>4. CASE file[j + 1].part = 3
      <4>1. i + 1 < j + 1
        <5>1. file[i + 1].row = file[j + 1].row /\ file[i + 1].part < file[j + 1].part
          BY <2>4, <2>12, <3>4
        <5>2. i + 1 \in 1..Len(file) /\ j + 1 \in 1..Len(file)
          BY <1>1, <2>9
        <5> QED
          BY <5>1, <5>2, PartsInOrder
      <4> QED
        BY <1>1, <2>2, <2>9, <4>1
    <3> QED
      BY <3>1, <3>2, <3>3, <3>4
  <2> QED
    BY <2>10, <2>11, <2>12
<1> QED
  BY <1>5, <1>6

\* What may be written behind a file.
Fits(file, piece) ==
    /\ piece \in Seq(LedTokens)
    /\ \A i \in 1..Len(piece) : ~Has(file, piece[i].row, piece[i].part)
    /\ \A i, j \in 1..Len(piece) : piece[i].row = piece[j].row /\ piece[i].part = piece[j].part => i = j
    /\ \A i \in 1..Len(piece) : piece[i].part # 1 =>
         \/ Has(file, piece[i].row, piece[i].part - 1)
         \/ \E j \in 1..i - 1 : piece[j].row = piece[i].row /\ piece[j].part = piece[i].part - 1
    /\ \A i \in 1..Len(piece) - 1 : piece[i].part # 3 => piece[i].row = piece[i + 1].row

\* The sequence out is file with piece behind it.
Glued(out, file, piece, L) ==
    /\ out \in Seq(LedTokens) /\ L \in Nat /\ Len(piece) \in Nat /\ Len(out) = L + Len(piece)
    /\ \A i \in 1..L : out[i] = file[i]
    /\ \A j \in 1..Len(piece) : out[L + j] = piece[j]
    /\ \A i \in 1..Len(out) : i \in 1..L \/ \E j \in 1..Len(piece) : i = L + j

LEMMA Behind ==
    ASSUME NEW file \in Seq(LedTokens), NEW piece \in Seq(LedTokens)
    PROVE  Glued(file \o piece, file, piece, Len(file))
<1>0. PICK out : out = file \o piece
  OBVIOUS
<1>1. out \in Seq(LedTokens) /\ Len(out) = Len(file) + Len(piece) /\ Len(file) \in Nat /\ Len(piece) \in Nat
  BY <1>0
<1>2. \A i \in 1..Len(file) : out[i] = file[i]
  BY <1>0
<1>3. \A j \in 1..Len(piece) : out[Len(file) + j] = piece[j]
  BY <1>0
<1>4. ASSUME NEW i \in 1..Len(out), i \notin 1..Len(file) PROVE \E j \in 1..Len(piece) : i = Len(file) + j
  <2>1. i - Len(file) \in 1..Len(piece) /\ i = Len(file) + (i - Len(file))
    BY <1>1, <1>4
  <2> QED
    BY <2>1
<1>5. Glued(out, file, piece, Len(file))
  BY <1>1, <1>2, <1>3, <1>4 DEF Glued
<1> QED
  BY <1>0, <1>5

LEMMA FileGrows ==
    ASSUME NEW file, GoodFile(file), NEW piece, Fits(file, piece), NEW out, out = file \o piece
    PROVE  GoodFile(out)
<1>0. file \in Seq(LedTokens) /\ piece \in Seq(LedTokens)
  BY DEF GoodFile, Fits
<1>1. PICK L : L = Len(file)
  OBVIOUS
<1>2. /\ out \in Seq(LedTokens) /\ L \in Nat /\ Len(piece) \in Nat
      /\ \A i \in 1..L : out[i] = file[i]
      /\ \A j \in 1..Len(piece) : out[L + j] = piece[j]
      /\ \A i \in 1..Len(out) : i \in 1..L \/ \E j \in 1..Len(piece) : i = L + j
  <2>1. Glued(out, file, piece, L)
    BY <1>0, <1>1, Behind
  <2> QED
    BY <2>1 DEF Glued
<1>3. ASSUME NEW i \in 1..Len(out), NEW j \in 1..Len(out), out[i].row = out[j].row, out[i].part = out[j].part
      PROVE  i = j
  <2>1. ASSUME NEW a \in 1..L, NEW b \in 1..Len(piece)
        PROVE  ~(file[a].row = piece[b].row /\ file[a].part = piece[b].part)
    BY <1>1 DEF Fits, Has
  <2>2. CASE i \in 1..L /\ j \in 1..L
    BY <1>1, <1>2, <1>3, <2>2 DEF GoodFile
  <2>3. CASE i \notin 1..L /\ j \notin 1..L
    <3>1. PICK a \in 1..Len(piece) : i = L + a
      BY <1>2, <2>3
    <3>2. PICK b \in 1..Len(piece) : j = L + b
      BY <1>2, <2>3
    <3>3. out[i] = piece[a] /\ out[j] = piece[b]
      BY <1>2, <3>1, <3>2
    <3>4. piece[a].row = piece[b].row /\ piece[a].part = piece[b].part
      BY <1>3, <3>3
    <3>5. a = b
      BY <3>4 DEF Fits
    <3> QED
      BY <3>1, <3>2, <3>5
  <2>4. CASE i \in 1..L /\ j \notin 1..L
    <3>1. PICK b \in 1..Len(piece) : j = L + b
      BY <1>2, <2>4
    <3> QED
      BY <1>2, <1>3, <2>1, <2>4, <3>1
  <2>5. CASE i \notin 1..L /\ j \in 1..L
    <3>1. PICK b \in 1..Len(piece) : i = L + b
      BY <1>2, <2>5
    <3> QED
      BY <1>2, <1>3, <2>1, <2>5, <3>1
  <2> QED
    BY <2>2, <2>3, <2>4, <2>5
<1>4. ASSUME NEW i \in 1..Len(out), out[i].part # 1
      PROVE  \E j \in 1..i - 1 : out[j].row = out[i].row /\ out[j].part = out[i].part - 1
  <2>1. CASE i \in 1..L
    <3>1. PICK j \in 1..i - 1 : file[j].row = file[i].row /\ file[j].part = file[i].part - 1
      BY <1>1, <1>2, <1>4, <2>1 DEF GoodFile
    <3>2. j \in 1..L
      BY <1>2, <2>1
    <3> QED
      BY <1>2, <2>1, <3>1, <3>2
  <2>2. CASE i \notin 1..L
    <3>1. PICK a \in 1..Len(piece) : i = L + a
      BY <1>2, <2>2
    <3>2. out[i] = piece[a] /\ piece[a].part # 1
      BY <1>2, <1>4, <3>1
    <3>3. CASE Has(file, piece[a].row, piece[a].part - 1)
      <4>1. PICK j \in 1..L : file[j].row = piece[a].row /\ file[j].part = piece[a].part - 1
        BY <1>1, <3>3 DEF Has
      <4>2. j \in 1..i - 1
        BY <1>2, <3>1
      <4> QED
        BY <1>2, <3>2, <4>1, <4>2
    <3>4. CASE \E b \in 1..a - 1 : piece[b].row = piece[a].row /\ piece[b].part = piece[a].part - 1
      <4>1. PICK b \in 1..a - 1 : piece[b].row = piece[a].row /\ piece[b].part = piece[a].part - 1
        BY <3>4
      <4>2. b \in 1..Len(piece) /\ L + b \in 1..i - 1
        BY <1>2, <3>1
      <4>3. out[L + b] = piece[b]
        BY <1>2, <4>2
      <4> QED
        BY <3>2, <4>1, <4>2, <4>3
    <3> QED
      BY <3>2, <3>3, <3>4 DEF Fits
  <2> QED
    BY <2>1, <2>2
<1> QED
  BY <1>2, <1>3, <1>4 DEF GoodFile

\* The rows that share a line once the piece is written behind the file, as Shares has it.
ShareOf(file, piece) ==
    IF piece = <<>> \/ file = <<>> \/ file[Len(file)].part = 3 \/ file[Len(file)].row = piece[1].row THEN {}
    ELSE {{file[Len(file)].row, piece[1].row}}

LEMMA JoinsGrow ==
    ASSUME NEW file, GoodFile(file), NEW S, Joins(file, S), NEW piece, Fits(file, piece), NEW out, out = file \o piece
    PROVE  Joins(out, S \cup ShareOf(file, piece))
<1>0. file \in Seq(LedTokens) /\ piece \in Seq(LedTokens)
  BY DEF GoodFile, Fits
<1>1. PICK L : L = Len(file)
  OBVIOUS
<1>2. /\ out \in Seq(LedTokens) /\ L \in Nat /\ Len(piece) \in Nat /\ Len(out) = L + Len(piece)
      /\ \A i \in 1..L : out[i] = file[i]
      /\ \A j \in 1..Len(piece) : out[L + j] = piece[j]
      /\ \A i \in 1..Len(out) : i \in 1..L \/ \E j \in 1..Len(piece) : i = L + j
  <2>1. Glued(out, file, piece, L)
    BY <1>0, <1>1, Behind
  <2> QED
    BY <2>1 DEF Glued
<1>3. ASSUME NEW i \in 1..Len(out), Joint(out, i)
      PROVE  \/ Joint(file, i) /\ out[i] = file[i] /\ out[i + 1] = file[i + 1] /\ i \in 1..L
             \/ {out[i].row, out[i + 1].row} \in ShareOf(file, piece)
  <2>1. i \in 1..Len(out) - 1 /\ out[i].part # 3 /\ out[i].row # out[i + 1].row
    BY <1>3 DEF Joint
  <2>2. CASE i \in 1..L - 1
    <3>1. i \in 1..L /\ i + 1 \in 1..L
      BY <1>2, <2>2
    <3> QED
      BY <1>1, <1>2, <2>1, <2>2, <3>1 DEF Joint
  <2>3. CASE i = L
    <3>1. L \in 1..L /\ 1 \in 1..Len(piece)
      BY <1>2, <2>1, <2>3
    <3>2. out[i] = file[L] /\ out[i + 1] = piece[1]
      BY <1>2, <2>3, <3>1
    <3>3. piece # <<>> /\ file # <<>>
      BY <1>0, <1>1, <3>1
    <3> QED
      BY <1>1, <2>1, <3>2, <3>3 DEF ShareOf
  <2>4. CASE i \notin 1..L
    <3>1. PICK a \in 1..Len(piece) : i = L + a
      BY <1>2, <2>4
    <3>2. a \in 1..Len(piece) - 1 /\ a + 1 \in 1..Len(piece) /\ i + 1 = L + (a + 1)
      <4>1. L \in Nat /\ Len(piece) \in Nat /\ i \in 1..(L + Len(piece)) - 1
        BY <1>2, <2>1
      <4>2. a < Len(piece) /\ a \in Nat /\ 1 <= a
        BY <3>1, <4>1
      <4> QED
        BY <3>1, <4>1, <4>2
    <3>3. out[i] = piece[a] /\ out[i + 1] = piece[a + 1]
      BY <1>2, <3>1, <3>2
    <3> QED
      BY <2>1, <3>2, <3>3 DEF Fits
  <2>5. i \in 1..L - 1 \/ i = L \/ i \notin 1..L
    BY <1>2
  <2> QED
    BY <2>2, <2>3, <2>4, <2>5
<1>4. ASSUME NEW i \in 1..L, Joint(file, i)
      PROVE  i \in 1..Len(out) /\ Joint(out, i) /\ out[i] = file[i] /\ out[i + 1] = file[i + 1]
  <2>1. i \in 1..L - 1 /\ i \in 1..L /\ i + 1 \in 1..L /\ i \in 1..Len(out) - 1 /\ i \in 1..Len(out)
    BY <1>1, <1>2, <1>4 DEF Joint
  <2>2. out[i] = file[i] /\ out[i + 1] = file[i + 1]
    BY <1>2, <2>1
  <2> QED
    BY <1>4, <2>1, <2>2 DEF Joint
<1>5. ASSUME NEW pair \in ShareOf(file, piece)
      PROVE  \E i \in 1..Len(out) : Joint(out, i) /\ pair = {out[i].row, out[i + 1].row}
  <2>1. piece # <<>> /\ file # <<>> /\ file[L].part # 3 /\ file[L].row # piece[1].row
        /\ pair = {file[L].row, piece[1].row}
    BY <1>1, <1>5 DEF ShareOf
  <2>2. L # 0 /\ Len(piece) # 0
    BY <1>0, <1>1, <2>1, EmptySeq
  <2>3. L \in 1..L /\ 1 \in 1..Len(piece) /\ L \in 1..Len(out) - 1 /\ L \in 1..Len(out)
    BY <1>2, <2>2
  <2>4. out[L] = file[L] /\ out[L + 1] = piece[1]
    BY <1>2, <2>3
  <2>5. Joint(out, L)
    BY <2>1, <2>3, <2>4 DEF Joint
  <2> QED
    BY <2>1, <2>3, <2>4, <2>5
<1>6. ASSUME NEW i \in 1..Len(out), Joint(out, i) PROVE {out[i].row, out[i + 1].row} \in S \cup ShareOf(file, piece)
  BY <1>1, <1>3, <1>6 DEF Joins
<1>7. ASSUME NEW pair \in S PROVE \E i \in 1..Len(out) : Joint(out, i) /\ pair = {out[i].row, out[i + 1].row}
  <2>1. PICK i \in 1..L : Joint(file, i) /\ pair = {file[i].row, file[i + 1].row}
    BY <1>1, <1>7 DEF Joins
  <2>2. i \in 1..Len(out) /\ Joint(out, i) /\ pair = {out[i].row, out[i + 1].row}
    BY <1>4, <2>1
  <2> QED
    BY <2>2
<1> QED
  BY <1>5, <1>6, <1>7 DEF Joins

-----------------------------------------------------------------------------
(* The records of the file.                                                *)

Counts(rows, of, large, n) ==
    rows[n].kind.valid /\ (large \/ ~rows[n].kind.divided) /\ (of = "all" \/ rows[n].kind.run = of)
Hits(file, rows, of, large) == {i \in 1..Len(file) : Line(file, i) /\ Counts(rows, of, large, file[i].row)}

LEMMA RecordIs ==
    ASSUME GoodFile(ledFile), NEW of, NEW large, NEW k \in 1..Len(ledFile)
    PROVE  (LineAt(ledFile, k) /\ Sought(of, large, ledFile[k].row))
             <=> k \in Hits(ledFile, ledRows, of, large)
<1>1. \A i \in 1..Len(ledFile) : ledFile[i] \in LedTokens
  BY DEF GoodFile
<1>2. k < Len(ledFile) =>
        (ledFile[k + 1] = [ledFile[k] EXCEPT !.part = 2]
          <=> ledFile[k + 1].row = ledFile[k].row /\ ledFile[k + 1].part = 2)
  <2>1. SUFFICES ASSUME k < Len(ledFile)
                 PROVE  ledFile[k + 1] = [ledFile[k] EXCEPT !.part = 2]
                          <=> ledFile[k + 1].row = ledFile[k].row /\ ledFile[k + 1].part = 2
    OBVIOUS
  <2>2. k + 1 \in 1..Len(ledFile)
    BY <2>1, PlaceType
  <2>3. PICK s \in LedTokens : s = ledFile[k]
    BY <1>1
  <2>4. PICK t \in LedTokens : t = ledFile[k + 1]
    BY <1>1, <2>2
  <2>5. t = [s EXCEPT !.part = 2] <=> t.row = s.row /\ t.part = 2
    BY DEF LedTokens
  <2> QED
    BY <2>3, <2>4, <2>5
<1> QED
  BY <1>2 DEF LineAt, Sought, Hits, Line, Counts, IsEnd

LEMMA RecordIsNext ==
    ASSUME GoodFile(ledFile'), NEW of, NEW large, NEW k \in 1..Len(ledFile')
    PROVE  (LineAt(ledFile, k)' /\ Sought(of, large, ledFile[k].row)')
             <=> k \in Hits(ledFile', ledRows', of, large)
<1>1. \A i \in 1..Len(ledFile') : ledFile'[i] \in LedTokens
  BY DEF GoodFile
<1>2. k < Len(ledFile') =>
        (ledFile'[k + 1] = [ledFile'[k] EXCEPT !.part = 2]
          <=> ledFile'[k + 1].row = ledFile'[k].row /\ ledFile'[k + 1].part = 2)
  <2>1. SUFFICES ASSUME k < Len(ledFile')
                 PROVE  ledFile'[k + 1] = [ledFile'[k] EXCEPT !.part = 2]
                          <=> ledFile'[k + 1].row = ledFile'[k].row /\ ledFile'[k + 1].part = 2
    OBVIOUS
  <2>2. k + 1 \in 1..Len(ledFile')
    BY <2>1, PlaceType
  <2>3. PICK s \in LedTokens : s = ledFile'[k]
    BY <1>1
  <2>4. PICK t \in LedTokens : t = ledFile'[k + 1]
    BY <1>1, <2>2
  <2>5. t = [s EXCEPT !.part = 2] <=> t.row = s.row /\ t.part = 2
    BY DEF LedTokens
  <2> QED
    BY <2>3, <2>4, <2>5
<1> QED
  BY <1>2 DEF LineAt, Sought, Hits, Line, Counts, IsEnd

LEMMA EventsAre ==
    ASSUME GoodFile(ledFile), NEW of, NEW large
    PROVE  \E f : Scans(f, ledFile, Hits(ledFile, ledRows, of, large), Len(ledFile))
            /\ Events(of, large) = f[Len(ledFile)]
<1> DEFINE H == Hits(ledFile, ledRows, of, large)
           Raw(f) == f = [k \in 0..Len(ledFile) |->
                            IF k = 0 THEN <<>>
                            ELSE IF LineAt(ledFile, k) /\ Sought(of, large, ledFile[k].row)
                                 THEN Append(f[k - 1], ledFile[k].row) ELSE f[k - 1]]
<1>1. \A k \in 0..Len(ledFile) : k # 0 =>
        ((LineAt(ledFile, k) /\ Sought(of, large, ledFile[k].row)) <=> k \in H)
  <2>1. \A k \in 0..Len(ledFile) : k # 0 => k \in 1..Len(ledFile)
    OBVIOUS
  <2> HIDE DEF H
  <2> QED
    BY <2>1, RecordIs DEF H
<1>2. \A f : Raw(f) <=> Scans(f, ledFile, H, Len(ledFile))
  <2> HIDE DEF H
  <2> QED
    BY <1>1 DEF Scans
<1>3. PICK f : Scans(f, ledFile, H, Len(ledFile))
  <2>1. Len(ledFile) \in Nat
    BY DEF GoodFile
  <2> HIDE DEF H
  <2> QED
    BY <2>1, ScansExist
<1>4. \E c : Raw(c)
  BY <1>2, <1>3
<1>5. PICK g : g = CHOOSE c : Raw(c)
  OBVIOUS
<1>6. Raw(g)
  BY <1>4, <1>5
<1>7. Events(of, large) = g[Len(ledFile)]
  BY <1>5 DEF Events
<1> QED
  BY <1>2, <1>6, <1>7

LEMMA EventsAreNext ==
    ASSUME GoodFile(ledFile'), NEW of, NEW large
    PROVE  \E f : Scans(f, ledFile', Hits(ledFile', ledRows', of, large), Len(ledFile'))
            /\ Events(of, large)' = f[Len(ledFile')]
<1> DEFINE H == Hits(ledFile', ledRows', of, large)
           Raw(f) == f = [k \in 0..Len(ledFile') |->
                            IF k = 0 THEN <<>>
                            ELSE IF LineAt(ledFile, k)' /\ Sought(of, large, ledFile[k].row)'
                                 THEN Append(f[k - 1], ledFile'[k].row) ELSE f[k - 1]]
<1>1. \A k \in 0..Len(ledFile') : k # 0 =>
        ((LineAt(ledFile, k)' /\ Sought(of, large, ledFile[k].row)') <=> k \in H)
  <2>1. \A k \in 0..Len(ledFile') : k # 0 => k \in 1..Len(ledFile')
    OBVIOUS
  <2> HIDE DEF H
  <2> QED
    BY <2>1, RecordIsNext DEF H
<1>2. \A f : Raw(f) <=> Scans(f, ledFile', H, Len(ledFile'))
  <2> HIDE DEF H
  <2> QED
    BY <1>1 DEF Scans
<1>3. PICK f : Scans(f, ledFile', H, Len(ledFile'))
  <2>1. Len(ledFile') \in Nat
    BY DEF GoodFile
  <2> HIDE DEF H
  <2> QED
    BY <2>1, ScansExist
<1>4. \E c : Raw(c)
  BY <1>2, <1>3
<1>5. PICK g : g = CHOOSE c : Raw(c)
  OBVIOUS
<1>6. Raw(g)
  BY <1>4, <1>5
<1>7. Events(of, large)' = g[Len(ledFile')]
  BY <1>5 DEF Events
<1> QED
  BY <1>2, <1>6, <1>7

\* What a scan of a file is.
LEMMA ScanOfFile ==
    ASSUME NEW file, GoodFile(file), NEW rows, NEW of, NEW large, NEW f,
               Scans(f, file, Hits(file, rows, of, large), Len(file))
    PROVE  \A k \in 0..Len(file) : Reads(f[k], file, Hits(file, rows, of, large), k)
<1> DEFINE H == Hits(file, rows, of, large)
<1>1. Len(file) \in Nat /\ \A i \in 1..Len(file) : file[i].row \in Nat
  BY PlaceType DEF GoodFile
<1>2. ASSUME NEW i \in 1..Len(file), NEW j \in 1..Len(file), i \in H, j \in H, file[i].row = file[j].row
      PROVE  i = j
  <2>1. file[i].part = 1 /\ file[j].part = 1
    BY <1>2 DEF Hits, Line
  <2> QED
    BY <1>2, <2>1 DEF GoodFile
<1> HIDE DEF H
<1>3. \A k \in 0..Len(file) : Reads(f[k], file, H, k)
  BY <1>1, <1>2, ScanReads DEF H
<1> QED
  BY <1>3 DEF H

\* A file that has grown with no new rows that share a line begins with the records it had.
LEMMA EventsGrow ==
    ASSUME GoodFile(ledFile), GoodFile(ledFile'), NEW S, Joins(ledFile, S), Joins(ledFile', S),
           Len(ledFile) <= Len(ledFile'), \A i \in 1..Len(ledFile) : ledFile'[i] = ledFile[i],
           \A i \in 1..Len(ledFile) : ledRows'[ledFile[i].row] = ledRows[ledFile[i].row], NEW of, NEW large
    PROVE  Begins(Events(of, large), Events(of, large)')
<1>1. PICK f : Scans(f, ledFile, Hits(ledFile, ledRows, of, large), Len(ledFile)) /\ Events(of, large) = f[Len(ledFile)]
  BY EventsAre
<1>2. PICK g : Scans(g, ledFile', Hits(ledFile', ledRows', of, large), Len(ledFile'))
        /\ Events(of, large)' = g[Len(ledFile')]
  BY EventsAreNext
<1>3. PICK old : old = ledFile
  OBVIOUS
<1>4. PICK new : new = ledFile'
  OBVIOUS
<1>5. PICK H : H = Hits(ledFile, ledRows, of, large)
  OBVIOUS
<1>6. PICK G : G = Hits(ledFile', ledRows', of, large)
  OBVIOUS
<1>7. Len(old) \in Nat /\ Len(new) \in Nat /\ Len(old) <= Len(new) /\ \A i \in 1..Len(new) : new[i].row \in Nat
  BY <1>3, <1>4, PlaceType DEF GoodFile
<1>8. Len(old) \notin H
  BY <1>3, <1>5, <1>7 DEF Hits, Line
<1>9. \A k \in 0..Len(new) : g[k] \in Seq(Nat)
  BY <1>2, <1>4, ScanOfFile DEF Reads
<1>10. ASSUME NEW i \in 1..Len(old) - 1 PROVE (i \in H <=> i \in G) /\ old[i].row = new[i].row
  <2>1. i \in 1..Len(old) /\ i \in 1..Len(new) /\ new[i] = old[i]
    BY <1>3, <1>4, <1>7
  <2>2. Line(old, i) <=> Line(new, i)
    BY <1>3, <1>4, LinesStay
  <2>3. ledRows'[new[i].row] = ledRows[old[i].row]
    BY <1>3, <2>1
  <2> QED
    BY <1>3, <1>4, <1>5, <1>6, <2>1, <2>2, <2>3 DEF Hits, Counts
<1>11. Begins(f[Len(old)], g[Len(new)])
  <2>1. Scans(f, old, H, Len(old)) /\ Scans(g, new, G, Len(new))
    BY <1>1, <1>2, <1>3, <1>4, <1>5, <1>6
  <2>2. PICK n \in Nat : n = Len(old)
    BY <1>7
  <2>3. PICK m \in Nat : m = Len(new)
    BY <1>7
  <2>4. /\ Scans(f, old, H, n) /\ Scans(g, new, G, m) /\ n <= m /\ n \notin H
        /\ \A i \in 1..m : new[i].row \in Nat
        /\ \A k \in 0..m : g[k] \in Seq(Nat)
    BY <1>7, <1>8, <1>9, <2>1, <2>2, <2>3
  <2>5. \A i \in 1..n - 1 : (i \in H <=> i \in G) /\ old[i].row = new[i].row
    BY <1>10, <2>2
  <2>6. Longer(old, H, n, new, G, m, g)
    BY <2>4, <2>5 DEF Longer
  <2>7. Begins(f[n], g[m])
    BY <2>4, <2>6, ScanGrows
  <2> QED
    BY <2>2, <2>3, <2>7
<1> QED
  BY <1>1, <1>2, <1>3, <1>4, <1>11

-----------------------------------------------------------------------------
(* RunLedgerFile: the inductive invariant.                                 *)

Writers == Appenders \cup Bridges

ViewShape == [of : RecordRuns \cup {"all", "none"}, large : BOOLEAN, failed : BOOLEAN, events : Seq(Nat),
              acked : SUBSET Nat, shared : SUBSET SUBSET Nat]
CallShape == [at : {"idle", "lock", "write"}, first : Nat, last : Nat, done : Nat, view : ViewShape]

LedTypeOK ==
    /\ ledRows \in Seq([kind : RowKinds, by : Writers])
    /\ GoodFile(ledFile) /\ \A i \in 1..Len(ledFile) : ledFile[i].row \in 1..Len(ledRows)
    /\ ledProc \in [Writers \cup Viewers -> CallShape]
    /\ ledPast \in [acked : SUBSET Nat, struck : SUBSET Nat, shared : SUBSET SUBSET Nat, views : Nat, faults : Nat]

\* The call c of p has rows of its own, the first tokens of which it has written.
Owns(c, p, file, rows) ==
    /\ c.at = "idle" => c.done = 0
    /\ c.at # "idle" =>
         /\ 1 <= c.first /\ c.first <= c.last /\ c.last <= Len(rows) /\ c.done <= 3 * (c.last - c.first + 1)
         /\ c.at = "lock" => c.done = 0
         /\ p \notin Bridges => c.first = c.last
         /\ \A r \in c.first..c.last : rows[r].by = p
         /\ \A r \in c.first..c.last : \A part \in 1..3 : Has(file, r, part) <=> 3 * (r - c.first) + part <= c.done

\* Who has begun a row and is not at it any more has ended it or was struck.
Attended(n) == \/ n \in ledPast.struck \/ Has(ledFile, n, 3)
             \/ \E q \in Writers : ledProc[q].at = "write" /\ n \in Batch(q)

Excused(pair) == pair \cap (Unlocked \cup ledPast.struck) # {}

CallsHold == \A p \in Writers : Owns(ledProc[p], p, ledFile, ledRows)
LinesHold ==
    /\ Joins(ledFile, ledPast.shared) /\ \A pair \in ledPast.shared : Excused(pair)
    /\ \A i \in 1..Len(ledFile) : Attended(ledFile[i].row)
LockHolds == \A p \in Appenders : ledProc[p].at = "write" => ledLock = {p}
AcksHold == \A n \in ledPast.acked : n \in 1..Len(ledRows) /\ \A part \in 1..3 : Has(ledFile, n, part)

\* The answer lists the row once.
Once(n, events) == \E k \in 1..Len(events) : events[k] = n /\ \A j \in 1..Len(events) : events[j] = n => j = k

ViewHolds(v) ==
    /\ v.acked \subseteq ledPast.acked /\ v.shared \subseteq ledPast.shared
    /\ \A n \in v.acked \ OnSharedLines : Counts(ledRows, v.of, v.large, n) => Once(n, v.events)
    /\ v.shared = ledPast.shared => Begins(v.events, Events(v.of, v.large))
\* Who has cut a character, or come between its bytes.
Blamed == \E n \in 1..Len(ledRows) : n \in Unlocked \cup ledPast.struck \cup OnSharedLines /\ ledRows[n].kind.wide

ViewsHold == \A p \in Viewers : /\ ledProc[p].view.acked \subseteq ledPast.acked
                                /\ ledProc[p].view.failed => Blamed
                                /\ Answered(p) => ViewHolds(ledProc[p].view)

LedInv == LedTypeOK /\ CallsHold /\ LinesHold /\ LockHolds /\ AcksHold /\ ViewsHold

-----------------------------------------------------------------------------

LEMMA LedInvImplies == ASSUME LedInv PROVE RecordsAreKept
<1>1. \A pair \in ledPast.shared : pair \cap (Unlocked \cup ledPast.struck) # {}
  BY DEF LedInv, LinesHold, Excused
<1>2. ASSUME NEW p \in Viewers, Answered(p)
      PROVE  LET view == ledProc[p].view
                 now == Events(view.of, view.large)
             IN  /\ \A n \in view.acked \ OnSharedLines : Sought(view.of, view.large, n) =>
                      Cardinality({k \in DOMAIN view.events : view.events[k] = n}) = 1
                 /\ view.shared = ledPast.shared =>
                      \A k \in DOMAIN view.events : k \in DOMAIN now /\ now[k] = view.events[k]
  <2>1. PICK view \in ViewShape : view = ledProc[p].view
    BY DEF LedInv, LedTypeOK, CallShape
  <2>2. ViewHolds(view)
    BY <1>2, <2>1 DEF LedInv, ViewsHold
  <2>3. PICK ev \in Seq(Nat) : ev = view.events
    BY DEF ViewShape
  <2>4. DOMAIN ev = 1..Len(ev) /\ Len(ev) \in Nat
    OBVIOUS
  <2>5. ASSUME NEW n \in view.acked \ OnSharedLines, Counts(ledRows, view.of, view.large, n)
        PROVE  Cardinality({k \in DOMAIN ev : ev[k] = n}) = 1
    <3>1. Once(n, ev)
      BY <2>2, <2>3, <2>5 DEF ViewHolds
    <3>2. PICK k \in 1..Len(ev) : ev[k] = n /\ \A j \in 1..Len(ev) : ev[j] = n => j = k
      BY <3>1 DEF Once
    <3>3. {j \in DOMAIN ev : ev[j] = n} = {k}
      BY <2>4, <3>2
    <3> QED
      BY <3>3, FS_Singleton
  <2>6. PICK now : now = Events(view.of, view.large)
    OBVIOUS
  <2>7. now \in Seq(Nat)
    <3>1. PICK f : Scans(f, ledFile, Hits(ledFile, ledRows, view.of, view.large), Len(ledFile)) /\ now = f[Len(ledFile)]
      BY <2>6, EventsAre DEF LedInv, LedTypeOK
    <3>2. Len(ledFile) \in 0..Len(ledFile)
      BY DEF LedInv, LedTypeOK, GoodFile
    <3> QED
      BY <3>1, <3>2, ScanOfFile DEF Reads, LedInv, LedTypeOK
  <2>8. ASSUME view.shared = ledPast.shared PROVE \A k \in DOMAIN ev : k \in DOMAIN now /\ now[k] = ev[k]
    <3>1. Len(ev) <= Len(now) /\ \A k \in 1..Len(ev) : now[k] = ev[k]
      BY <2>2, <2>3, <2>6, <2>8 DEF ViewHolds, Begins
    <3>2. DOMAIN now = 1..Len(now) /\ Len(now) \in Nat
      BY <2>7
    <3> QED
      BY <2>4, <3>1, <3>2
  <2> QED
    BY <2>1, <2>3, <2>5, <2>6, <2>8 DEF Counts, Sought
<1>3. ASSUME NEW p \in Viewers, ledProc[p].view.failed
      PROVE  \E n \in Unlocked \cup ledPast.struck \cup OnSharedLines : ledRows[n].kind.wide
  BY <1>3 DEF LedInv, ViewsHold, Blamed
<1> QED
  BY <1>1, <1>2, <1>3 DEF RecordsAreKept

LEMMA LedBegins == ASSUME LedInit PROVE LedInv
<1>1. PICK e : e = <<>>
  OBVIOUS
<1>2. e \in Seq(LedTokens) /\ Len(e) = 0 /\ e \in Seq([kind : RowKinds, by : Writers]) /\ 1..0 = {} /\ e \in Seq(Nat)
  BY <1>1
<1>3. ledRows = e /\ ledFile = e /\ ledLock = {}
      /\ ledPast = [acked |-> {}, struck |-> {}, shared |-> {}, views |-> 0, faults |-> 0]
  BY <1>1 DEF LedInit
<1>4. PICK v : v = [of |-> "none", large |-> FALSE, failed |-> FALSE, events |-> e, acked |-> {}, shared |-> {}]
  OBVIOUS
<1>5. PICK c : c = [at |-> "idle", first |-> 1, last |-> 0, done |-> 0, view |-> v]
  OBVIOUS
<1>6. v \in ViewShape
  BY <1>2, <1>4 DEF ViewShape
<1>7. c \in CallShape
  BY <1>5, <1>6 DEF CallShape
<1>8. ledProc = [p \in Writers \cup Viewers |-> c]
  BY <1>1, <1>4, <1>5 DEF LedInit, NoAppend, NoView, Writers
<1>9. GoodFile(e)
  BY <1>2 DEF GoodFile
<1>10. LedTypeOK
  BY <1>2, <1>3, <1>7, <1>8, <1>9 DEF LedTypeOK
<1>11. CallsHold
  BY <1>5, <1>8 DEF CallsHold, Owns
<1>12. LinesHold
  BY <1>2, <1>3 DEF LinesHold, Joins
<1>13. LockHolds
  BY <1>5, <1>8 DEF LockHolds, Writers
<1>14. AcksHold
  BY <1>3 DEF AcksHold
<1>15. ViewsHold
  BY <1>4, <1>5, <1>8 DEF ViewsHold, Answered, Shown
<1> QED
  BY <1>10, <1>11, <1>12, <1>13, <1>14, <1>15 DEF LedInv

-----------------------------------------------------------------------------
(* Writing.                                                                *)

LEMMA CodesDiffer ==
    ASSUME NEW r \in Nat, NEW s \in Nat, NEW a \in 1..3, NEW b \in 1..3, 3 * r + a = 3 * s + b
    PROVE  r = s /\ a = b
<1>1. (a = 1 \/ a = 2 \/ a = 3) /\ (b = 1 \/ b = 2 \/ b = 3)
  OBVIOUS
<1> QED
  BY <1>1

\* The token k of a call that begins at the row first.
TokenIs(t, first, k) == t \in LedTokens /\ first <= t.row /\ 3 * (t.row - first) + t.part = k

LEMMA TokenFacts ==
    ASSUME NEW p, NEW first \in Nat, first = ledProc[p].first, NEW k \in Nat, k # 0
    PROVE  TokenIs(Token(p, k), first, k)
<1>1. PICK d \in Nat : d = (k - 1) \div 3
  OBVIOUS
<1>2. PICK m \in 0..2 : m = (k - 1) % 3
  OBVIOUS
<1>3. k - 1 = 3 * d + m
  BY <1>1, <1>2
<1>4. Token(p, k) = [row |-> first + d, part |-> m + 1]
  BY <1>1, <1>2 DEF Token
<1>5. first + d \in Nat /\ m + 1 \in 1..3 /\ first <= first + d
  OBVIOUS
<1>6. 3 * ((first + d) - first) + (m + 1) = k
  <2>1. (first + d) - first = d
    OBVIOUS
  <2> QED
    BY <1>3, <2>1
<1> QED
  BY <1>4, <1>5, <1>6 DEF TokenIs, LedTokens

\* What the next k tokens of a call are.
Coming(piece, c, k) ==
    /\ piece \in Seq(LedTokens) /\ Len(piece) = k
    /\ \A j \in 1..k : piece[j].row \in c.first..c.last /\ piece[j].part \in 1..3
                       /\ 3 * (piece[j].row - c.first) + piece[j].part = c.done + j

LEMMA PieceFacts ==
    ASSUME NEW p, NEW c \in CallShape, c = ledProc[p], NEW k \in Nat, c.done + k <= 3 * (c.last - c.first + 1)
    PROVE  Coming(Piece(p, k), c, k)
<1>1. c.first \in Nat /\ c.done \in Nat /\ c.last \in Nat
  BY DEF CallShape
<1>2. ASSUME NEW j \in 1..k
      PROVE  TokenIs(Token(p, c.done + j), c.first, c.done + j)
  <2>1. c.done + j \in Nat /\ c.done + j # 0
    BY <1>1
  <2> QED
    BY <1>1, <2>1, TokenFacts
<1>3. PICK piece : piece = [j \in 1..k |-> Token(p, c.done + j)]
  OBVIOUS
<1>4. \A j \in 1..k : piece[j] = Token(p, c.done + j) /\ piece[j] \in LedTokens
  BY <1>2, <1>3 DEF TokenIs
<1>5. piece \in [1..k -> LedTokens]
  BY <1>3, <1>4
<1>6. piece \in Seq(LedTokens) /\ Len(piece) = k
  BY <1>5
<1>7. ASSUME NEW j \in 1..k
      PROVE  piece[j].row \in c.first..c.last /\ piece[j].part \in 1..3
             /\ 3 * (piece[j].row - c.first) + piece[j].part = c.done + j
  <2>1. PICK t \in LedTokens : t = piece[j]
    BY <1>4
  <2>2. TokenIs(t, c.first, c.done + j)
    BY <1>2, <1>4, <2>1
  <2>3. t.row \in Nat /\ t.part \in 1..3 /\ c.first <= t.row /\ 3 * (t.row - c.first) + t.part = c.done + j
    BY <2>2 DEF TokenIs, LedTokens
  <2>4. 3 * (t.row - c.first) + t.part <= 3 * (c.last - c.first + 1)
    BY <1>1, <2>3
  <2>5. t.row <= c.last
    BY <1>1, <2>3, <2>4
  <2> QED
    BY <1>1, <2>1, <2>3, <2>5
<1>8. Coming(piece, c, k)
  BY <1>6, <1>7 DEF Coming
<1> QED
  BY <1>3, <1>8 DEF Piece

LEMMA PieceFits ==
    ASSUME NEW p, NEW c \in CallShape, c.at # "idle", NEW file, NEW rows, Owns(c, p, file, rows), NEW k \in Nat,
           NEW piece, Coming(piece, c, k)
    PROVE  Fits(file, piece)
<1>1. c.first \in Nat /\ c.done \in Nat /\ c.last \in Nat
  BY DEF CallShape
<1>2. /\ piece \in Seq(LedTokens) /\ Len(piece) = k
      /\ \A j \in 1..k : piece[j].row \in c.first..c.last /\ piece[j].part \in 1..3
                       /\ 3 * (piece[j].row - c.first) + piece[j].part = c.done + j
  BY DEF Coming
<1>3. \A r \in c.first..c.last : \A part \in 1..3 : Has(file, r, part) <=> 3 * (r - c.first) + part <= c.done
  BY DEF Owns
<1>4. ASSUME NEW j \in 1..k PROVE ~Has(file, piece[j].row, piece[j].part)
  <2>1. ~(c.done + j <= c.done)
    BY <1>1
  <2> QED
    BY <1>2, <1>3, <2>1
<1>5. ASSUME NEW i \in 1..k, NEW j \in 1..k, piece[i].row = piece[j].row, piece[i].part = piece[j].part PROVE i = j
  <2>1. c.done + i = c.done + j
    BY <1>2, <1>5
  <2> QED
    BY <1>1, <2>1
<1>6. ASSUME NEW j \in 1..k - 1
      PROVE  /\ piece[j].part # 3 => piece[j + 1].row = piece[j].row /\ piece[j + 1].part = piece[j].part + 1
             /\ piece[j + 1].part # 1 => piece[j].row = piece[j + 1].row /\ piece[j].part = piece[j + 1].part - 1
  <2>1. j \in 1..k /\ j + 1 \in 1..k
    OBVIOUS
  <2>2. PICK r \in Nat : r = piece[j].row - c.first
    BY <1>1, <1>2, <2>1
  <2>3. PICK s \in Nat : s = piece[j + 1].row - c.first
    BY <1>1, <1>2, <2>1
  <2>4. PICK a \in 1..3 : a = piece[j].part
    BY <1>2, <2>1
  <2>5. PICK b \in 1..3 : b = piece[j + 1].part
    BY <1>2, <2>1
  <2>6. 3 * r + a = c.done + j /\ 3 * s + b = c.done + (j + 1)
    BY <1>2, <2>1, <2>2, <2>3, <2>4, <2>5
  <2>7. piece[j].row = c.first + r /\ piece[j + 1].row = c.first + s
    <3>1. piece[j].row \in Nat /\ piece[j + 1].row \in Nat
      BY <1>1, <1>2, <2>1
    <3> QED
      BY <1>1, <2>2, <2>3, <3>1
  <2>8. CASE a # 3
    <3>1. a + 1 \in 1..3 /\ 3 * r + (a + 1) = 3 * s + b
      BY <1>1, <2>6, <2>8
    <3>2. r = s /\ a + 1 = b
      BY <3>1, CodesDiffer
    <3> QED
      BY <2>4, <2>5, <2>7, <3>2
  <2>9. CASE a = 3
    <3>1. 3 * (r + 1) + 1 = 3 * s + b /\ r + 1 \in Nat
      BY <1>1, <2>6, <2>9
    <3>2. b = 1
      BY <3>1, CodesDiffer
    <3> QED
      BY <2>4, <2>5, <2>9, <3>2
  <2> QED
    BY <2>8, <2>9
<1>7. ASSUME NEW j \in 1..k, piece[j].part # 1
      PROVE  \/ Has(file, piece[j].row, piece[j].part - 1)
             \/ \E i \in 1..j - 1 : piece[i].row = piece[j].row /\ piece[i].part = piece[j].part - 1
  <2>1. CASE j = 1
    <3>1. PICK r : r = piece[j].row
      OBVIOUS
    <3>2. PICK a : a = piece[j].part
      OBVIOUS
    <3>3. r \in c.first..c.last /\ a \in 1..3 /\ a # 1 /\ 3 * (r - c.first) + a = c.done + 1
      BY <1>2, <1>7, <2>1, <3>1, <3>2
    <3>4. a - 1 \in 1..3 /\ 3 * (r - c.first) + (a - 1) <= c.done
      BY <1>1, <3>3
    <3> QED
      BY <1>3, <3>1, <3>2, <3>3, <3>4
  <2>2. CASE j # 1
    <3>1. j - 1 \in 1..k - 1 /\ (j - 1) + 1 = j /\ j - 1 \in 1..j - 1
      BY <2>2
    <3>2. piece[j - 1].row = piece[j].row /\ piece[j - 1].part = piece[j].part - 1
      BY <1>6, <1>7, <3>1
    <3> QED
      BY <3>1, <3>2
  <2> QED
    BY <2>1, <2>2
<1> QED
  BY <1>2, <1>4, <1>5, <1>6, <1>7 DEF Fits

\* Of the rows of the call c, the first d tokens are there.
HasUpTo(file, c, d) ==
    \A r \in c.first..c.last : \A part \in 1..3 : Has(file, r, part) <=> 3 * (r - c.first) + part <= d

\* Which tokens are there once the piece is written.
LEMMA WrittenTokens ==
    ASSUME NEW c \in CallShape, NEW file, GoodFile(file), NEW k \in Nat, NEW piece, Coming(piece, c, k),
           NEW out, out = file \o piece,
           HasUpTo(file, c, c.done)
    PROVE  /\ HasUpTo(out, c, c.done + k)
           /\ \A r, part : r \notin c.first..c.last => (Has(out, r, part) <=> Has(file, r, part))
           /\ \A r, part : Has(file, r, part) => Has(out, r, part)
<1>1. c.first \in Nat /\ c.done \in Nat /\ c.last \in Nat
  BY DEF CallShape
<1>2. /\ piece \in Seq(LedTokens) /\ Len(piece) = k
      /\ \A j \in 1..k : piece[j].row \in c.first..c.last /\ piece[j].part \in 1..3
                       /\ 3 * (piece[j].row - c.first) + piece[j].part = c.done + j
  BY DEF Coming
<1>3. PICK L : L = Len(file)
  OBVIOUS
<1>4. /\ L \in Nat /\ Len(out) = L + k
      /\ \A i \in 1..L : out[i] = file[i]
      /\ \A j \in 1..k : out[L + j] = piece[j]
      /\ \A i \in 1..Len(out) : i \in 1..L \/ \E j \in 1..k : i = L + j
  <2>1. Glued(out, file, piece, L)
    BY <1>2, <1>3, Behind DEF GoodFile
  <2> QED
    BY <1>2, <2>1 DEF Glued
<1>5. \A i \in 1..L : i \in 1..Len(out)
  BY <1>4
<1>6. \A j \in 1..k : L + j \in 1..Len(out)
  BY <1>4
<1>7. ASSUME NEW r, NEW part
      PROVE  Has(out, r, part) <=> Has(file, r, part) \/ \E j \in 1..k : piece[j].row = r /\ piece[j].part = part
  <2>1. ASSUME Has(out, r, part) PROVE Has(file, r, part) \/ \E j \in 1..k : piece[j].row = r /\ piece[j].part = part
    <3>1. PICK i \in 1..Len(out) : out[i].row = r /\ out[i].part = part
      BY <2>1 DEF Has
    <3>2. CASE i \in 1..L
      <4>1. out[i] = file[i]
        BY <1>4, <3>2
      <4> QED
        BY <1>3, <3>1, <3>2, <4>1 DEF Has
    <3>3. CASE i \notin 1..L
      <4>1. PICK j \in 1..k : i = L + j
        BY <1>4, <3>3
      <4>2. out[i] = piece[j]
        BY <1>4, <4>1
      <4> QED
        BY <3>1, <4>2
    <3> QED
      BY <3>2, <3>3
  <2>2. ASSUME Has(file, r, part) PROVE Has(out, r, part)
    <3>1. PICK i \in 1..L : file[i].row = r /\ file[i].part = part
      BY <1>3, <2>2 DEF Has
    <3>2. out[i] = file[i] /\ i \in 1..Len(out)
      BY <1>4, <1>5
    <3> QED
      BY <3>1, <3>2 DEF Has
  <2>3. ASSUME NEW j \in 1..k, piece[j].row = r, piece[j].part = part PROVE Has(out, r, part)
    <3>1. out[L + j] = piece[j] /\ L + j \in 1..Len(out)
      BY <1>4, <1>6
    <3> QED
      BY <2>3, <3>1 DEF Has
  <2> QED
    BY <2>1, <2>2, <2>3
<1>8. ASSUME NEW r \in c.first..c.last, NEW part \in 1..3
      PROVE  Has(out, r, part) <=> 3 * (r - c.first) + part <= c.done + k
  <2>1. PICK code \in Nat : code = 3 * (r - c.first) + part
    BY <1>1
  <2>2. Has(file, r, part) <=> code <= c.done
    BY <2>1 DEF HasUpTo
  <2>3. ASSUME NEW j \in 1..k, piece[j].row = r, piece[j].part = part PROVE code <= c.done + k
    <3>1. code = c.done + j
      BY <1>2, <2>1, <2>3
    <3> QED
      BY <1>1, <3>1
  <2>4. ASSUME code <= c.done + k, ~(code <= c.done)
        PROVE  \E j \in 1..k : piece[j].row = r /\ piece[j].part = part
    <3>1. PICK j \in 1..k : code = c.done + j
      <4>1. PICK d \in Nat : d = c.done
        BY <1>1
      <4>2. code <= d + k /\ ~(code <= d)
        BY <2>4, <4>1
      <4>3. code - d \in 1..k /\ code = d + (code - d)
        BY <4>2
      <4> QED
        BY <4>1, <4>3
    <3>2. PICK s \in Nat : s = piece[j].row - c.first
      <4>1. PICK x : x = piece[j].row
        OBVIOUS
      <4>2. x \in c.first..c.last
        BY <1>2, <4>1
      <4>3. PICK f \in Nat : f = c.first
        BY <1>1
      <4>4. PICK g \in Nat : g = c.last
        BY <1>1
      <4>5. x \in f..g
        BY <4>2, <4>3, <4>4
      <4>6. x - f \in Nat
        BY <4>5
      <4> QED
        BY <4>1, <4>3, <4>6
    <3>3. PICK b \in 1..3 : b = piece[j].part
      BY <1>2
    <3>4. r - c.first \in Nat /\ 3 * (r - c.first) + part = 3 * s + b
      <4>1. 3 * s + b = c.done + j
        BY <1>2, <3>2, <3>3
      <4>2. r - c.first \in Nat
        BY <1>1
      <4> QED
        BY <2>1, <3>1, <4>1, <4>2
    <3>5. r - c.first = s /\ part = b
      BY <3>4, CodesDiffer
    <3>6. piece[j].row \in Nat /\ piece[j].row = r
      BY <1>1, <1>2, <3>2, <3>5
    <3> QED
      BY <3>3, <3>5, <3>6
  <2>5. code <= c.done => code <= c.done + k
    BY <1>1
  <2> QED
    BY <1>7, <2>1, <2>2, <2>3, <2>4, <2>5
<1>9. \A r, part : r \notin c.first..c.last => (Has(out, r, part) <=> Has(file, r, part))
  BY <1>2, <1>7
<1>10. \A r, part : Has(file, r, part) => Has(out, r, part)
  BY <1>7
<1> QED
  BY <1>8, <1>9, <1>10 DEF HasUpTo

\* A write of p, of k tokens: all of WriteSome and Breaks that is about the file.
Puts(p, c, k) ==
    /\ p \in Writers /\ c \in CallShape /\ c = ledProc[p] /\ c.at # "idle" /\ k \in Nat
    /\ c.done + k <= 3 * (c.last - c.first + 1) /\ (c.at = "lock" => k = 0)
    /\ ledFile' = ledFile \o Piece(p, k) /\ ledRows' = ledRows
    /\ ledPast'.shared = ledPast.shared \cup Shares(Piece(p, k))
    /\ ledPast.struck \subseteq ledPast'.struck

FileWritten(c) ==
    /\ GoodFile(ledFile') /\ Joins(ledFile', ledPast'.shared)
    /\ Len(ledFile) <= Len(ledFile') /\ \A i \in 1..Len(ledFile) : ledFile'[i] = ledFile[i]
    /\ \A i \in 1..Len(ledFile') : ledFile'[i].row \in 1..Len(ledRows')
    /\ \A i \in 1..Len(ledFile') : i \in 1..Len(ledFile) \/ ledFile'[i].row \in c.first..c.last
    /\ \A n, part : Has(ledFile, n, part) => Has(ledFile', n, part)

LEMMA SharesAre == ASSUME NEW piece PROVE Shares(piece) = ShareOf(ledFile, piece)
  BY DEF Shares, ShareOf, IsEnd

LEMMA PutFile == ASSUME LedInv, NEW p, NEW c, NEW k, Puts(p, c, k) PROVE FileWritten(c)
<1>0. /\ p \in Writers /\ c \in CallShape /\ c = ledProc[p] /\ c.at # "idle" /\ k \in Nat
      /\ c.done + k <= 3 * (c.last - c.first + 1)
  BY DEF Puts
<1>1. Owns(c, p, ledFile, ledRows) /\ GoodFile(ledFile) /\ Joins(ledFile, ledPast.shared)
  BY <1>0 DEF LedInv, CallsHold, LinesHold, LedTypeOK
<1>2. PICK piece : piece = Piece(p, k)
  OBVIOUS
<1>3. Coming(piece, c, k)
  BY <1>0, <1>2, PieceFacts
<1>4. Fits(ledFile, piece)
  BY <1>0, <1>1, <1>3, PieceFits
<1>5. ledFile' = ledFile \o piece /\ ledPast'.shared = ledPast.shared \cup ShareOf(ledFile, piece)
  BY <1>2, SharesAre DEF Puts
<1>6. GoodFile(ledFile')
  BY <1>1, <1>4, <1>5, FileGrows
<1>7. Joins(ledFile', ledPast'.shared)
  BY <1>1, <1>4, <1>5, JoinsGrow
<1>8. PICK L : L = Len(ledFile)
  OBVIOUS
<1>9. Glued(ledFile', ledFile, piece, L)
  BY <1>1, <1>4, <1>5, <1>8, Behind DEF GoodFile, Fits
<1>10. \A i \in 1..Len(ledFile') : i \in 1..L \/ ledFile'[i].row \in c.first..c.last
  BY <1>3, <1>9 DEF Glued, Coming
<1>11. L <= Len(ledFile') /\ \A i \in 1..L : ledFile'[i] = ledFile[i]
  BY <1>9 DEF Glued
<1>12. ASSUME NEW r \in c.first..c.last PROVE r \in 1..Len(ledRows)
  <2>1. 1 <= c.first /\ c.last <= Len(ledRows) /\ c.first \in Nat /\ c.last \in Nat
    BY <1>0, <1>1 DEF Owns, CallShape
  <2>2. Len(ledRows) \in Nat
    BY DEF LedInv, LedTypeOK
  <2> QED
    BY <2>1, <2>2
<1>13. ASSUME NEW i \in 1..Len(ledFile') PROVE ledFile'[i].row \in 1..Len(ledRows)
  <2>1. CASE i \in 1..L
    BY <1>8, <1>11, <2>1 DEF LedInv, LedTypeOK
  <2>2. CASE i \notin 1..L
    BY <1>10, <1>12, <2>2
  <2> QED
    BY <2>1, <2>2
<1>14. \A n, part : Has(ledFile, n, part) => Has(ledFile', n, part)
  <2>1. HasUpTo(ledFile, c, c.done)
    BY <1>0, <1>1 DEF Owns, HasUpTo
  <2> QED
    BY <1>0, <1>1, <1>3, <1>5, <2>1, WrittenTokens
<1>15. ledRows' = ledRows
  BY DEF Puts
<1> QED
  BY <1>6, <1>7, <1>8, <1>10, <1>11, <1>13, <1>14, <1>15 DEF FileWritten

\* The calls after a write: the writer has written k tokens more, and the others as much as before.
LEMMA PutOwns ==
    ASSUME LedInv, NEW p, NEW c, NEW k, Puts(p, c, k)
    PROVE  /\ c.at = "write" => Owns([c EXCEPT !.done = c.done + k], p, ledFile', ledRows')
           /\ \A q \in Writers : q # p => Owns(ledProc[q], q, ledFile', ledRows')
<1>0. /\ p \in Writers /\ c \in CallShape /\ c = ledProc[p] /\ c.at # "idle" /\ k \in Nat
      /\ c.done + k <= 3 * (c.last - c.first + 1) /\ ledRows' = ledRows
  BY DEF Puts
<1>1. Owns(c, p, ledFile, ledRows) /\ GoodFile(ledFile)
  BY <1>0 DEF LedInv, CallsHold, LedTypeOK
<1>2. PICK piece : piece = Piece(p, k)
  OBVIOUS
<1>3. Coming(piece, c, k) /\ ledFile' = ledFile \o piece
  BY <1>0, <1>2, PieceFacts DEF Puts
<1>4. /\ \A r \in c.first..c.last : \A part \in 1..3 :
           Has(ledFile', r, part) <=> 3 * (r - c.first) + part <= c.done + k
      /\ \A r, part : r \notin c.first..c.last => (Has(ledFile', r, part) <=> Has(ledFile, r, part))
  <2>1. HasUpTo(ledFile, c, c.done)
    BY <1>0, <1>1 DEF Owns, HasUpTo
  <2>2. HasUpTo(ledFile', c, c.done + k)
    BY <1>0, <1>1, <1>3, <2>1, WrittenTokens
  <2>3. \A r, part : r \notin c.first..c.last => (Has(ledFile', r, part) <=> Has(ledFile, r, part))
    BY <1>0, <1>1, <1>3, <2>1, WrittenTokens
  <2> QED
    BY <2>2, <2>3 DEF HasUpTo
<1>5. ASSUME c.at = "write" PROVE Owns([c EXCEPT !.done = c.done + k], p, ledFile', ledRows')
  <2>1. PICK d : d = [c EXCEPT !.done = c.done + k]
    OBVIOUS
  <2>2. d.at = "write" /\ d.first = c.first /\ d.last = c.last /\ d.done = c.done + k
    BY <1>0, <1>5, <2>1 DEF CallShape
  <2>3. Owns(d, p, ledFile', ledRows')
    BY <1>0, <1>1, <1>4, <2>2 DEF Owns
  <2> QED
    BY <2>1, <2>3
<1>6. ASSUME NEW q \in Writers, q # p PROVE Owns(ledProc[q], q, ledFile', ledRows')
  <2>1. PICK d : d = ledProc[q]
    OBVIOUS
  <2>2. Owns(d, q, ledFile, ledRows)
    BY <2>1 DEF LedInv, CallsHold
  <2>3. ASSUME NEW r \in d.first..d.last, d.at # "idle" PROVE r \notin c.first..c.last
    <3>1. ledRows[r].by = q
      BY <2>2, <2>3 DEF Owns
    <3>2. \A s \in c.first..c.last : ledRows[s].by = p
      BY <1>0, <1>1 DEF Owns
    <3> QED
      BY <1>6, <3>1, <3>2
  <2>4. ASSUME d.at # "idle"
        PROVE  \A r \in d.first..d.last :
                   \A part \in 1..3 : Has(ledFile', r, part) <=> 3 * (r - d.first) + part <= d.done
    <3>1. \A r \in d.first..d.last : \A part \in 1..3 : Has(ledFile, r, part) <=> 3 * (r - d.first) + part <= d.done
      BY <2>2, <2>4 DEF Owns
    <3> QED
      BY <1>4, <2>3, <2>4, <3>1
  <2>5. Owns(d, q, ledFile', ledRows')
    BY <1>0, <2>2, <2>4 DEF Owns
  <2> QED
    BY <2>1, <2>5
<1> QED
  BY <1>5, <1>6

\* Who shares a line with whom, after a write.
LEMMA PutExcused ==
    ASSUME LedInv, NEW p, NEW c, NEW k, Puts(p, c, k)
    PROVE  \A pair \in ledPast'.shared : Excused(pair)'
<1>0. /\ p \in Writers /\ c \in CallShape /\ c = ledProc[p] /\ c.at # "idle" /\ k \in Nat
      /\ c.done + k <= 3 * (c.last - c.first + 1) /\ (c.at = "lock" => k = 0) /\ ledRows' = ledRows
      /\ ledPast.struck \subseteq ledPast'.struck
  BY DEF Puts
<1>1. Owns(c, p, ledFile, ledRows) /\ GoodFile(ledFile)
  BY <1>0 DEF LedInv, CallsHold, LedTypeOK
<1>2. PICK piece : piece = Piece(p, k)
  OBVIOUS
<1>3. Coming(piece, c, k) /\ ledPast'.shared = ledPast.shared \cup ShareOf(ledFile, piece)
  BY <1>0, <1>2, PieceFacts, SharesAre DEF Puts
<1>4. Unlocked' = Unlocked
  BY <1>0 DEF Unlocked
<1>5. ASSUME NEW pair \in ledPast.shared PROVE Excused(pair)'
  <2>1. Excused(pair)
    BY DEF LedInv, LinesHold
  <2> QED
    BY <1>0, <1>4, <2>1 DEF Excused
<1>6. ASSUME NEW pair \in ShareOf(ledFile, piece) PROVE pair \cap (Unlocked \cup ledPast.struck) # {}
  <2>1. PICK L : L = Len(ledFile)
    OBVIOUS
  <2>2. PICK m : m = ledFile[L].row
    OBVIOUS
  <2>3. PICK n : n = piece[1].row
    OBVIOUS
  <2>4. piece # <<>> /\ ledFile # <<>> /\ ledFile[L].part # 3 /\ m # n /\ pair = {m, n}
    BY <1>6, <2>1, <2>2, <2>3 DEF ShareOf
  <2>5. L \in 1..L /\ L \in Nat /\ 1 \in 1..k
    <3>1. ledFile \in Seq(LedTokens) /\ piece \in Seq(LedTokens) /\ Len(piece) = k
      BY <1>1, <1>3 DEF GoodFile, Coming
    <3>2. Len(ledFile) # 0 /\ Len(piece) # 0
      BY <2>4, <3>1, EmptySeq
    <3> QED
      BY <2>1, <3>1, <3>2
  <2>6. n \in c.first..c.last /\ c.at = "write"
    <3>1. n \in c.first..c.last
      BY <1>3, <2>3, <2>5 DEF Coming
    <3>2. k # 0
      BY <2>5
    <3> QED
      BY <1>0, <3>1, <3>2 DEF CallShape
  <2>7. ledRows[n].by = p /\ n \in DOMAIN ledRows
    <3>1. 1 <= c.first /\ c.last <= Len(ledRows) /\ c.first \in Nat /\ c.last \in Nat /\ ledRows[n].by = p
      BY <1>0, <1>1, <2>6 DEF Owns, CallShape
    <3>2. Len(ledRows) \in Nat /\ DOMAIN ledRows = 1..Len(ledRows)
      BY DEF LedInv, LedTypeOK
    <3> QED
      BY <2>6, <3>1, <3>2
  <2>8. CASE p \in Bridges
    BY <2>4, <2>7, <2>8 DEF Unlocked
  <2>9. CASE p \notin Bridges
    <3>1. p \in Appenders /\ ledLock = {p} /\ c.first = c.last
      BY <1>0, <1>1, <2>6, <2>9 DEF Writers, LedInv, LockHolds, Owns
    <3>2. Attended(m) /\ m \in DOMAIN ledRows
      <4>1. Attended(m) /\ m \in 1..Len(ledRows)
        BY <2>1, <2>2, <2>5 DEF LedInv, LinesHold, LedTypeOK
      <4>2. DOMAIN ledRows = 1..Len(ledRows)
        BY DEF LedInv, LedTypeOK
      <4> QED
        BY <4>1, <4>2
    <3>3. ~Has(ledFile, m, 3)
      <4>1. SUFFICES ASSUME NEW j \in 1..L, ledFile[j].row = m, ledFile[j].part = 3 PROVE FALSE
        BY <2>1 DEF Has
      <4>2. ledFile[L].part < ledFile[j].part
        <5>1. ledFile[L].part \in 1..3
          BY <1>1, <2>1, <2>5, PlaceType
        <5> QED
          BY <2>4, <4>1, <5>1
      <4>3. L < j
        BY <1>1, <2>1, <2>2, <2>5, <4>1, <4>2, PartsInOrder
      <4> QED
        BY <2>5, <4>3
    <3>4. CASE m \in ledPast.struck
      BY <2>4, <3>4
    <3>5. CASE \E q \in Writers : ledProc[q].at = "write" /\ m \in Batch(q)
      <4>1. PICK q \in Writers : ledProc[q].at = "write" /\ m \in Batch(q)
        BY <3>5
      <4>2. ledRows[m].by = q
        BY <4>1 DEF LedInv, CallsHold, Owns, Batch
      <4>3. CASE q \in Bridges
        BY <2>4, <3>2, <4>2, <4>3 DEF Unlocked
      <4>4. CASE q \notin Bridges
        <5>1. ledLock = {q}
          BY <4>1, <4>4 DEF Writers, LedInv, LockHolds
        <5>2. q = p
          BY <3>1, <5>1
        <5>3. m \in c.first..c.last
          BY <1>0, <4>1, <5>2 DEF Batch
        <5>4. m = n
          BY <1>0, <2>6, <3>1, <5>3 DEF CallShape
        <5> QED
          BY <2>4, <5>4
      <4> QED
        BY <4>3, <4>4
    <3> QED
      BY <3>2, <3>3, <3>4, <3>5 DEF Attended
  <2> QED
    BY <2>8, <2>9
<1> QED
  BY <1>0, <1>3, <1>4, <1>5, <1>6 DEF Excused

-----------------------------------------------------------------------------
(* Reading, and the steps.                                                 *)

LEMMA EventsType == ASSUME GoodFile(ledFile), NEW of, NEW large PROVE Events(of, large) \in Seq(Nat)
<1>1. PICK f : Scans(f, ledFile, Hits(ledFile, ledRows, of, large), Len(ledFile)) /\ Events(of, large) = f[Len(ledFile)]
  BY EventsAre
<1>2. Len(ledFile) \in 0..Len(ledFile)
  BY DEF GoodFile
<1> QED
  BY <1>1, <1>2, ScanOfFile DEF Reads

LEMMA EventsTypeNext == ASSUME GoodFile(ledFile'), NEW of, NEW large PROVE Events(of, large)' \in Seq(Nat)
<1>1. PICK f : Scans(f, ledFile', Hits(ledFile', ledRows', of, large), Len(ledFile'))
        /\ Events(of, large)' = f[Len(ledFile')]
  BY EventsAreNext
<1>2. Len(ledFile') \in 0..Len(ledFile')
  BY DEF GoodFile
<1> QED
  BY <1>1, <1>2, ScanOfFile DEF Reads

LEMMA BeginsThrough ==
    ASSUME NEW s \in Seq(Nat), NEW t \in Seq(Nat), NEW u \in Seq(Nat), Begins(s, t), Begins(t, u)
    PROVE  Begins(s, u)
<1>1. Len(s) \in Nat /\ Len(t) \in Nat /\ Len(u) \in Nat
  OBVIOUS
<1>2. Len(s) <= Len(t) /\ Len(t) <= Len(u)
  BY DEF Begins
<1>3. ASSUME NEW k \in 1..Len(s) PROVE u[k] = s[k]
  <2>1. k \in 1..Len(t)
    BY <1>1, <1>2
  <2> QED
    BY <2>1 DEF Begins
<1> QED
  BY <1>1, <1>2, <1>3 DEF Begins

\* Who is to blame for a cut character stays so.
LEMMA BlameStays ==
    ASSUME LedInv, Blamed, ledPast.shared \subseteq ledPast'.shared, ledPast.struck \subseteq ledPast'.struck,
           ledRows' \in Seq([kind : RowKinds, by : Writers]), Len(ledRows) <= Len(ledRows'),
           \A n \in 1..Len(ledRows) : ledRows'[n] = ledRows[n]
    PROVE  Blamed'
<1>1. PICK n \in 1..Len(ledRows) : n \in Unlocked \cup ledPast.struck \cup OnSharedLines /\ ledRows[n].kind.wide
  BY DEF Blamed
<1>2. Len(ledRows) \in Nat /\ Len(ledRows') \in Nat /\ DOMAIN ledRows' = 1..Len(ledRows')
  BY DEF LedInv, LedTypeOK
<1>3. n \in 1..Len(ledRows') /\ ledRows'[n] = ledRows[n]
  BY <1>1, <1>2
<1>4. n \in Unlocked => n \in Unlocked'
  BY <1>2, <1>3 DEF Unlocked
<1>5. OnSharedLines \subseteq OnSharedLines'
  BY DEF OnSharedLines
<1> QED
  BY <1>1, <1>3, <1>4, <1>5 DEF Blamed

\* What an answer says stays so while the files grow.
LEMMA ViewsStay ==
    ASSUME LedInv, GoodFile(ledFile'), Joins(ledFile', ledPast'.shared),
           ledPast.shared \subseteq ledPast'.shared, ledPast.acked \subseteq ledPast'.acked,
           Len(ledFile) <= Len(ledFile'), \A i \in 1..Len(ledFile) : ledFile'[i] = ledFile[i],
           ledRows' \in Seq([kind : RowKinds, by : Writers]), Len(ledRows) <= Len(ledRows'),
           \A n \in 1..Len(ledRows) : ledRows'[n] = ledRows[n], ledPast.struck \subseteq ledPast'.struck,
           NEW p \in Viewers, ledProc'[p] = ledProc[p]
    PROVE  ledProc'[p].view.acked \subseteq ledPast'.acked /\ (ledProc'[p].view.failed => Blamed')
               /\ (Answered(p)' => ViewHolds(ledProc[p].view)')
<1>1. PICK v \in ViewShape : v = ledProc[p].view
  BY DEF LedInv, LedTypeOK, CallShape
<1>2. v.acked \subseteq ledPast.acked
  BY <1>1 DEF LedInv, ViewsHold
<1>3. ASSUME Answered(p)' PROVE ViewHolds(v)'
  <2>1. ViewHolds(v)
    BY <1>1, <1>3 DEF LedInv, ViewsHold, Answered, Shown
  <2>2. ASSUME NEW n \in v.acked \ OnSharedLines', Counts(ledRows', v.of, v.large, n) PROVE Once(n, v.events)
    <3>1. n \in 1..Len(ledRows)
      BY <1>2, <2>2 DEF LedInv, AcksHold
    <3>2. n \in v.acked \ OnSharedLines /\ Counts(ledRows, v.of, v.large, n)
      BY <2>2, <3>1 DEF OnSharedLines, Counts
    <3> QED
      BY <2>1, <3>2 DEF ViewHolds
  <2>3. ASSUME v.shared = ledPast'.shared PROVE Begins(v.events, Events(v.of, v.large)')
    <3>1. v.shared = ledPast.shared /\ ledPast'.shared = ledPast.shared
      BY <2>1, <2>3 DEF ViewHolds
    <3>2. Begins(v.events, Events(v.of, v.large))
      BY <2>1, <3>1 DEF ViewHolds
    <3>3. Begins(Events(v.of, v.large), Events(v.of, v.large)')
      <4>1. Joins(ledFile, ledPast.shared) /\ Joins(ledFile', ledPast.shared) /\ GoodFile(ledFile)
        BY <3>1 DEF LedInv, LinesHold, LedTypeOK
      <4>2. \A i \in 1..Len(ledFile) : ledRows'[ledFile[i].row] = ledRows[ledFile[i].row]
        BY DEF LedInv, LedTypeOK
      <4> QED
        BY <4>1, <4>2, EventsGrow
    <3>4. v.events \in Seq(Nat) /\ Events(v.of, v.large) \in Seq(Nat) /\ Events(v.of, v.large)' \in Seq(Nat)
      BY EventsType, EventsTypeNext DEF ViewShape, LedInv, LedTypeOK
    <3> QED
      BY <3>2, <3>3, <3>4, BeginsThrough
  <2> QED
    BY <2>1, <2>2, <2>3 DEF ViewHolds
<1>4. ledProc'[p].view = v
  BY <1>1
<1>5. ledProc'[p].view.acked \subseteq ledPast'.acked
  BY <1>2, <1>4
<1>6. ASSUME v.failed PROVE Blamed'
  BY <1>1, <1>6, BlameStays DEF LedInv, ViewsHold
<1> QED
  BY <1>3, <1>4, <1>5, <1>6

\* A step of the process p, whose call is d afterwards.
Moves(p, d) ==
    /\ p \in Writers /\ d \in CallShape /\ ledProc' = [ledProc EXCEPT ![p] = d]
    /\ GoodFile(ledFile') /\ \A i \in 1..Len(ledFile') : ledFile'[i].row \in 1..Len(ledRows')
    /\ Len(ledFile) <= Len(ledFile') /\ \A i \in 1..Len(ledFile) : ledFile'[i] = ledFile[i]
    /\ ledRows' \in Seq([kind : RowKinds, by : Writers])
    /\ \A n \in 1..Len(ledRows) : ledRows'[n] = ledRows[n]
    /\ ledPast' \in [acked : SUBSET Nat, struck : SUBSET Nat, shared : SUBSET SUBSET Nat, views : Nat, faults : Nat]
    /\ Len(ledRows) <= Len(ledRows') /\ ledPast.struck \subseteq ledPast'.struck
    /\ ledPast.shared \subseteq ledPast'.shared /\ ledPast.acked \subseteq ledPast'.acked
    /\ Joins(ledFile', ledPast'.shared) /\ \A pair \in ledPast'.shared : Excused(pair)'
    /\ (\A i \in 1..Len(ledFile) : Attended(ledFile[i].row))'
    /\ Owns(d, p, ledFile', ledRows') /\ \A q \in Writers : q # p => Owns(ledProc[q], q, ledFile', ledRows')
    /\ \A q \in Appenders : (IF q = p THEN d.at ELSE ledProc[q].at) = "write" => ledLock' = {q}
    /\ \A n \in ledPast'.acked : n \in 1..Len(ledRows') /\ \A part \in 1..3 : Has(ledFile', n, part)

LEMMA CallsAfter ==
    ASSUME LedInv, NEW p \in Writers, NEW d \in CallShape, ledProc' = [ledProc EXCEPT ![p] = d]
    PROVE  /\ ledProc' \in [Writers \cup Viewers -> CallShape]
           /\ ledProc'[p] = d /\ \A q \in Writers \cup Viewers : q # p => ledProc'[q] = ledProc[q]
           /\ p \notin Viewers
<1>1. ledProc \in [Writers \cup Viewers -> CallShape]
  BY DEF LedInv, LedTypeOK
<1>2. p \notin Viewers
  BY LedgerFileAssumption DEF Writers
<1> QED
  BY <1>1, <1>2

LEMMA MoveKeeps == ASSUME LedInv, NEW p, NEW d, Moves(p, d) PROVE LedInv'
<1>1. /\ ledProc' \in [Writers \cup Viewers -> CallShape]
      /\ ledProc'[p] = d /\ \A q \in Writers \cup Viewers : q # p => ledProc'[q] = ledProc[q]
      /\ p \notin Viewers
  BY CallsAfter DEF Moves
<1>2. LedTypeOK'
  BY <1>1 DEF LedTypeOK, Moves
<1>3. CallsHold'
  BY <1>1 DEF CallsHold, Moves
<1>4. LinesHold'
  BY DEF LinesHold, Moves
<1>5. LockHolds'
  <2>1. \A q \in Appenders : q \in Writers
    BY DEF Writers
  <2> QED
    BY <1>1, <2>1 DEF LockHolds, Moves
<1>6. AcksHold'
  BY DEF AcksHold, Moves
<1>7. ViewsHold'
  <2>1. ASSUME NEW v \in Viewers
        PROVE  ledProc'[v].view.acked \subseteq ledPast'.acked /\ (ledProc'[v].view.failed => Blamed')
               /\ (Answered(v)' => ViewHolds(ledProc[v].view)')
    <3>1. ledProc'[v] = ledProc[v]
      BY <1>1
    <3> QED
      BY <3>1, ViewsStay DEF Moves
  <2> QED
    BY <2>1 DEF ViewsHold
<1> QED
  BY <1>2, <1>3, <1>4, <1>5, <1>6, <1>7 DEF LedInv

\* While the file and the history stay, only the calls and the rows matter.
LEMMA StillMoves ==
    ASSUME LedInv, NEW p \in Writers, NEW d \in CallShape, ledProc' = [ledProc EXCEPT ![p] = d],
           UNCHANGED <<ledFile, ledRows>>, Owns(d, p, ledFile, ledRows),
           ledPast' \in [acked : SUBSET Nat, struck : SUBSET Nat, shared : SUBSET SUBSET Nat,
                         views : Nat, faults : Nat],
           ledPast'.shared = ledPast.shared, ledPast'.struck = ledPast.struck, ledPast.acked \subseteq ledPast'.acked,
           \A i \in 1..Len(ledFile) : ledFile[i].row \in Batch(p) /\ ledProc[p].at = "write" /\ d.at # "write" =>
             Has(ledFile, ledFile[i].row, 3),
           \A q \in Appenders : (IF q = p THEN d.at ELSE ledProc[q].at) = "write" => ledLock' = {q},
           \A n \in ledPast'.acked : n \in 1..Len(ledRows) /\ \A part \in 1..3 : Has(ledFile, n, part),
           ledProc[p].at = "write" => d.at # "write"
    PROVE  LedInv'
<1>1. /\ ledProc' \in [Writers \cup Viewers -> CallShape]
      /\ ledProc'[p] = d /\ \A q \in Writers \cup Viewers : q # p => ledProc'[q] = ledProc[q]
  BY CallsAfter
<1>2. Unlocked' = Unlocked
  BY DEF Unlocked
<1>3. \A pair \in ledPast'.shared : Excused(pair)'
  BY <1>2 DEF LedInv, LinesHold, Excused
<1>4. ASSUME NEW i \in 1..Len(ledFile) PROVE Attended(ledFile[i].row)'
  <2>1. PICK n : n = ledFile[i].row
    OBVIOUS
  <2>2. Attended(n)
    BY <2>1 DEF LedInv, LinesHold
  <2>3. CASE n \in ledPast.struck \/ Has(ledFile, n, 3)
    <3>1. Attended(n)'
      BY <2>3 DEF Attended
    <3> QED
      BY <2>1, <3>1
  <2>4. CASE \E q \in Writers : ledProc[q].at = "write" /\ n \in Batch(q)
    <3>1. PICK q \in Writers : ledProc[q].at = "write" /\ n \in Batch(q)
      BY <2>4
    <3>2. CASE q = p
      <4>1. Has(ledFile, n, 3)
        BY <2>1, <3>1, <3>2
      <4> QED
        BY <2>3, <4>1
    <3>3. CASE q # p
      <4>1. ledProc'[q] = ledProc[q]
        BY <1>1, <3>3
      <4>2. Attended(n)'
        BY <3>1, <4>1 DEF Attended, Batch
      <4> QED
        BY <2>1, <4>2
    <3> QED
      BY <3>2, <3>3
  <2> QED
    BY <2>2, <2>3, <2>4 DEF Attended
<1>5. Moves(p, d)
  <2>1. GoodFile(ledFile) /\ (\A i \in 1..Len(ledFile) : ledFile[i].row \in 1..Len(ledRows))
        /\ ledRows \in Seq([kind : RowKinds, by : Writers]) /\ Joins(ledFile, ledPast.shared)
    BY DEF LedInv, LedTypeOK, LinesHold
  <2>2. Len(ledFile) <= Len(ledFile') /\ Len(ledRows) <= Len(ledRows')
    BY <2>1 DEF GoodFile
  <2>3. \A q \in Writers : Owns(ledProc[q], q, ledFile, ledRows)
    BY DEF LedInv, CallsHold
  <2> QED
    BY <1>3, <1>4, <2>1, <2>2, <2>3 DEF Moves
<1> QED
  BY <1>5, MoveKeeps

LEMMA CallIs == ASSUME LedInv, NEW p \in Writers PROVE ledProc[p] \in CallShape /\ Owns(ledProc[p], p, ledFile, ledRows)
  BY DEF LedInv, LedTypeOK, CallsHold

LEMMA NoAppendIs == NoAppend \in CallShape /\ NoAppend.at = "idle" /\ NoAppend.done = 0
<1>1. PICK e : e = <<>>
  OBVIOUS
<1>2. e \in Seq(Nat)
  BY <1>1
<1>3. PICK v : v = [of |-> "none", large |-> FALSE, failed |-> FALSE, events |-> e, acked |-> {}, shared |-> {}]
  OBVIOUS
<1>4. v \in ViewShape
  BY <1>2, <1>3 DEF ViewShape
<1>5. NoView = v
  BY <1>1, <1>3 DEF NoView
<1> QED
  BY <1>4, <1>5 DEF NoAppend, CallShape

LEMMA AcquireKeeps == ASSUME LedInv, NEW p \in Writers, Acquire(p) PROVE LedInv'
<1>1. PICK c \in CallShape : c = ledProc[p] /\ Owns(c, p, ledFile, ledRows) /\ c.at = "lock" /\ p \in Appenders
  BY CallIs DEF Acquire
<1>2. UNCHANGED <<ledRows, ledFile, ledPast>>
  BY DEF Acquire
<1>3. ledPast' \in [acked : SUBSET Nat, struck : SUBSET Nat, shared : SUBSET SUBSET Nat, views : Nat, faults : Nat]
  BY <1>2 DEF LedInv, LedTypeOK
<1>4. \A n \in ledPast'.acked : n \in 1..Len(ledRows) /\ \A part \in 1..3 : Has(ledFile, n, part)
  BY <1>2 DEF LedInv, AcksHold
<1>5. CASE ledLock = {} /\ ledLock' = {p} /\ ledProc' = [ledProc EXCEPT ![p].at = "write"]
  <2>1. PICK d : d = [c EXCEPT !.at = "write"]
    OBVIOUS
  <2>2. d \in CallShape /\ d.at = "write" /\ d.first = c.first /\ d.last = c.last /\ d.done = c.done
    BY <2>1 DEF CallShape
  <2>3. ledProc' = [ledProc EXCEPT ![p] = d]
    BY <1>1, <1>5, <2>1
  <2>4. Owns(d, p, ledFile, ledRows)
    BY <1>1, <2>2 DEF Owns
  <2>5. ASSUME NEW q \in Appenders, (IF q = p THEN d.at ELSE ledProc[q].at) = "write" PROVE ledLock' = {q}
    <3>1. CASE q = p
      BY <1>5, <3>1
    <3>2. CASE q # p
      <4>1. ledLock = {q}
        BY <2>5, <3>2 DEF LedInv, LockHolds
      <4> QED
        BY <1>5, <4>1
    <3> QED
      BY <3>1, <3>2
  <2> QED
    BY <1>1, <1>2, <1>3, <1>4, <2>2, <2>3, <2>4, <2>5, StillMoves
<1>6. CASE ledLock # {} /\ ledLock' = ledLock /\ ledProc' = [ledProc EXCEPT ![p] = NoAppend]
  <2>1. PICK d \in CallShape : d = NoAppend /\ d.at = "idle" /\ d.done = 0
    BY NoAppendIs
  <2>2. Owns(d, p, ledFile, ledRows)
    BY <2>1 DEF Owns
  <2>3. ASSUME NEW q \in Appenders, (IF q = p THEN d.at ELSE ledProc[q].at) = "write" PROVE ledLock' = {q}
    <3>1. q # p /\ ledProc[q].at = "write"
      BY <2>1, <2>3
    <3> QED
      BY <1>6, <3>1 DEF LedInv, LockHolds
  <2> QED
    BY <1>1, <1>2, <1>3, <1>4, <1>6, <2>1, <2>2, <2>3, StillMoves
<1> QED
  BY <1>5, <1>6 DEF Acquire

LEMMA EndAppendKeeps == ASSUME LedInv, NEW p \in Writers, EndAppend(p) PROVE LedInv'
<1>1. PICK c \in CallShape : c = ledProc[p] /\ Owns(c, p, ledFile, ledRows) /\ c.at = "write"
                             /\ c.done = 3 * (c.last - c.first + 1)
  BY CallIs DEF EndAppend, Size
<1>2. PICK d \in CallShape : d = NoAppend /\ d.at = "idle" /\ d.done = 0
  BY NoAppendIs
<1>3. /\ UNCHANGED <<ledRows, ledFile>> /\ ledLock' = ledLock \ {p} /\ ledProc' = [ledProc EXCEPT ![p] = d]
      /\ ledPast' = [ledPast EXCEPT !.acked = ledPast.acked \cup Batch(p)]
  BY <1>2 DEF EndAppend
<1>4. Batch(p) = c.first..c.last /\ c.first \in Nat /\ c.last \in Nat /\ 1 <= c.first /\ c.last <= Len(ledRows)
      /\ Len(ledRows) \in Nat
  BY <1>1 DEF Batch, CallShape, Owns, LedInv, LedTypeOK
<1>5. ASSUME NEW r \in Batch(p), NEW part \in 1..3 PROVE Has(ledFile, r, part)
  <2>1. r \in c.first..c.last
    BY <1>4
  <2>2. 3 * (r - c.first) + part <= 3 * (c.last - c.first + 1)
    <3>1. PICK a \in Nat : a = c.first
      BY <1>4
    <3>2. PICK b \in Nat : b = c.last
      BY <1>4
    <3>3. r \in a..b
      BY <2>1, <3>1, <3>2
    <3>4. 3 * (r - a) + part <= 3 * (b - a + 1)
      BY <3>3
    <3> QED
      BY <3>1, <3>2, <3>4
  <2> QED
    BY <1>1, <2>1, <2>2 DEF Owns
<1>6. \A r \in Batch(p) : r \in Nat /\ r \in 1..Len(ledRows)
  BY <1>4
<1>7. /\ ledPast' \in [acked : SUBSET Nat, struck : SUBSET Nat, shared : SUBSET SUBSET Nat, views : Nat, faults : Nat]
      /\ ledPast'.shared = ledPast.shared /\ ledPast'.struck = ledPast.struck
      /\ ledPast'.acked = ledPast.acked \cup Batch(p)
  BY <1>3, <1>6 DEF LedInv, LedTypeOK
<1>8. \A n \in ledPast'.acked : n \in 1..Len(ledRows) /\ \A part \in 1..3 : Has(ledFile, n, part)
  BY <1>5, <1>6, <1>7 DEF LedInv, AcksHold
<1>9. ASSUME NEW q \in Appenders, (IF q = p THEN d.at ELSE ledProc[q].at) = "write" PROVE ledLock' = {q}
  <2>1. q # p /\ ledProc[q].at = "write"
    BY <1>2, <1>9
  <2>2. ledLock = {q}
    BY <2>1 DEF LedInv, LockHolds
  <2> QED
    BY <1>3, <2>1, <2>2
<1>10. \A i \in 1..Len(ledFile) : ledFile[i].row \in Batch(p) /\ ledProc[p].at = "write" /\ d.at # "write" =>
         Has(ledFile, ledFile[i].row, 3)
  BY <1>5
<1>11. Owns(d, p, ledFile, ledRows)
  BY <1>2 DEF Owns
<1> QED
  BY <1>2, <1>3, <1>7, <1>8, <1>9, <1>10, <1>11, StillMoves

LEMMA SeqOfMap == ASSUME NEW R, NEW n \in Nat, NEW f \in [1..n -> R] PROVE f \in Seq(R) /\ Len(f) = n
  OBVIOUS

JoinOf(u, s, t, R) ==
    /\ u \in Seq(R) /\ Len(u) = Len(s) + Len(t)
    /\ \A k \in 1..Len(s) : u[k] = s[k]
    /\ \A k \in 1..Len(t) : u[Len(s) + k] = t[k]

LEMMA Joined == ASSUME NEW R, NEW s \in Seq(R), NEW t \in Seq(R) PROVE JoinOf(s \o t, s, t, R)
<1>1. PICK u : u = s \o t
  OBVIOUS
<1>2. JoinOf(u, s, t, R)
  BY <1>1 DEF JoinOf
<1> QED
  BY <1>1, <1>2

LEMMA BeginAppendKeeps == ASSUME LedInv, NEW p \in Writers, BeginAppend(p) PROVE LedInv'
<1>1. PICK c \in CallShape : c = ledProc[p] /\ c.at = "idle" /\ c.done = 0
  BY CallIs DEF BeginAppend, Owns
<1>2. PICK n \in 1..(IF p \in Bridges THEN MaxBatch ELSE 1) : \E kinds \in [1..n -> RowKinds] :
        /\ ledRows' = ledRows \o [k \in 1..n |-> [kind |-> kinds[k], by |-> p]]
        /\ ledProc' = [ledProc EXCEPT ![p].at = IF p \in Appenders THEN "lock" ELSE "write",
                                      ![p].first = Len(ledRows) + 1, ![p].last = Len(ledRows) + n]
  BY DEF BeginAppend
<1>30. PICK kinds \in [1..n -> RowKinds] :
        /\ ledRows' = ledRows \o [k \in 1..n |-> [kind |-> kinds[k], by |-> p]]
        /\ ledProc' = [ledProc EXCEPT ![p].at = IF p \in Appenders THEN "lock" ELSE "write",
                                      ![p].first = Len(ledRows) + 1, ![p].last = Len(ledRows) + n]
  BY <1>2
<1>3. UNCHANGED <<ledFile, ledLock, ledPast>>
  BY DEF BeginAppend
<1>4. n \in Nat /\ 1 <= n /\ (p \notin Bridges => n = 1)
  BY LedgerFileAssumption
<1>5. PICK L \in Nat : L = Len(ledRows)
  BY DEF LedInv, LedTypeOK
<1>6. PICK more : more = [k \in 1..n |-> [kind |-> kinds[k], by |-> p]]
  OBVIOUS
<1>7. more \in Seq([kind : RowKinds, by : Writers]) /\ Len(more) = n /\ \A k \in 1..n : more[k].by = p
  <2>1. more \in [1..n -> [kind : RowKinds, by : Writers]]
    BY <1>30, <1>6
  <2>2. more \in Seq([kind : RowKinds, by : Writers]) /\ Len(more) = n
    <3>1. PICK R : R = [kind : RowKinds, by : Writers]
      OBVIOUS
    <3>2. PICK m \in Nat : m = n
      BY <1>4
    <3>3. more \in [1..m -> R]
      BY <2>1, <3>1, <3>2
    <3>4. more \in Seq(R) /\ Len(more) = m
      BY <3>3, SeqOfMap
    <3> QED
      BY <3>1, <3>2, <3>4
  <2> QED
    BY <1>6, <2>2
<1>8. PICK rows \in Seq([kind : RowKinds, by : Writers]) : rows = ledRows
  BY DEF LedInv, LedTypeOK
<1>9. PICK out : out = rows \o more
  OBVIOUS
<1>10. /\ out \in Seq([kind : RowKinds, by : Writers]) /\ Len(out) = L + n
       /\ \A k \in 1..L : out[k] = rows[k]
       /\ \A k \in 1..n : out[L + k] = more[k]
  <2>1. PICK R : R = [kind : RowKinds, by : Writers]
    OBVIOUS
  <2>2. rows \in Seq(R) /\ more \in Seq(R) /\ Len(rows) = L /\ Len(more) = n
    BY <1>5, <1>7, <1>8, <2>1
  <2>3. /\ out \in Seq(R) /\ Len(out) = Len(rows) + Len(more)
        /\ \A k \in 1..Len(rows) : out[k] = rows[k]
        /\ \A k \in 1..Len(more) : out[Len(rows) + k] = more[k]
    <3>1. JoinOf(out, rows, more, R)
      BY <1>9, <2>2, Joined
    <3> QED
      BY <3>1 DEF JoinOf
  <2> QED
    BY <2>1, <2>2, <2>3
<1>11. ledRows' = out
  BY <1>30, <1>6, <1>8, <1>9
<1>12. PICK d : d = [c EXCEPT !.at = IF p \in Appenders THEN "lock" ELSE "write", !.first = L + 1, !.last = L + n]
  OBVIOUS
<1>13. /\ d \in CallShape /\ d.first = L + 1 /\ d.last = L + n /\ d.done = 0
       /\ d.at = IF p \in Appenders THEN "lock" ELSE "write"
  <2>1. PICK at \in {"lock", "write"} : at = IF p \in Appenders THEN "lock" ELSE "write"
    OBVIOUS
  <2>2. d = [c EXCEPT !.at = at, !.first = L + 1, !.last = L + n]
    BY <1>12, <2>1
  <2>3. L + 1 \in Nat /\ L + n \in Nat
    BY <1>4
  <2>4. d \in CallShape /\ d.first = L + 1 /\ d.last = L + n /\ d.done = 0 /\ d.at = at
    BY <1>1, <2>2, <2>3 DEF CallShape
  <2> QED
    BY <2>1, <2>4
<1>14. ledProc' = [ledProc EXCEPT ![p] = d]
  BY <1>1, <1>30, <1>5, <1>12 DEF LedInv, LedTypeOK, CallShape
<1>15. \A i \in 1..Len(ledFile) : ledFile[i].row \in 1..L
  BY <1>5 DEF LedInv, LedTypeOK
<1>16. Owns(d, p, ledFile, out)
  <2>1. ASSUME NEW r \in L + 1..L + n
        PROVE  out[r].by = p /\ \A part \in 1..3 : Has(ledFile, r, part) <=> 3 * (r - (L + 1)) + part <= 0
    <3>1. PICK k \in 1..n : r = L + k
      <4>1. r - L \in 1..n /\ r = L + (r - L)
        BY <1>4, <2>1
      <4> QED
        BY <4>1
    <3>2. out[r].by = p
      BY <1>7, <1>10, <3>1
    <3>3. r \notin 1..L
      BY <3>1
    <3>4. \A part : ~Has(ledFile, r, part)
      BY <1>15, <3>3 DEF Has
    <3>5. \A part \in 1..3 : ~(3 * (r - (L + 1)) + part <= 0)
      BY <3>1
    <3> QED
      BY <3>2, <3>4, <3>5
  <2>2. 1 <= L + 1 /\ L + 1 <= L + n /\ L + n <= Len(out) /\ 0 <= 3 * ((L + n) - (L + 1) + 1)
        /\ (p \notin Bridges => L + 1 = L + n)
    BY <1>4, <1>10
  <2> QED
    BY <1>13, <2>1, <2>2 DEF Owns
<1>17. ASSUME NEW q \in Writers, q # p PROVE Owns(ledProc[q], q, ledFile, out)
  <2>1. PICK e \in CallShape : e = ledProc[q] /\ Owns(e, q, ledFile, rows)
    BY <1>8, CallIs
  <2>2. ASSUME e.at # "idle" PROVE e.last <= Len(out) /\ \A r \in e.first..e.last : out[r] = rows[r]
    <3>1. 1 <= e.first /\ e.last <= L /\ e.first \in Nat /\ e.last \in Nat
      BY <1>5, <1>8, <2>1, <2>2 DEF Owns, CallShape
    <3>2. \A r \in e.first..e.last : r \in 1..L
      BY <3>1
    <3> QED
      BY <1>4, <1>10, <3>1, <3>2
  <2>3. Owns(e, q, ledFile, out)
    BY <2>1, <2>2 DEF Owns
  <2> QED
    BY <2>1, <2>3
<1>18. Unlocked \subseteq Unlocked'
  <2>1. DOMAIN out = 1..L + n /\ DOMAIN rows = 1..L /\ \A k \in 1..L : k \in 1..L + n
    BY <1>4, <1>5, <1>8, <1>10
  <2> QED
    BY <1>8, <1>10, <1>11, <2>1 DEF Unlocked
<1>19. \A pair \in ledPast'.shared : Excused(pair)'
  BY <1>3, <1>18 DEF LedInv, LinesHold, Excused
<1>20. /\ ledProc'[p] = d /\ \A q \in Writers \cup Viewers : q # p => ledProc'[q] = ledProc[q]
  BY <1>13, <1>14, CallsAfter
<1>21. ASSUME NEW i \in 1..Len(ledFile) PROVE Attended(ledFile[i].row)'
  <2>1. PICK m : m = ledFile[i].row
    OBVIOUS
  <2>2. Attended(m)
    BY <2>1 DEF LedInv, LinesHold
  <2>3. CASE m \in ledPast.struck \/ Has(ledFile, m, 3)
    <3>1. Attended(m)'
      BY <1>3, <2>3 DEF Attended
    <3> QED
      BY <1>3, <2>1, <3>1
  <2>4. CASE \E q \in Writers : ledProc[q].at = "write" /\ m \in Batch(q)
    <3>1. PICK q \in Writers : ledProc[q].at = "write" /\ m \in Batch(q)
      BY <2>4
    <3>2. ledProc'[q] = ledProc[q]
      BY <1>1, <1>20, <3>1
    <3>3. Attended(m)'
      BY <3>1, <3>2 DEF Attended, Batch
    <3> QED
      BY <1>3, <2>1, <3>3
  <2> QED
    BY <2>2, <2>3, <2>4 DEF Attended
<1>22. ASSUME NEW q \in Appenders, (IF q = p THEN d.at ELSE ledProc[q].at) = "write" PROVE ledLock' = {q}
  <2>1. q # p /\ ledProc[q].at = "write"
    BY <1>13, <1>22
  <2> QED
    BY <1>3, <2>1 DEF LedInv, LockHolds
<1>23. \A k \in 1..L : k \in 1..Len(ledRows')
  BY <1>4, <1>10, <1>11
<1>24. Moves(p, d)
  <2>1. GoodFile(ledFile') /\ Joins(ledFile', ledPast'.shared) /\ Len(ledFile) <= Len(ledFile')
        /\ \A i \in 1..Len(ledFile) : ledFile'[i] = ledFile[i]
    <3>1. ledFile' = ledFile /\ ledPast'.shared = ledPast.shared
      BY <1>3
    <3>2. GoodFile(ledFile) /\ Joins(ledFile, ledPast.shared)
      BY DEF LedInv, LedTypeOK, LinesHold
    <3>3. Len(ledFile) \in Nat
      BY <3>2 DEF GoodFile
    <3> QED
      BY <3>1, <3>2, <3>3
  <2>2. \A i \in 1..Len(ledFile') : ledFile'[i].row \in 1..Len(ledRows')
    BY <1>3, <1>15, <1>23
  <2>3. /\ ledRows' \in Seq([kind : RowKinds, by : Writers])
        /\ \A k \in 1..Len(ledRows) : ledRows'[k] = ledRows[k]
        /\ Len(ledRows) <= Len(ledRows')
    BY <1>5, <1>8, <1>10, <1>11
  <2>4. /\ ledPast' \in [acked : SUBSET Nat, struck : SUBSET Nat, shared : SUBSET SUBSET Nat, views : Nat, faults : Nat]
        /\ ledPast.shared \subseteq ledPast'.shared /\ ledPast.acked \subseteq ledPast'.acked
        /\ ledPast.struck \subseteq ledPast'.struck
    BY <1>3 DEF LedInv, LedTypeOK
  <2>5. Owns(d, p, ledFile', ledRows') /\ \A q \in Writers : q # p => Owns(ledProc[q], q, ledFile', ledRows')
    BY <1>3, <1>11, <1>16, <1>17
  <2>6. \A k \in ledPast'.acked : k \in 1..Len(ledRows') /\ \A part \in 1..3 : Has(ledFile', k, part)
    BY <1>3, <1>5, <1>23 DEF LedInv, AcksHold
  <2>7. (\A i \in 1..Len(ledFile) : Attended(ledFile[i].row))'
    BY <1>3, <1>21
  <2> QED
    BY <1>13, <1>14, <1>19, <1>22, <2>1, <2>2, <2>3, <2>4, <2>5, <2>6, <2>7 DEF Moves
<1> QED
  BY <1>24, MoveKeeps

\* Who stands after a write of p that goes on, or that strikes the rows of p.
LEMMA PutAttended ==
    ASSUME LedInv, NEW p \in Writers, NEW c \in CallShape, c = ledProc[p], FileWritten(c),
           NEW d \in CallShape, ledProc' = [ledProc EXCEPT ![p] = d], ledPast.struck \subseteq ledPast'.struck,
           \/ c.first..c.last \subseteq ledPast'.struck
           \/ d.at = "write" /\ d.first = c.first /\ d.last = c.last
    PROVE  (\A i \in 1..Len(ledFile) : Attended(ledFile[i].row))'
<1>1. /\ ledProc'[p] = d /\ \A q \in Writers \cup Viewers : q # p => ledProc'[q] = ledProc[q]
  BY CallsAfter
<1>2. ASSUME NEW n \in c.first..c.last PROVE Attended(n)'
  BY <1>1, <1>2 DEF Attended, Batch
<1>3. ASSUME NEW i \in 1..Len(ledFile') PROVE Attended(ledFile[i].row)'
  <2>1. PICK n : n = ledFile'[i].row
    OBVIOUS
  <2>2. CASE n \in c.first..c.last
    <3>1. Attended(n)'
      BY <1>2, <2>2
    <3> QED
      BY <2>1, <3>1 DEF Attended
  <2>3. CASE n \notin c.first..c.last
    <3>1. i \in 1..Len(ledFile) /\ n = ledFile[i].row
      BY <2>1, <2>3 DEF FileWritten
    <3>2. Attended(n)
      BY <3>1 DEF LedInv, LinesHold
    <3>3. CASE n \in ledPast.struck \/ Has(ledFile, n, 3)
      <4>1. n \in ledPast'.struck \/ Has(ledFile', n, 3)
        BY <3>3 DEF FileWritten
      <4>2. Attended(n)'
        BY <4>1 DEF Attended
      <4> QED
        BY <2>1, <4>2 DEF Attended
    <3>4. CASE \E q \in Writers : ledProc[q].at = "write" /\ n \in Batch(q)
      <4>1. PICK q \in Writers : ledProc[q].at = "write" /\ n \in Batch(q)
        BY <3>4
      <4>2. q # p
        BY <2>3, <4>1 DEF Batch
      <4>3. ledProc'[q] = ledProc[q]
        BY <1>1, <4>2
      <4>4. Attended(n)'
        BY <4>1, <4>3 DEF Attended, Batch
      <4> QED
        BY <2>1, <4>4 DEF Attended
    <3> QED
      BY <3>2, <3>3, <3>4 DEF Attended
  <2> QED
    BY <2>2, <2>3
<1> QED
  BY <1>3

LEMMA SharesType == ASSUME LedInv, NEW c, FileWritten(c) PROVE ledPast'.shared \subseteq SUBSET Nat
<1>1. GoodFile(ledFile') /\ Joins(ledFile', ledPast'.shared)
  BY DEF FileWritten
<1>2. ASSUME NEW pair \in ledPast'.shared PROVE pair \in SUBSET Nat
  <2>1. PICK i \in 1..Len(ledFile') : Joint(ledFile', i) /\ pair = {ledFile'[i].row, ledFile'[i + 1].row}
    BY <1>1 DEF Joins
  <2>2. i \in 1..Len(ledFile') /\ i + 1 \in 1..Len(ledFile')
    BY <1>1, <2>1 DEF Joint, GoodFile
  <2> QED
    BY <1>1, <2>1, <2>2, PlaceType
<1> QED
  BY <1>2

LEMMA WriteSomeKeeps == ASSUME LedInv, NEW p \in Writers, WriteSome(p) PROVE LedInv'
<1>1. PICK c \in CallShape : c = ledProc[p] /\ Owns(c, p, ledFile, ledRows) /\ c.at = "write"
  BY CallIs DEF WriteSome
<1>2. c.first \in Nat /\ c.last \in Nat /\ c.done \in Nat /\ c.first <= c.last /\ c.done <= 3 * (c.last - c.first + 1)
  BY <1>1 DEF CallShape, Owns
<1>3. PICK k \in 1..(Size(p) - c.done) :
        /\ ledFile' = ledFile \o Piece(p, k)
        /\ ledProc' = [ledProc EXCEPT ![p].done = c.done + k]
        /\ ledPast' = [ledPast EXCEPT !.shared = ledPast.shared \cup Shares(Piece(p, k))]
  BY <1>1 DEF WriteSome
<1>4. ledRows' = ledRows /\ ledLock' = ledLock
  BY DEF WriteSome
<1>5. k \in Nat /\ c.done + k <= 3 * (c.last - c.first + 1)
  <2>1. PICK s \in Nat : s = 3 * (c.last - c.first + 1)
    BY <1>2
  <2>2. Size(p) = s
    BY <1>1, <2>1 DEF Size
  <2>3. k \in 1..(s - c.done)
    BY <2>2
  <2>4. k \in Nat /\ c.done + k <= s
    BY <1>2, <2>3
  <2> QED
    BY <2>1, <2>4
<1>6. /\ ledPast'.shared = ledPast.shared \cup Shares(Piece(p, k)) /\ ledPast'.struck = ledPast.struck
      /\ ledPast'.acked = ledPast.acked /\ ledPast'.views = ledPast.views /\ ledPast'.faults = ledPast.faults
      /\ ledPast' = [acked |-> ledPast'.acked, struck |-> ledPast'.struck, shared |-> ledPast'.shared,
                     views |-> ledPast'.views, faults |-> ledPast'.faults]
  BY <1>3 DEF LedInv, LedTypeOK
<1>7. Puts(p, c, k)
  BY <1>1, <1>3, <1>4, <1>5, <1>6 DEF Puts
<1>8. FileWritten(c)
  BY <1>7, PutFile
<1>9. PICK d : d = [c EXCEPT !.done = c.done + k]
  OBVIOUS
<1>10. d \in CallShape /\ d.at = "write" /\ d.first = c.first /\ d.last = c.last
  BY <1>1, <1>2, <1>5, <1>9 DEF CallShape
<1>11. ledProc' = [ledProc EXCEPT ![p] = d]
  BY <1>1, <1>3, <1>9
<1>12. Owns(d, p, ledFile', ledRows') /\ \A q \in Writers : q # p => Owns(ledProc[q], q, ledFile', ledRows')
  BY <1>1, <1>7, <1>9, PutOwns
<1>13. (\A i \in 1..Len(ledFile) : Attended(ledFile[i].row))'
  BY <1>1, <1>6, <1>8, <1>10, <1>11, PutAttended
<1>14. ledPast' \in [acked : SUBSET Nat, struck : SUBSET Nat, shared : SUBSET SUBSET Nat, views : Nat, faults : Nat]
  <2>1. ledPast'.shared \subseteq SUBSET Nat
    BY <1>8, SharesType
  <2>2. ledPast.acked \in SUBSET Nat /\ ledPast.struck \in SUBSET Nat /\ ledPast.views \in Nat /\ ledPast.faults \in Nat
    BY DEF LedInv, LedTypeOK
  <2> QED
    BY <1>6, <2>1, <2>2
<1>15. ASSUME NEW q \in Appenders, (IF q = p THEN d.at ELSE ledProc[q].at) = "write" PROVE ledLock' = {q}
  <2>1. ledProc[q].at = "write"
    BY <1>1, <1>15
  <2> QED
    BY <1>4, <2>1 DEF LedInv, LockHolds
<1>16. \A n \in ledPast'.acked : n \in 1..Len(ledRows') /\ \A part \in 1..3 : Has(ledFile', n, part)
  BY <1>4, <1>6, <1>8 DEF LedInv, AcksHold, FileWritten
<1>17. \A pair \in ledPast'.shared : Excused(pair)'
  BY <1>7, PutExcused
<1>18. Moves(p, d)
  BY <1>4, <1>6, <1>8, <1>10, <1>11, <1>12, <1>13, <1>14, <1>15, <1>16, <1>17 DEF Moves, FileWritten, LedInv, LedTypeOK
<1> QED
  BY <1>18, MoveKeeps

LEMMA BreaksKeeps == ASSUME LedInv, NEW p \in Writers, Breaks(p) PROVE LedInv'
<1>1. PICK c \in CallShape : c = ledProc[p] /\ Owns(c, p, ledFile, ledRows) /\ c.at \in {"lock", "write"}
  BY CallIs DEF Breaks
<1>2. /\ c.first \in Nat /\ c.last \in Nat /\ c.done \in Nat /\ 1 <= c.first /\ c.first <= c.last
      /\ c.done <= 3 * (c.last - c.first + 1)
  BY <1>1 DEF CallShape, Owns
<1>3. PICK k \in 0..(Size(p) - c.done) :
        /\ c.at = "lock" => k = 0
        /\ ledFile' = ledFile \o Piece(p, k)
        /\ ledPast' = [ledPast EXCEPT !.faults = ledPast.faults + 1,
                                      !.struck = ledPast.struck \cup Batch(p),
                                      !.shared = ledPast.shared \cup Shares(Piece(p, k))]
  BY <1>1 DEF Breaks
<1>4. PICK d \in CallShape : d = NoAppend /\ d.at = "idle" /\ d.done = 0
  BY NoAppendIs
<1>5. ledRows' = ledRows /\ ledLock' = ledLock \ {p} /\ ledProc' = [ledProc EXCEPT ![p] = d]
  BY <1>4 DEF Breaks
<1>6. k \in Nat /\ c.done + k <= 3 * (c.last - c.first + 1)
  <2>1. PICK s \in Nat : s = 3 * (c.last - c.first + 1)
    BY <1>2
  <2>2. Size(p) = s
    BY <1>1, <2>1 DEF Size
  <2>3. k \in 0..(s - c.done)
    BY <2>2
  <2>4. k \in Nat /\ c.done + k <= s
    BY <1>2, <2>3
  <2> QED
    BY <2>1, <2>4
<1>7. Batch(p) = c.first..c.last
  BY <1>1 DEF Batch
<1>8. /\ ledPast'.shared = ledPast.shared \cup Shares(Piece(p, k))
      /\ ledPast'.struck = ledPast.struck \cup (c.first..c.last)
      /\ ledPast'.acked = ledPast.acked /\ ledPast'.views = ledPast.views /\ ledPast'.faults = ledPast.faults + 1
      /\ ledPast' = [acked |-> ledPast'.acked, struck |-> ledPast'.struck, shared |-> ledPast'.shared,
                     views |-> ledPast'.views, faults |-> ledPast'.faults]
  BY <1>3, <1>7 DEF LedInv, LedTypeOK
<1>9. Puts(p, c, k)
  BY <1>1, <1>3, <1>5, <1>6, <1>8 DEF Puts
<1>10. FileWritten(c)
  BY <1>9, PutFile
<1>11. Owns(d, p, ledFile', ledRows') /\ \A q \in Writers : q # p => Owns(ledProc[q], q, ledFile', ledRows')
  <2>1. Owns(d, p, ledFile', ledRows')
    BY <1>4 DEF Owns
  <2> QED
    BY <1>9, <2>1, PutOwns
<1>12. (\A i \in 1..Len(ledFile) : Attended(ledFile[i].row))'
  BY <1>1, <1>4, <1>5, <1>8, <1>10, PutAttended
<1>13. ledPast' \in [acked : SUBSET Nat, struck : SUBSET Nat, shared : SUBSET SUBSET Nat, views : Nat, faults : Nat]
  <2>1. ledPast'.shared \subseteq SUBSET Nat
    BY <1>10, SharesType
  <2>2. ledPast.acked \in SUBSET Nat /\ ledPast.struck \in SUBSET Nat /\ ledPast.views \in Nat /\ ledPast.faults \in Nat
    BY DEF LedInv, LedTypeOK
  <2>3. c.first..c.last \subseteq Nat
    BY <1>2
  <2> QED
    BY <1>8, <2>1, <2>2, <2>3
<1>14. ASSUME NEW q \in Appenders, (IF q = p THEN d.at ELSE ledProc[q].at) = "write" PROVE ledLock' = {q}
  <2>1. q # p /\ ledProc[q].at = "write"
    BY <1>4, <1>14
  <2>2. ledLock = {q}
    BY <2>1 DEF LedInv, LockHolds
  <2> QED
    BY <1>5, <2>1, <2>2
<1>15. \A n \in ledPast'.acked : n \in 1..Len(ledRows') /\ \A part \in 1..3 : Has(ledFile', n, part)
  BY <1>5, <1>8, <1>10 DEF LedInv, AcksHold, FileWritten
<1>16. \A pair \in ledPast'.shared : Excused(pair)'
  BY <1>9, PutExcused
<1>17. Moves(p, d)
  BY <1>4, <1>5, <1>8, <1>10, <1>11, <1>12, <1>13, <1>14, <1>15, <1>16 DEF Moves, FileWritten, LedInv, LedTypeOK
<1> QED
  BY <1>17, MoveKeeps

\* A reader's step leaves the file and the writers alone.
LEMMA ReaderKeeps ==
    ASSUME LedInv, NEW p \in Viewers, NEW d \in CallShape, ledProc' = [ledProc EXCEPT ![p] = d],
           UNCHANGED <<ledRows, ledFile, ledLock>>,
           ledPast' \in [acked : SUBSET Nat, struck : SUBSET Nat, shared : SUBSET SUBSET Nat,
                         views : Nat, faults : Nat],
           ledPast'.acked = ledPast.acked, ledPast'.struck = ledPast.struck, ledPast'.shared = ledPast.shared,
           d.view.acked \subseteq ledPast.acked, d.view.failed => Blamed,
           d.at = "idle" /\ d.view.of # "none" /\ ~d.view.failed => ViewHolds(d.view)
    PROVE  LedInv'
<1>1. ledProc \in [Writers \cup Viewers -> CallShape] /\ p \notin Writers
  BY LedgerFileAssumption DEF LedInv, LedTypeOK, Writers
<1>2. ledProc' \in [Writers \cup Viewers -> CallShape] /\ ledProc'[p] = d
      /\ \A q \in Writers \cup Viewers : q # p => ledProc'[q] = ledProc[q]
  BY <1>1
<1>3. \A q \in Writers : ledProc'[q] = ledProc[q]
  BY <1>1, <1>2
<1>4. LedTypeOK'
  BY <1>2 DEF LedInv, LedTypeOK
<1>5. CallsHold'
  BY <1>3 DEF LedInv, CallsHold
<1>6. LinesHold'
  <2>1. Unlocked' = Unlocked
    BY DEF Unlocked
  <2>2. \A pair \in ledPast'.shared : Excused(pair)'
    BY <2>1 DEF LedInv, LinesHold, Excused
  <2>3. ASSUME NEW i \in 1..Len(ledFile) PROVE Attended(ledFile[i].row)'
    <3>1. Attended(ledFile[i].row)
      BY DEF LedInv, LinesHold
    <3> QED
      BY <1>3, <3>1 DEF Attended, Batch
  <2> QED
    BY <2>2, <2>3 DEF LedInv, LinesHold
<1>7. LockHolds'
  BY <1>3 DEF LedInv, LockHolds, Writers
<1>8. AcksHold'
  BY DEF LedInv, AcksHold
<1>9. \A v : ViewHolds(v) <=> ViewHolds(v)'
  <2>1. \A of, large : Events(of, large)' = Events(of, large)
    BY DEF Events, LineAt, Sought
  <2> QED
    BY <2>1 DEF ViewHolds, OnSharedLines
<1>9a. Blamed => Blamed'
  BY DEF Blamed, Unlocked, OnSharedLines
<1>10. ViewsHold'
  <2>1. ASSUME NEW q \in Viewers
        PROVE  ledProc'[q].view.acked \subseteq ledPast'.acked /\ (ledProc'[q].view.failed => Blamed')
               /\ (Answered(q)' => ViewHolds(ledProc[q].view)')
    <3>1. CASE q = p
      <4>1. PICK v : v = d.view
        OBVIOUS
      <4>2. Answered(p)' => ViewHolds(v)'
        BY <1>2, <1>9, <4>1 DEF Answered, Shown
      <4> QED
        BY <1>2, <1>9a, <3>1, <4>1, <4>2
    <3>2. CASE q # p
      <4>1. ledProc'[q] = ledProc[q]
        BY <1>2, <3>2
      <4>2. PICK v : v = ledProc[q].view
        OBVIOUS
      <4>3. v.acked \subseteq ledPast.acked /\ (v.failed => Blamed) /\ (Answered(q) => ViewHolds(v))
        BY <4>2 DEF LedInv, ViewsHold
      <4>4. Answered(q)' => ViewHolds(v)'
        BY <1>9, <4>1, <4>3 DEF Answered, Shown
      <4> QED
        BY <1>9a, <4>1, <4>2, <4>3, <4>4
    <3> QED
      BY <3>1, <3>2
  <2> QED
    BY <2>1 DEF ViewsHold
<1> QED
  BY <1>4, <1>5, <1>6, <1>7, <1>8, <1>10 DEF LedInv

LEMMA AskRecordsKeeps == ASSUME LedInv, NEW p \in Viewers, AskRecords(p) PROVE LedInv'
<1>1. PICK c \in CallShape : c = ledProc[p]
  BY DEF LedInv, LedTypeOK
<1>2. PICK e : e = <<>>
  OBVIOUS
<1>3. PICK of \in RecordRuns \cup {"all"}, large \in BOOLEAN :
        ledProc' = [ledProc EXCEPT ![p].at = "lock",
                                   ![p].view = [NoView EXCEPT !.of = of, !.large = large, !.acked = ledPast.acked]]
  <2>1. PICK of \in RecordRuns \cup {"all"} :
          ledProc' = [ledProc EXCEPT ![p].at = "lock",
                                     ![p].view = [NoView EXCEPT !.of = of, !.large = Len(ledFile) >= LargeFile,
                                                                !.acked = ledPast.acked]]
    BY DEF AskRecords
  <2>2. PICK large : large = (Len(ledFile) >= LargeFile)
    OBVIOUS
  <2>3. large \in BOOLEAN
    BY <2>2
  <2> QED
    BY <2>1, <2>2, <2>3
<1>4. PICK w : w = [of |-> "none", large |-> FALSE, failed |-> FALSE, events |-> e, acked |-> {}, shared |-> {}]
  OBVIOUS
<1>5. PICK v : v = [w EXCEPT !.of = of, !.large = large, !.acked = ledPast.acked]
  OBVIOUS
<1>6. PICK d : d = [c EXCEPT !.at = "lock", !.view = v]
  OBVIOUS
<1>7. ledProc' = [ledProc EXCEPT ![p] = d]
  <2>1. w = NoView
    BY <1>2, <1>4 DEF NoView
  <2> QED
    BY <1>1, <1>3, <1>5, <1>6, <2>1
<1>8. /\ ledPast.acked \in SUBSET Nat /\ ledPast.views \in Nat
      /\ ledPast \in [acked : SUBSET Nat, struck : SUBSET Nat, shared : SUBSET SUBSET Nat, views : Nat, faults : Nat]
  BY DEF LedInv, LedTypeOK
<1>9. e \in Seq(Nat)
  BY <1>2
<1>10. v \in ViewShape /\ v.acked = ledPast.acked /\ ~v.failed
  <2>1. w \in ViewShape
    BY <1>4, <1>9 DEF ViewShape
  <2> QED
    BY <1>4, <1>5, <1>8, <2>1 DEF ViewShape
<1>11. d \in CallShape /\ d.at = "lock" /\ d.view = v
  BY <1>6, <1>10 DEF CallShape
<1>12. /\ ledPast' \in [acked : SUBSET Nat, struck : SUBSET Nat, shared : SUBSET SUBSET Nat, views : Nat, faults : Nat]
       /\ ledPast'.acked = ledPast.acked /\ ledPast'.struck = ledPast.struck /\ ledPast'.shared = ledPast.shared
  BY <1>8 DEF AskRecords
<1>13. UNCHANGED <<ledRows, ledFile, ledLock>>
  BY DEF AskRecords
<1>14. d.view.acked \subseteq ledPast.acked /\ ~d.view.failed
  BY <1>10, <1>11
<1> QED
  BY <1>7, <1>11, <1>12, <1>13, <1>14, ReaderKeeps

\* The answer to a question lists every row that counts and shares no line, once.
LEMMA AnswerHasRows ==
    ASSUME LedInv, NEW of, NEW large, NEW n \in ledPast.acked \ OnSharedLines, Counts(ledRows, of, large, n)
    PROVE  Once(n, Events(of, large))
<1>1. PICK H : H = Hits(ledFile, ledRows, of, large)
  OBVIOUS
<1>2. PICK f : Scans(f, ledFile, H, Len(ledFile)) /\ Events(of, large) = f[Len(ledFile)]
  BY <1>1, EventsAre DEF LedInv, LedTypeOK
<1>3. GoodFile(ledFile) /\ Len(ledFile) \in Nat
  BY DEF LedInv, LedTypeOK, GoodFile
<1>4. PICK r : r = Events(of, large)
  OBVIOUS
<1>5. Reads(r, ledFile, H, Len(ledFile))
  BY <1>1, <1>2, <1>3, <1>4, ScanOfFile
<1>6. PICK i \in 1..Len(ledFile) : Line(ledFile, i) /\ ledFile[i].row = n
  <2>1. Joins(ledFile, ledPast.shared) /\ n \notin UNION ledPast.shared
    BY DEF LedInv, LinesHold, OnSharedLines
  <2>2. \A part \in 1..3 : Has(ledFile, n, part)
    BY DEF LedInv, AcksHold
  <2> QED
    BY <1>3, <2>1, <2>2, WholeRowHasLine
<1>7. i \in H
  BY <1>1, <1>6 DEF Hits
<1>8. PICK k \in 1..Len(r) : r[k] = n
  BY <1>5, <1>6, <1>7 DEF Reads
<1>9. \A j \in 1..Len(r) : r[j] = n => j = k
  BY <1>5, <1>8 DEF Reads
<1>10. Once(n, r)
  BY <1>8, <1>9 DEF Once
<1> QED
  BY <1>4, <1>10

\* Where a character is cut, its row has not been written to its end, or another one came between.
LEMMA CutIsBlamed == ASSUME LedInv, ledLock = {}, ~Decodes PROVE Blamed
<1>1. GoodFile(ledFile) /\ Joins(ledFile, ledPast.shared) /\ DOMAIN ledFile = 1..Len(ledFile) /\ Len(ledFile) \in Nat
  BY DEF LedInv, LedTypeOK, LinesHold, GoodFile
<1>2. PICK i \in 1..Len(ledFile) :
        /\ ledFile[i].part = 1 /\ ledRows[ledFile[i].row].kind.wide
        /\ ~(i < Len(ledFile) /\ ledFile[i + 1] = [ledFile[i] EXCEPT !.part = 2])
  BY <1>1 DEF Decodes
<1>3. PICK n \in 1..Len(ledRows) : n = ledFile[i].row
  BY DEF LedInv, LedTypeOK
<1>4. SUFFICES n \in Unlocked \cup ledPast.struck \cup OnSharedLines
  BY <1>2, <1>3 DEF Blamed
<1>5. CASE i = Len(ledFile)
  <2>1. Attended(n)
    BY <1>3 DEF LedInv, LinesHold
  <2>2. ~Has(ledFile, n, 3)
    <3>1. SUFFICES ASSUME NEW a \in 1..Len(ledFile), ledFile[a].row = n, ledFile[a].part = 3 PROVE FALSE
      BY DEF Has
    <3>2. PICK b \in 1..a - 1 : ledFile[b].row = n /\ ledFile[b].part = 2
      BY <1>1, <3>1 DEF GoodFile
    <3>3. b \in 1..Len(ledFile)
      BY <1>1
    <3>4. PICK c \in 1..b - 1 : ledFile[c].row = n /\ ledFile[c].part = 1
      BY <1>1, <3>2, <3>3 DEF GoodFile
    <3>5. b < a /\ c < b
      BY <3>1, <3>2, <3>3, <3>4, <1>1
    <3>6. c < i
      BY <1>1, <1>5, <3>1, <3>3, <3>4, <3>5
    <3>7. c \in 1..Len(ledFile) /\ c # i
      BY <1>1, <1>5, <3>4, <3>6
    <3> QED
      BY <1>1, <1>2, <1>3, <3>4, <3>7 DEF GoodFile
  <2>3. CASE n \in ledPast.struck
    BY <2>3
  <2>4. ASSUME NEW q \in Writers, ledProc[q].at = "write", n \in Batch(q) PROVE n \in Unlocked
    <3>1. q \in Bridges
      BY <2>4 DEF LedInv, LockHolds, Writers
    <3>2. ledRows[n].by = q
      BY <2>4 DEF LedInv, CallsHold, Owns, Batch
    <3>3. n \in DOMAIN ledRows
      BY DEF LedInv, LedTypeOK
    <3> QED
      BY <3>1, <3>2, <3>3 DEF Unlocked
  <2> QED
    BY <2>1, <2>2, <2>3, <2>4 DEF Attended
<1>6. CASE i # Len(ledFile)
  <2>1. i \in 1..Len(ledFile) - 1 /\ i + 1 \in 1..Len(ledFile) /\ i < Len(ledFile)
    <3>1. PICK L \in Nat : L = Len(ledFile)
      BY <1>1
    <3>2. i \in 1..L /\ i # L
      BY <1>6, <3>1
    <3>3. i \in 1..L - 1 /\ i + 1 \in 1..L /\ i < L
      BY ONLY <3>2, L \in Nat
    <3> QED
      BY <3>1, <3>3
  <2>2. PICK s \in LedTokens : s = ledFile[i]
    BY <1>1 DEF GoodFile
  <2>3. PICK t \in LedTokens : t = ledFile[i + 1]
    BY <1>1, <2>1 DEF GoodFile
  <2>4. ~(t.row = s.row /\ t.part = 2)
    <3>1. t.row = s.row /\ t.part = 2 => t = [s EXCEPT !.part = 2]
      BY DEF LedTokens
    <3> QED
      BY <1>2, <2>1, <2>2, <2>3, <3>1
  <2>5. t.row # s.row
    <3>1. SUFFICES ASSUME t.row = s.row PROVE FALSE
      OBVIOUS
    <3>2. t.part # 1
      <4>1. i # i + 1
        BY <1>1
      <4> QED
        BY <1>1, <1>2, <2>1, <2>2, <2>3, <3>1, <4>1 DEF GoodFile
    <3>3. t.part = 3
      BY <2>4, <3>1, <3>2 DEF LedTokens
    <3>4. PICK b \in 1..(i + 1) - 1 : ledFile[b].row = t.row /\ ledFile[b].part = t.part - 1
      BY <1>1, <2>1, <2>3, <3>2 DEF GoodFile
    <3>5. ledFile[b].part = 2 /\ b \in 1..i
      BY <1>1, <3>3, <3>4
    <3>6. b # i /\ b \in 1..i - 1 /\ b \in 1..Len(ledFile)
      BY <1>1, <1>2, <3>5
    <3>7. PICK c \in 1..b - 1 : ledFile[c].row = t.row /\ ledFile[c].part = 1
      BY <1>1, <3>4, <3>5, <3>6 DEF GoodFile
    <3>8. c \in 1..Len(ledFile) /\ c # i
      BY <1>1, <3>6
    <3> QED
      BY <1>1, <1>2, <2>2, <3>1, <3>7, <3>8 DEF GoodFile
  <2>6. Joint(ledFile, i)
    BY <1>2, <2>1, <2>2, <2>3, <2>5 DEF Joint
  <2>7. {ledFile[i].row, ledFile[i + 1].row} \in ledPast.shared
    BY <1>1, <2>6 DEF Joins
  <2> QED
    BY <1>3, <2>7 DEF OnSharedLines
<1> QED
  BY <1>5, <1>6

LEMMA ReadRecordsKeeps == ASSUME LedInv, NEW p \in Viewers, ReadRecords(p) PROVE LedInv'
<1>1. PICK c \in CallShape : c = ledProc[p]
  BY DEF LedInv, LedTypeOK
<1>2. PICK w \in ViewShape : w = c.view
  BY DEF CallShape
<1>3. PICK ev : ev = Events(w.of, w.large)
  OBVIOUS
<1>4. ev \in Seq(Nat) /\ Len(ev) \in Nat
  <2>1. ev \in Seq(Nat)
    BY <1>3, EventsType DEF LedInv, LedTypeOK
  <2> QED
    BY <2>1
<1>5. /\ ledPast \in [acked : SUBSET Nat, struck : SUBSET Nat, shared : SUBSET SUBSET Nat, views : Nat, faults : Nat]
      /\ ledPast' = ledPast /\ UNCHANGED <<ledRows, ledFile, ledLock>>
  BY DEF LedInv, LedTypeOK, ReadRecords
<1>6. w.acked \subseteq ledPast.acked /\ (w.failed => Blamed)
  BY <1>1, <1>2 DEF LedInv, ViewsHold
<1>7. CASE ledProc' = [ledProc EXCEPT ![p] = NoAppend]
  <2>1. PICK d \in CallShape : d = NoAppend /\ d.at = "idle" /\ d.done = 0
    BY NoAppendIs
  <2>2. d.view.of = "none" /\ d.view.acked = {} /\ ~d.view.failed
    BY <2>1 DEF NoAppend, NoView
  <2>3. ledProc' = [ledProc EXCEPT ![p] = d]
    BY <1>7, <2>1
  <2> QED
    BY <1>5, <2>2, <2>3, ReaderKeeps
<1>8. CASE /\ ledLock = {} /\ ~Decodes
           /\ ledProc' = [ledProc EXCEPT ![p].at = "idle", ![p].view.failed = TRUE]
  <2>1. PICK v : v = [w EXCEPT !.failed = TRUE]
    OBVIOUS
  <2>2. PICK d : d = [c EXCEPT !.at = "idle", !.view = v]
    OBVIOUS
  <2>3. v \in ViewShape /\ v.failed /\ v.acked = w.acked
    BY <2>1 DEF ViewShape
  <2>4. d \in CallShape /\ d.view = v
    BY <2>2, <2>3 DEF CallShape
  <2>5. ledProc' = [ledProc EXCEPT ![p] = d]
    <3>1. d = [c EXCEPT !.at = "idle", !.view.failed = TRUE]
      BY <1>2, <2>1, <2>2 DEF CallShape, ViewShape
    <3> QED
      BY <1>1, <1>8, <3>1
  <2>6. Blamed
    BY <1>8, CutIsBlamed
  <2>7. d.view.acked \subseteq ledPast.acked /\ d.view.failed
    BY <1>6, <2>3, <2>4
  <2> QED
    BY <1>5, <2>4, <2>5, <2>6, <2>7, ReaderKeeps
<1>9. CASE ledProc' = [ledProc EXCEPT ![p].at = "idle",
                        ![p].view.events = Events(ledProc[p].view.of, ledProc[p].view.large),
                        ![p].view.shared = ledPast.shared]
  <2>1. PICK v : v = [w EXCEPT !.events = ev, !.shared = ledPast.shared]
    OBVIOUS
  <2>2. PICK d : d = [c EXCEPT !.at = "idle", !.view = v]
    OBVIOUS
  <2>3. ledPast.shared \in SUBSET SUBSET Nat
    BY <1>5
  <2>4. /\ v \in ViewShape /\ v.of = w.of /\ v.large = w.large /\ v.failed = w.failed /\ v.events = ev
        /\ v.acked = w.acked /\ v.shared = ledPast.shared
    BY <1>4, <2>1, <2>3 DEF ViewShape
  <2>5. d \in CallShape /\ d.view = v
    BY <2>2, <2>4 DEF CallShape
  <2>6. ledProc' = [ledProc EXCEPT ![p] = d]
    <3>1. d = [c EXCEPT !.at = "idle", !.view.events = ev, !.view.shared = ledPast.shared]
      BY <1>2, <2>1, <2>2 DEF CallShape, ViewShape
    <3>2. ev = Events(ledProc[p].view.of, ledProc[p].view.large)
      BY <1>1, <1>2, <1>3
    <3> HIDE DEF Events
    <3> QED
      BY <1>1, <1>9, <3>1, <3>2
  <2>7. ASSUME NEW n \in v.acked \ OnSharedLines, Counts(ledRows, v.of, v.large, n) PROVE Once(n, v.events)
    <3>1. n \in ledPast.acked \ OnSharedLines /\ Counts(ledRows, w.of, w.large, n)
      BY <1>6, <2>4, <2>7
    <3>2. Once(n, Events(w.of, w.large))
      BY <3>1, AnswerHasRows
    <3> QED
      BY <1>3, <2>4, <3>2
  <2>8. Begins(v.events, Events(v.of, v.large))
    <3>1. Begins(ev, ev)
      BY <1>4 DEF Begins
    <3> QED
      BY <1>3, <2>4, <3>1
  <2>9. ViewHolds(v)
    BY <1>6, <2>4, <2>7, <2>8 DEF ViewHolds
  <2>10. d.view.acked \subseteq ledPast.acked /\ (d.view.failed => Blamed)
    BY <1>6, <2>4, <2>5
  <2> QED
    BY <1>5, <2>5, <2>6, <2>9, <2>10, ReaderKeeps
<1> QED
  BY <1>7, <1>8, <1>9 DEF ReadRecords

LEMMA LedStutters == ASSUME LedInv, UNCHANGED ledVars PROVE LedInv'
<1>1. ledRows' = ledRows /\ ledFile' = ledFile /\ ledLock' = ledLock /\ ledProc' = ledProc /\ ledPast' = ledPast
  BY DEF ledVars
<1>2. LedTypeOK'
  BY <1>1 DEF LedInv, LedTypeOK
<1>3. CallsHold'
  BY <1>1 DEF LedInv, CallsHold
<1>4. LinesHold'
  BY <1>1 DEF LedInv, LinesHold, Excused, Unlocked, Attended, Batch
<1>5. LockHolds' /\ AcksHold'
  BY <1>1 DEF LedInv, LockHolds, AcksHold
<1>6. ViewsHold'
  <2>1. \A of, large : Events(of, large)' = Events(of, large)
    BY <1>1 DEF Events, LineAt, Sought
  <2>2. \A v : ViewHolds(v) <=> ViewHolds(v)'
    BY <1>1, <2>1 DEF ViewHolds, OnSharedLines
  <2>4. Blamed => Blamed'
    BY <1>1 DEF Blamed, Unlocked, OnSharedLines
  <2>3. ASSUME NEW q \in Viewers
        PROVE  ledProc'[q].view.acked \subseteq ledPast'.acked /\ (ledProc'[q].view.failed => Blamed')
               /\ (Answered(q)' => ViewHolds(ledProc[q].view)')
    <3>1. PICK v : v = ledProc[q].view
      OBVIOUS
    <3>2. v.acked \subseteq ledPast.acked /\ (v.failed => Blamed) /\ (Answered(q) => ViewHolds(v))
      BY <3>1 DEF LedInv, ViewsHold
    <3>3. Answered(q)' => ViewHolds(v)'
      BY <1>1, <2>2, <3>2 DEF Answered, Shown
    <3> QED
      BY <1>1, <2>4, <3>1, <3>2, <3>3
  <2> QED
    BY <2>3 DEF ViewsHold
<1> QED
  BY <1>2, <1>3, <1>4, <1>5, <1>6 DEF LedInv

LEMMA LedStep == ASSUME LedInv, [LedNext]_ledVars PROVE LedInv'
<1>1. ASSUME NEW p \in Appenders \cup Bridges, BeginAppend(p) PROVE LedInv'
  BY <1>1, BeginAppendKeeps DEF Writers
<1>2. ASSUME NEW p \in Appenders \cup Bridges, Acquire(p) PROVE LedInv'
  BY <1>2, AcquireKeeps DEF Writers
<1>3. ASSUME NEW p \in Appenders \cup Bridges, WriteSome(p) PROVE LedInv'
  BY <1>3, WriteSomeKeeps DEF Writers
<1>4. ASSUME NEW p \in Appenders \cup Bridges, EndAppend(p) PROVE LedInv'
  BY <1>4, EndAppendKeeps DEF Writers
<1>5. ASSUME NEW p \in Appenders \cup Bridges, Breaks(p) PROVE LedInv'
  BY <1>5, BreaksKeeps DEF Writers
<1>6. ASSUME NEW p \in Viewers, AskRecords(p) PROVE LedInv'
  BY <1>6, AskRecordsKeeps
<1>7. ASSUME NEW p \in Viewers, ReadRecords(p) PROVE LedInv'
  BY <1>7, ReadRecordsKeeps
<1>8. CASE UNCHANGED ledVars
  BY <1>8, LedStutters
<1> QED
  BY <1>1, <1>2, <1>3, <1>4, <1>5, <1>6, <1>7, <1>8 DEF LedNext

\* Whatever the appenders, the bridges and the readers do, and whatever dies while writing:
\* two rows share a line of run_ledger.jsonl only if one of them was struck or comes from the
\* bridge (ledger_bridge.py), which takes no lock; every other record that was acknowledged
\* before a question and is not divided by the snapshot is in the answer (run_ledger.py,
\* routes/ledger.py), once, in the order of the file; the file is unreadable only on account
\* of a wide row that was struck, comes from the bridge or shares its line; and the events of
\* a run keep their numbers (aggregate.py) while no further rows share a line.
THEOREM RecordsStayKept == LedSpec => []RecordsAreKept
<1>1. LedInit => LedInv
  BY LedBegins
<1>2. LedInv /\ [LedNext]_ledVars => LedInv'
  BY LedStep
<1>3. LedInv => RecordsAreKept
  BY LedInvImplies
<1> QED
  BY <1>1, <1>2, <1>3, PTL DEF LedSpec
=============================================================================
