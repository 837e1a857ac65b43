----------------------------- MODULE HubWatchdog -----------------------------
(***************************************************************************)
(* scripts/hub_watchdog.py: a probe that runs every few minutes and        *)
(* reports of failed calls keep one GitHub issue per unusable capability   *)
(* of the hub, close it or answer its closing when the capability works,   *)
(* and remember the issue in a state file.                                 *)
(*                                                                         *)
(* A run loads the state file, works on its copy and puts it back at the   *)
(* end; each call of gh is a step, and may fail, with its effect or        *)
(* without.  A call that takes too long raises out of the run, as a death  *)
(* does.  An unreadable state file is an empty one.  Writing the temporary *)
(* file is one step; it has one name for all runs.  Comments and what is   *)
(* printed are left out.                                                   *)
(*                                                                         *)
(* An issue is found by its text: the one that holds "watchdog-key: " and  *)
(* the key holds it for every key that the one it was filed for begins     *)
(* with.  A text that holds a marker elsewhere, because a reported reason  *)
(* quotes one, is left out.                                                *)
(***************************************************************************)
EXTENDS Integers, Sequences

CONSTANTS
    Targets,        \* the keys of the health calls, in the order of PROBE_TARGETS
    ReportKeys,     \* keys that are reported
    Marked,         \* Marked[k]: the keys whose marker the text of an issue of k holds
    Watchers,       \* runs that may overlap: "cron" probes, the others report
    MaxReports,     \* bound on the reports
    MaxChanges,     \* bound on the changes of a capability
    MaxClosings,    \* bound on the issues closed by people
    MaxWatchFaults  \* bound on failed calls of gh and of the hub, and deaths

ASSUME WatchAssumption ==
    /\ {MaxReports, MaxChanges, MaxClosings, MaxWatchFaults} \subseteq Nat
    /\ "cron" \in Watchers /\ Targets \in Seq({Targets[k] : k \in DOMAIN Targets})

Probed == <<"transport">> \o Targets
ProbedKeys == {Probed[k] : k \in DOMAIN Probed}
Keys == ProbedKeys \cup ReportKeys

\* Of the keys that one key begins with at most one is probed: none of those begins another.
ASSUME MarkedAssumption ==
    /\ Marked \in [Keys -> SUBSET Keys] /\ \A k \in Keys : k \in Marked[k]
    /\ \A k \in Keys : \A i, j \in Marked[k] \cap ProbedKeys : i = j

VARIABLES
    works,      \* works[k]: capability k works
    issues,     \* the issues of the label: sequence of [key, open]
    stateFile,  \* its "keys": a function from some keys to the issue, 0 for None
    stateTmp,   \* the temporary file: [there, keys]
    watcher,    \* watcher[w]: the locals of a run
    watchPast   \* history: reports, changes, closings (and those the last probe could know), faults, overlapping runs

watchVars == <<works, issues, stateFile, stateTmp, watcher, watchPast>>

Nothing == [k \in {} |-> 0]
AtRest == [at |-> "idle", probing |-> FALSE, keys |-> Nothing, left |-> <<>>, ok |-> {}, asked |-> {}]

WatchInit ==
    /\ works \in [ProbedKeys -> BOOLEAN] /\ issues = <<>>
    /\ stateFile = Nothing /\ stateTmp = [there |-> FALSE, keys |-> Nothing]
    /\ watcher = [w \in Watchers |-> AtRest]
    /\ watchPast = [reports |-> 0, changes |-> 0, closings |-> 0, known |-> 0, faults |-> 0, overlap |-> FALSE]

With(f, k, num) == [j \in DOMAIN f \cup {k} |-> IF j = k THEN num ELSE f[j]]
Lacking(f, k) == [j \in DOMAIN f \ {k} |-> f[j]]

Mishap == watchPast.faults < MaxWatchFaults /\ watchPast' = [watchPast EXCEPT !.faults = @ + 1]

Current(w) == Head(watcher[w].left)
Healthy(w) == Current(w) \in watcher[w].ok
Known(w) == IF Current(w) \in DOMAIN watcher[w].keys THEN watcher[w].keys[Current(w)] ELSE 0
Handling(w) == watcher[w].at = "handle" /\ watcher[w].left # <<>>
Others(w) == \E v \in Watchers \ {w} : watcher[v].at # "idle"
Turns(w, at) == watcher' = [watcher EXCEPT ![w].at = at]

\* On to the next key, with the record of this one.
OnWith(w, keys) ==
    watcher' = [watcher EXCEPT ![w].at = "handle", ![w].left = Tail(@), ![w].keys = keys]
Forget(w) == OnWith(w, Lacking(watcher[w].keys, Current(w)))
Remember(w, num) == OnWith(w, With(watcher[w].keys, Current(w), num))

-----------------------------------------------------------------------------
(* A run: cmd_probe and cmd_report.                                        *)

LoadState(w) ==
    /\ watcher[w].at = "idle"
    /\ \/ /\ w = "cron"
          /\ watcher' = [watcher EXCEPT ![w] = [AtRest EXCEPT !.at = "probe", !.probing = TRUE, !.keys = stateFile]]
          /\ watchPast' = [watchPast EXCEPT !.overlap = @ \/ Others(w), !.known = watchPast.closings]
       \/ /\ w # "cron" /\ watchPast.reports < MaxReports
          /\ \E k \in ReportKeys :
                watcher' = [watcher EXCEPT ![w] = [AtRest EXCEPT !.at = "handle", !.keys = stateFile, !.left = <<k>>]]
          /\ watchPast' = [watchPast EXCEPT !.reports = @ + 1, !.overlap = @ \/ Others(w)]
    /\ UNCHANGED <<works, issues, stateFile, stateTmp>>

\* _probe: without the transport nothing else is asked; a call that gets no answer makes
\* its capability one that does not work.
Probe(w) ==
    /\ watcher[w].at = "probe"
    /\ \/ /\ IF works["transport"] THEN Mishap ELSE UNCHANGED watchPast
          /\ watcher' = [watcher EXCEPT ![w].at = "handle", ![w].left = <<"transport">>]
       \/ /\ works["transport"]
          /\ LET working == {k \in ProbedKeys : works[k]} IN
             \E ok \in SUBSET working :
                /\ IF ok = working THEN UNCHANGED watchPast ELSE Mishap
                /\ watcher' = [watcher EXCEPT ![w].at = "handle", ![w].left = Probed, ![w].ok = ok,
                                                ![w].asked = ProbedKeys]
    /\ UNCHANGED <<works, issues, stateFile, stateTmp>>

\* A key that works and has no issue is dropped.
Drop(w) ==
    /\ Handling(w) /\ Healthy(w) /\ Known(w) = 0
    /\ Forget(w)
    /\ UNCHANGED <<works, issues, stateFile, stateTmp, watchPast>>

\* Faulty variant of View: the closing of an issue is taken at its word.
ViewTrusting(w) ==
    /\ Handling(w) /\ watcher[w].probing /\ Known(w) # 0
    /\ CASE ~issues[Known(w)].open /\ Healthy(w) -> Forget(w)
         [] issues[Known(w)].open /\ Healthy(w) -> Turns(w, "close")
         [] OTHER -> Remember(w, Known(w))
    /\ UNCHANGED <<works, issues, stateFile, stateTmp, watchPast>>

\* _resolve_if_fixed asks for the state of the issue; what cannot be told is not closed.
View(w) ==
    /\ Handling(w) /\ watcher[w].probing /\ Known(w) # 0
    /\ \E told \in BOOLEAN :
        /\ IF told THEN UNCHANGED watchPast ELSE Mishap
        /\ LET closed == told /\ ~issues[Known(w)].open
           IN  CASE closed /\ Healthy(w) -> Forget(w)
                 [] closed /\ ~Healthy(w) -> Turns(w, "reopen")
                 [] ~closed /\ Healthy(w) -> Turns(w, "close")
                 [] OTHER -> Remember(w, Known(w))
    /\ UNCHANGED <<works, issues, stateFile, stateTmp>>

\* Nobody looks at what gh says of these two.
Reopen(w) ==
    /\ watcher[w].at = "reopen"
    /\ \/ issues' = [issues EXCEPT ![Known(w)].open = TRUE] /\ UNCHANGED watchPast
       \/ Mishap /\ UNCHANGED issues
    /\ Remember(w, Known(w))
    /\ UNCHANGED <<works, stateFile, stateTmp>>

CloseIssue(w) ==
    /\ watcher[w].at = "close"
    /\ \/ issues' = [issues EXCEPT ![Known(w)].open = FALSE] /\ UNCHANGED watchPast
       \/ Mishap /\ UNCHANGED issues
    /\ Forget(w)
    /\ UNCHANGED <<works, stateFile, stateTmp>>

\* A report of a key whose issue is known: a comment, whether it is still open or not.
Still(w) ==
    /\ Handling(w) /\ ~watcher[w].probing /\ Known(w) # 0
    /\ Remember(w, Known(w))
    /\ UNCHANGED <<works, issues, stateFile, stateTmp, watchPast>>

\* _find_open_issue: any open issue whose text holds the marker of the key will do;
\* nothing found and a failed search are the same answer.
FindIssue(w) ==
    /\ Handling(w) /\ ~Healthy(w) /\ Known(w) = 0
    /\ LET found == {i \in DOMAIN issues : issues[i].open /\ Current(w) \in Marked[issues[i].key]}
       IN  \/ found # {} /\ (\E i \in found : Remember(w, i)) /\ UNCHANGED watchPast
           \/ found = {} /\ Turns(w, "create") /\ UNCHANGED watchPast
           \/ found # {} /\ Turns(w, "create") /\ Mishap
    /\ UNCHANGED <<works, issues, stateFile, stateTmp>>

\* _open_issue: the number is read from what gh printed.
CreateIssue(w) ==
    /\ watcher[w].at = "create"
    /\ LET more == Append(issues, [key |-> Current(w), open |-> TRUE])
       IN  \/ issues' = more /\ Remember(w, Len(more)) /\ UNCHANGED watchPast
           \/ issues' \in {issues, more} /\ Remember(w, 0) /\ Mishap
    /\ UNCHANGED <<works, stateFile, stateTmp>>

WriteState(w) ==
    /\ watcher[w].at = "handle" /\ watcher[w].left = <<>>
    /\ stateTmp' = [there |-> TRUE, keys |-> watcher[w].keys]
    /\ Turns(w, "replace")
    /\ UNCHANGED <<works, issues, stateFile, watchPast>>

\* os.replace raises when another run has already moved the file.
ReplaceState(w) ==
    /\ watcher[w].at = "replace"
    /\ stateFile' = IF stateTmp.there THEN stateTmp.keys ELSE stateFile
    /\ stateTmp' = [there |-> FALSE, keys |-> Nothing]
    /\ watcher' = [watcher EXCEPT ![w] = AtRest]
    /\ UNCHANGED <<works, issues, watchPast>>

Dies(w) ==
    /\ watcher[w].at # "idle" /\ Mishap
    /\ watcher' = [watcher EXCEPT ![w] = AtRest]
    /\ UNCHANGED <<works, issues, stateFile, stateTmp>>

-----------------------------------------------------------------------------
(* The world.                                                              *)

Changes(k) ==
    /\ watchPast.changes < MaxChanges /\ watchPast' = [watchPast EXCEPT !.changes = @ + 1]
    /\ works' = [works EXCEPT ![k] = ~@]
    /\ UNCHANGED <<issues, stateFile, stateTmp, watcher>>

SomebodyCloses(i) ==
    /\ issues[i].open /\ watchPast.closings < MaxClosings
    /\ watchPast' = [watchPast EXCEPT !.closings = @ + 1]
    /\ issues' = [issues EXCEPT ![i].open = FALSE]
    /\ UNCHANGED <<works, stateFile, stateTmp, watcher>>

Goes(w) ==
    \/ Probe(w) \/ Drop(w) \/ View(w) \/ Reopen(w) \/ CloseIssue(w) \/ Still(w) \/ FindIssue(w) \/ CreateIssue(w)
    \/ WriteState(w) \/ ReplaceState(w)

WatchNext ==
    \/ \E w \in Watchers : LoadState(w) \/ Goes(w) \/ Dies(w)
    \/ \E k \in ProbedKeys : Changes(k)
    \/ \E i \in DOMAIN issues : SomebodyCloses(i)

WatchSpec == WatchInit /\ [][WatchNext]_watchVars

-----------------------------------------------------------------------------
(* Properties.                                                             *)

OpenOf(k) == {i \in DOMAIN issues : issues[i].open /\ issues[i].key = k}
NoTrouble == watchPast.faults = 0 /\ ~watchPast.overlap

\* Whatever happens, the issue that the state file has for a capability is one whose text
\* holds its marker.  Lacking a failed call, a death or two runs at once: no capability has
\* two open issues of its own; between two runs every open issue is one that the state file
\* has for its capability; and a probe that reached the hub leaves no issue closed whose
\* capability is still recorded, unless somebody closed it in the meantime: a closing is
\* answered by the next probe.
IssuesAreAccounted ==
    /\ \A k \in DOMAIN stateFile : stateFile[k] # 0 => k \in Marked[issues[stateFile[k]].key]
    /\ NoTrouble =>
        /\ \A k \in Keys : \A i, j \in OpenOf(k) : i = j
        /\ (\A w \in Watchers : watcher[w].at = "idle") =>
               \A k \in Keys : \A i \in OpenOf(k) : k \in DOMAIN stateFile /\ stateFile[k] = i
        /\ watcher["cron"].at = "replace" /\ watcher["cron"].asked = ProbedKeys
                /\ watchPast.closings = watchPast.known =>
               \A k \in ProbedKeys \cap DOMAIN watcher["cron"].keys : issues[watcher["cron"].keys[k]].open

\* What the head of the script says: on a failed capability it files an issue of it, once.
\* The search finds the issue of a longer key, and the capability never gets its own
\* (_find_open_issue).
CapabilityHasItsIssue ==
    NoTrouble => \A k \in DOMAIN stateFile : stateFile[k] # 0 => issues[stateFile[k]].key = k
=============================================================================
