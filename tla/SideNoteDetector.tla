-------------------------- MODULE SideNoteDetector --------------------------
(***************************************************************************)
(* The b-1 detector of the user-growth wiki: a note about a project that   *)
(* the user keeps mentioning and does not touch.  user_growth_llmwiki/     *)
(* tracked_project.py (the registry), b1_detector.py and                   *)
(* progress_detector.py (the detector and its queue), opt_out_store.py and *)
(* cli.py (what the user says about notes), mention_scanner.py.            *)
(*                                                                         *)
(* Each command is a process; the commands share three JSON files and      *)
(* nothing locks them.  The registry and the queue are rewritten in place, *)
(* the opt-out state through one temporary name.  Time is in days.         *)
(***************************************************************************)
EXTENDS Integers, FiniteSets

CONSTANTS
    Procs,              \* the processes that run commands
    Projects,           \* normalized project refs
    NoteIds,            \* ids of side notes the user answers
    AnsweredTypes,      \* the note types the user has an opinion on
    WindowDays,         \* DEFAULT_B1_COOLDOWN_DAYS (14)
    ThrottleCooldown,   \* THROTTLE_COOLDOWN_DAYS (30)
    RollingDays,        \* THROTTLE_ROLLING_WINDOW_DAYS (30)
    TtlDays,            \* R6_GATE_DEFAULT_TTL_DAYS (30)
    RebutThreshold,     \* THROTTLE_REBUT_THRESHOLD (3)
    TriggerThreshold, ActionThreshold, FactThreshold,    \* 3, 5, 7
    Notebooks,          \* the sets of days whose notes mention a project at first
    LastDay,            \* bound on the days
    MaxMidnights,       \* bound on the days that end while a command runs
    MaxCommands,        \* bound on the commands given
    MaxEdits,           \* bound on the notes the user writes meanwhile
    MaxDeaths           \* bound on the commands killed

NoteTypes == {"hypothesis", "action_suggestion", "fact"}

ASSUME DetectorAssumption ==
    /\ AnsweredTypes \subseteq NoteTypes
    /\ {WindowDays, ThrottleCooldown, RollingDays, TtlDays, LastDay, MaxMidnights, MaxCommands, MaxEdits,
      MaxDeaths}         \subseteq Nat
    /\ WindowDays <= ThrottleCooldown
    /\ \A days \in Notebooks : days \subseteq 0..LastDay /\ Cardinality(days) >= TriggerThreshold
    /\ IsFiniteSet(NoteIds) /\ Cardinality(NoteIds) >= RebutThreshold
    /\ {RebutThreshold, TriggerThreshold, ActionThreshold, FactThreshold} \subseteq Nat \ {0}
    /\ TriggerThreshold <= ActionThreshold /\ ActionThreshold <= FactThreshold

-----------------------------------------------------------------------------
(* The documents.                                                          *)

\* A tracked project: its status and the end of its R6 gate.
Tracked == [status : {"candidate", "confirmed", "expired"}, expires : Nat]

\* SideNoteOptOutState; a RebutRecord is a note type, a note and a day.
DefaultOptOut == [disabled |-> {}, throttled |-> {}, rebuts |-> {}, paused |-> FALSE]

\* A queued candidate: evidence_source is one line for each day in refs, window_id
\* and created_at both name the day of the run, and candidate_id is a digest.
Unread == -1
Note(project, type, refs, created) ==
    [project |-> project, type |-> type, refs |-> refs, created |-> created, answered |-> Unread]
SameId(a, b) == a.project = b.project /\ a.created = b.created /\ a.refs = b.refs

NoProjects == [j \in {} |-> [status |-> "candidate", expires |-> 0]]
EmptyDoc(f) == CASE f = "registry" -> NoProjects [] f = "queue" -> {} [] OTHER -> DefaultOptOut
Files == {"registry", "queue", "optout", "tmp"}

\* A file is missing, is not (or no longer) a JSON document, or holds one.
Missing(f) == [state |-> "missing", doc |-> EmptyDoc(f)]
Partial(f) == [state |-> "partial", doc |-> EmptyDoc(f)]
Whole(doc) == [state |-> "whole", doc |-> doc]

VARIABLES
    disk,       \* disk[f]: the files
    mentioned,  \* mentioned[j]: the days whose notes mention project j
    touched,    \* touched[j]: the days its own files were changed
    done,       \* done[j]: the days whose notes have a done mark of it
    approved,   \* the projects the user has ever approved
    rebutted,   \* <<type, note>> the user has ever rebutted
    proc,       \* proc[p]: the locals of the command p runs
    today, midnights, commands, edits, deaths

vars == <<disk, mentioned, touched, done, approved, rebutted, proc, today, midnights, commands,
          edits, deaths>>

vault == <<mentioned, touched, done>>
said == <<approved, rebutted>>
clock == <<today, midnights>>
bounds == <<commands, edits, deaths>>

\* holds: the files p has a copy of; disturbed: somebody has changed one since.
Idle == [pc |-> "idle", op |-> "none", arg |-> "none", at |-> 0, then |-> "idle",
         file |-> "tmp", fd |-> "none", doc |-> DefaultOptOut, optout |-> DefaultOptOut,
         mentions |-> NoProjects, rows |-> {}, fresh |-> {}, holds |-> {}, disturbed |-> FALSE]

\* _select_note_type.
TypeFor(count) ==
    IF count >= FactThreshold THEN "fact"
    ELSE IF count >= ActionThreshold THEN "action_suggestion" ELSE "hypothesis"

\* The vault has notes, some dated ahead.  There is no registry yet, or one whose
\* projects the user has approved; or there has been a run today, after rebuttals
\* that slow a note type down.
Init ==
    /\ mentioned \in [Projects -> Notebooks]
    /\ touched = [j \in Projects |-> {}] /\ done = touched
    /\ proc = [p \in Procs |-> Idle]
    /\ today = 0 /\ midnights = 0
    /\ commands = 0 /\ edits = 0 /\ deaths = 0
    /\ LET registry == Whole([j \in Projects |-> [status |-> "confirmed", expires |-> TtlDays]])
           rebuts == [type : AnsweredTypes, note : NoteIds, day : {0}]
           optout == Whole([DefaultOptOut EXCEPT !.throttled = AnsweredTypes, !.rebuts = rebuts])
           note(j) == Note(j, TypeFor(Cardinality(mentioned[j])), mentioned[j], 0)
           queue == Whole({note(j) : j \in Projects})
           none == [f \in Files |-> Missing(f)]
       IN  \/ disk = none /\ approved = {} /\ rebutted = {}
           \/ disk = [none EXCEPT !["registry"] = registry] /\ approved = Projects /\ rebutted = {}
           \/ /\ disk = [none EXCEPT !["registry"] = registry, !["optout"] = optout, !["queue"] = queue]
              /\ approved = Projects /\ rebutted = AnsweredTypes \X NoteIds

-----------------------------------------------------------------------------
(* Files.                                                                  *)

\* load_opt_out_state and _read_queue take a file they cannot read for none (a queue cut
\* inside a character raises, which is left out); load_registry raises.
Load(f) == IF disk[f].state = "whole" THEN disk[f].doc ELSE EmptyDoc(f)
Readable(f) == disk[f].state # "partial"

\* p goes on; commands that hold a copy of a changed file are disturbed, and open
\* descriptors follow a renamed file.
Become(p, new, changed, renamed) ==
    LET Moved(fd) ==
          IF ~renamed THEN fd ELSE IF fd = "tmp" THEN "optout" ELSE IF fd = "optout" THEN "gone" ELSE fd
    IN  proc' = [q \in Procs |->
          IF q = p THEN new
          ELSE [proc[q] EXCEPT !.disturbed = @ \/ changed \cap proc[q].holds # {}, !.fd = Moved(@)]]
Goto(p, new) == Become(p, new, {}, FALSE)

\* p has just read f, and will write it back.
Holding(local, f) == [local EXCEPT !.holds = {f}, !.disturbed = disk[f].state = "partial"]

\* p is to write doc to f and go on at `then'.
Save(local, f, doc, then) ==
    [local EXCEPT !.pc = "open", !.doc = doc, !.then = then,
                  !.file = IF f = "optout" THEN "tmp" ELSE f,
                  !.holds = IF f = "optout" THEN @ \cup {"tmp"} ELSE @]

\* write_text opens and truncates the file ...
Open(p) ==
    /\ proc[p].pc = "open"
    /\ LET f == proc[p].file
           shared == \E q \in Procs \ {p} : proc[q].pc \in {"write", "replace"} /\ proc[q].file = f
       IN  /\ disk' = [disk EXCEPT ![f] = Partial(f)]
           /\ Become(p, [proc[p] EXCEPT !.pc = "write", !.fd = f, !.disturbed = @ \/ shared], {f}, FALSE)
    /\ UNCHANGED <<vault, said, clock, bounds>>

\* ... and writes it; over what another process has written to it meanwhile, a
\* shorter document leaves the end of the longer.
Written(f, doc) == IF disk[f].state = "whole" THEN {Whole(doc), Partial(f)} ELSE {Whole(doc)}

Saved(p) ==
    IF proc[p].then = "idle" THEN Idle
    ELSE [proc[p] EXCEPT !.pc = proc[p].then, !.fd = "none", !.holds = {}, !.doc = DefaultOptOut]

Write(p) ==
    /\ proc[p].pc = "write"
    /\ LET fd == proc[p].fd
           next == IF proc[p].file = "tmp" THEN [proc[p] EXCEPT !.pc = "replace", !.fd = "none"] ELSE Saved(p)
       IN  IF fd = "gone" THEN Goto(p, next) /\ UNCHANGED disk
           ELSE /\ \E file \in Written(fd, proc[p].doc) : disk' = [disk EXCEPT ![fd] = file]
                /\ Become(p, next, {fd}, FALSE)
    /\ UNCHANGED <<vault, said, clock, bounds>>

\* os.replace of the opt-out state; it fails when another process took the file.
Replace(p) ==
    /\ proc[p].pc = "replace"
    /\ IF disk["tmp"].state = "missing" THEN Goto(p, Idle) /\ UNCHANGED disk
       ELSE /\ disk' = [disk EXCEPT !["optout"] = disk["tmp"], !["tmp"] = Missing("tmp")]
            /\ Become(p, Saved(p), {"optout", "tmp"}, TRUE)
    /\ UNCHANGED <<vault, said, clock, bounds>>

-----------------------------------------------------------------------------
(* What the user says: the commands of cli.py on the opt-out state.        *)

Recent(optout, day) == {r \in optout.rebuts : day - RollingDays <= r.day /\ r.day <= day}

\* _rolling_rebut_count: distinct notes, not records.
RebutCount(optout, type, day) == Cardinality({r.note : r \in {x \in Recent(optout, day) : x.type = type}})

\* Faulty variant of Reject: the settings are built anew.
RejectAnew(optout, type, note, day) ==
    LET rebuts == Recent(optout, day) \cup {[type |-> type, note |-> note, day |-> day]}
    IN  [DefaultOptOut EXCEPT !.rebuts = rebuts]

\* _cmd_b1_rebut: one record per note, and a throttle at the threshold.
Reject(optout, type, note, day) ==
    LET known == \E r \in Recent(optout, day) : r.type = type /\ r.note = note
        new == [optout EXCEPT !.rebuts = Recent(optout, day) \cup
                  IF known THEN {} ELSE {[type |-> type, note |-> note, day |-> day]}]
    IN  [new EXCEPT !.throttled = IF RebutCount(new, type, day) >= RebutThreshold THEN @ \cup {type} ELSE @]

\* _cmd_b1_accept forgets the rebuttals of the type, of all days.
Accept(optout, type) ==
    [optout EXCEPT !.rebuts = {r \in @ : r.type # type}, !.throttled = @ \ {type}]

\* b1-opt-out, b1-rebut, b1-accept, b1-pause and b1-resume: load, change, save.
\* (b1-mark-inaccurate changes nothing.)
Tell(p) ==
    /\ proc[p].pc = "idle" /\ commands < MaxCommands
    /\ commands' = commands + 1
    /\ LET old == Load("optout")
           Put(op, arg, new) ==
             Goto(p, Save(Holding([Idle EXCEPT !.op = op, !.arg = arg, !.at = today], "optout"), "optout", new, "idle"))
       IN  \/ \E paused \in BOOLEAN :
                Put(IF paused THEN "pause" ELSE "resume", "none", [old EXCEPT !.paused = paused])
                  /\ UNCHANGED rebutted
           \/ \E type \in AnsweredTypes :
                \/ Put("disable", type, [old EXCEPT !.disabled = @ \cup {type}]) /\ UNCHANGED rebutted
                \/ Put("accept", type, Accept(old, type)) /\ UNCHANGED rebutted
                \/ \E note \in NoteIds :
                     /\ Put("rebut", type, Reject(old, type, note, today))
                     /\ rebutted' = rebutted \cup {<<type, note>>}
    /\ UNCHANGED <<disk, vault, approved, clock, edits, deaths>>

-----------------------------------------------------------------------------
(* The registry.                                                           *)

\* approve and unconfirm (_set_status): the gate keeps its end, and a project that
\* is not in the registry, or a registry that cannot be read, is an error.
SetStatus(p) ==
    /\ proc[p].pc = "idle" /\ commands < MaxCommands
    /\ commands' = commands + 1
    /\ \E j \in DOMAIN Load("registry"), status \in {"candidate", "confirmed"} :
        /\ Goto(p, Save(Holding([Idle EXCEPT !.op = status, !.arg = j, !.at = today], "registry"), "registry",
                        [Load("registry") EXCEPT ![j].status = status], "idle"))
        /\ approved' = IF status = "confirmed" THEN approved \cup {j} ELSE approved
    /\ UNCHANGED <<disk, vault, rebutted, clock, edits, deaths>>

\* evaluate_r6_gate for a tracked project (nobody records a reuse of one): only a
\* candidate expires.
Expired(project, day) == project.status = "candidate" /\ day > project.expires

\* b1-detect sweeps the registry in main and again in the run; b1-gate-cleanup once.
Start(p) ==
    /\ proc[p].pc = "idle" /\ commands < MaxCommands
    /\ commands' = commands + 1
    /\ \E op \in {"detect", "cleanup"} : Goto(p, [Idle EXCEPT !.op = op, !.pc = "sweep", !.at = today])
    /\ UNCHANGED <<disk, vault, said, clock, edits, deaths>>

AfterSweep(p) ==
    IF proc[p].op = "cleanup" THEN "idle" ELSE IF proc[p].pc = "sweep" THEN "resweep" ELSE "settings"

\* cleanup_expired_candidates.
Sweep(p) ==
    /\ proc[p].pc \in {"sweep", "resweep"}
    /\ LET old == Load("registry")
           over == {j \in DOMAIN old : Expired(old[j], proc[p].at)}
           new == [j \in DOMAIN old |-> IF j \in over THEN [old[j] EXCEPT !.status = "expired"] ELSE old[j]]
           local == [proc[p] EXCEPT !.pc = AfterSweep(p)]
       IN  Goto(p, IF ~Readable("registry") THEN Idle
                   ELSE IF over # {} THEN Save(Holding(proc[p], "registry"), "registry", new, AfterSweep(p))
                   ELSE IF local.pc = "idle" THEN Idle ELSE local)
    /\ UNCHANGED <<disk, vault, said, clock, bounds>>

-----------------------------------------------------------------------------
(* A run of the detector.                                                  *)

\* _reconcile_throttles: throttles that the last days no longer earn are cleared.
Reconciled(optout, day) ==
    [optout EXCEPT !.throttled = {t \in @ : RebutCount(optout, t, day) >= RebutThreshold}]

Settings(p) ==
    /\ proc[p].pc = "settings"
    /\ LET old == Load("optout")
           new == Reconciled(old, proc[p].at)
           then == IF new.paused THEN "idle" ELSE "projects"
           local == [proc[p] EXCEPT !.optout = new]
       IN  Goto(p, IF new # old THEN Save(Holding(local, "optout"), "optout", new, then)
                   ELSE IF new.paused THEN Idle ELSE [local EXCEPT !.pc = "projects"])
    /\ UNCHANGED <<disk, vault, said, clock, bounds>>

\* load_registry: an empty one is filled from the vault first.
LoadProjects(p) ==
    /\ proc[p].pc = "projects"
    /\ Goto(p, IF ~Readable("registry") THEN Idle
               ELSE [proc[p] EXCEPT !.pc = IF DOMAIN Load("registry") = {} THEN "discover" ELSE "confirmed"])
    /\ UNCHANGED <<disk, vault, said, clock, bounds>>

NewProject(day) == [status |-> "candidate", expires |-> day + TtlDays]

\* auto_discover: projects that at least three lines link to become candidates; a
\* day may have several such lines.  What the registry has by now is kept.
Discover(p) ==
    /\ proc[p].pc = "discover"
    /\ \E found \in SUBSET {j \in Projects : mentioned[j] # {}} :
        /\ {j \in Projects : Cardinality(mentioned[j]) >= 3} \subseteq found
        /\ LET old == Load("registry")
               new == [j \in DOMAIN old \cup found |->
                         IF j \in DOMAIN old THEN old[j] ELSE NewProject(today)]
           IN  Goto(p, IF ~Readable("registry") THEN Idle
                       ELSE IF found # {} THEN Save(Holding(proc[p], "registry"), "registry", new, "confirmed")
                       ELSE [proc[p] EXCEPT !.pc = "confirmed"])
    /\ UNCHANGED <<disk, vault, said, clock, bounds>>

\* scan_mentions after same-day de-duplication: the days from the start of the
\* window on, those still to come included.
Mentions(j, at) == {d \in mentioned[j] : d >= at - WindowDays}

\* The confirmed projects, where they are mentioned, and the rows of the queue: three
\* readings, here one.
Scan(p) ==
    /\ proc[p].pc = "confirmed"
    /\ LET projects == Load("registry")
           confirmed == {j \in DOMAIN projects : projects[j].status = "confirmed"}
       IN  Goto(p, IF ~Readable("registry") \/ confirmed = {} THEN Idle
                   ELSE [Holding(proc[p], "queue") EXCEPT
                           !.pc = "judge", !.rows = Load("queue"),
                           !.mentions = [j \in confirmed |-> Mentions(j, proc[p].at)]])
    /\ UNCHANGED <<disk, vault, said, clock, bounds>>

\* mtime_unchanged, no_new_done and no_new_response; the latter reads the queue now. The
\* window for file times begins at the time of day; here days are whole.
MtimeUnchanged(j, start) == \A d \in touched[j] : d < start
NoNewDone(j, start) == \A d \in done[j] : d < start
NoNewResponse(j, start) ==
    \A row \in Load("queue") : row.project = j /\ row.answered # Unread => row.answered < start

\* Faulty variant of Stagnant: done marks do not count.
StagnantByFiles(j, start) == MtimeUnchanged(j, start) /\ NoNewResponse(j, start)

Stagnant(j, start) == MtimeUnchanged(j, start) /\ NoNewDone(j, start) /\ NoNewResponse(j, start)

\* Faulty variant of HasCooldown: only a note of the same run counts.
HasCooldownToday(rows, j, type, from, at) ==
    \E row \in rows : row.project = j /\ row.type = type /\ row.created = at

\* _has_cooldown: a row of the same project and note type, of this window or created
\* since `from'.
HasCooldown(rows, j, type, from, at) ==
    \E row \in rows :
        /\ row.project = j /\ row.type = type
        /\ row.created = at \/ (from <= row.created /\ row.created <= at)

CooldownOf(optout, type) == IF type \in optout.throttled THEN ThrottleCooldown ELSE WindowDays

\* The loop over the confirmed projects.
NewNotes(p) ==
    LET local == proc[p]
        type == [j \in DOMAIN local.mentions |-> TypeFor(Cardinality(local.mentions[j]))]
        due == {j \in DOMAIN local.mentions :
                  /\ type[j] \notin local.optout.disabled
                  /\ Cardinality(local.mentions[j]) >= TriggerThreshold
                  /\ Stagnant(j, local.at - WindowDays)
                  /\ ~HasCooldown(local.rows, j, type[j], local.at - CooldownOf(local.optout, type[j]), local.at)}
    IN  {Note(j, type[j], local.mentions[j], local.at) : j \in due}

\* The progress checks look at the vault and the queue as they are now.
Judge(p) ==
    /\ proc[p].pc = "judge"
    /\ Goto(p, IF NewNotes(p) = {} THEN Idle ELSE [proc[p] EXCEPT !.pc = "append", !.fresh = NewNotes(p)])
    /\ UNCHANGED <<disk, vault, said, clock, bounds>>

\* _append_candidates reads the queue again; a row with the same id is replaced.
AppendNotes(p) ==
    /\ proc[p].pc = "append"
    /\ LET new == {r \in Load("queue") : \A n \in proc[p].fresh : ~SameId(r, n)} \cup proc[p].fresh
           local == [proc[p] EXCEPT !.disturbed = @ \/ ~Readable("queue")]
       IN  Goto(p, Save(local, "queue", new, "idle"))
    /\ UNCHANGED <<disk, vault, said, clock, bounds>>

-----------------------------------------------------------------------------
(* The user's notes, time and faults.                                      *)

\* The user writes about a project, changes its files, or marks something done.
Edit ==
    /\ edits < MaxEdits /\ edits' = edits + 1
    /\ \E j \in Projects :
        \/ mentioned' = [mentioned EXCEPT ![j] = @ \cup {today}] /\ UNCHANGED <<touched, done>>
        \/ touched' = [touched EXCEPT ![j] = @ \cup {today}] /\ UNCHANGED <<mentioned, done>>
        \/ done' = [done EXCEPT ![j] = @ \cup {today}] /\ UNCHANGED <<mentioned, touched>>
    /\ UNCHANGED <<disk, said, proc, clock, commands, deaths>>

\* A response is put into the queue; nothing under src/ does.
Answer ==
    /\ edits < MaxEdits /\ edits' = edits + 1
    /\ \E row \in Load("queue") :
        disk' = [disk EXCEPT !["queue"].doc = (@ \ {row}) \cup {[row EXCEPT !.answered = today]}]
    /\ proc' = [p \in Procs |-> [proc[p] EXCEPT !.disturbed = @ \/ "queue" \in proc[p].holds]]
    /\ UNCHANGED <<vault, said, clock, commands, deaths>>

\* A command is killed; what it has written stays.
Die(p) ==
    /\ proc[p].pc # "idle" /\ deaths < MaxDeaths
    /\ deaths' = deaths + 1
    /\ Goto(p, Idle)
    /\ UNCHANGED <<disk, vault, said, clock, commands, edits>>

Tick ==
    /\ today < LastDay
    /\ today' = today + 1
    /\ midnights' = IF \A p \in Procs : proc[p].pc = "idle" THEN midnights ELSE midnights + 1
    /\ midnights' <= MaxMidnights
    /\ UNCHANGED <<disk, vault, said, proc, bounds>>

Step(p) ==
    \/ Tell(p) \/ SetStatus(p) \/ Start(p)
    \/ Sweep(p) \/ Settings(p) \/ LoadProjects(p) \/ Discover(p) \/ Scan(p) \/ Judge(p) \/ AppendNotes(p)
    \/ Open(p) \/ Write(p) \/ Replace(p)
    \/ Die(p)

Next == Tick \/ Edit \/ Answer \/ \E p \in Procs : Step(p)

Spec == Init /\ [][Next]_vars

-----------------------------------------------------------------------------
(* Properties.                                                             *)

\* A note in the queue is about a project the user approved, quotes days on which
\* the project really was mentioned, none before the window, enough of them for its
\* type, and before the day of the run nothing in the window shows progress: however
\* runs, other commands, deaths and the user's own writing are interleaved
\* (run_b1_detector_with_report; "approval is reserved for the explicit CLI/user
\* path").
NotesAreWarranted ==
    \A note \in Load("queue") :
        LET start == note.created - WindowDays IN
        /\ note.project \in approved
        /\ note.refs \subseteq mentioned[note.project] /\ \A d \in note.refs : d >= start
        /\ Cardinality(note.refs) >= TriggerThreshold
        /\ Cardinality(note.refs) >= ActionThreshold <=> note.type \in {"action_suggestion", "fact"}
        /\ Cardinality(note.refs) >= FactThreshold <=> note.type = "fact"
        /\ \A d \in touched[note.project] \cup done[note.project] : d < start \/ d >= note.created

\* The tool never decides for the user: it confirms no project the user has not
\* approved, remembers no rebuttal that was not made, and slows a note type down only
\* after rebuttals of enough different notes (tracked_project.py, _cmd_b1_rebut).
OnlyTheUserDecides ==
    /\ \A j \in DOMAIN Load("registry") : Load("registry")[j].status = "confirmed" => j \in approved
    /\ \A r \in Load("optout").rebuts : <<r.type, r.note>> \in rebutted
    /\ \A t \in Load("optout").throttled :
        Cardinality({n \in NoteIds : <<t, n>> \in rebutted}) >= RebutThreshold

\* Notes are only written about what the user approved and did, and no file says the user
\* decided what the user did not (b1_detector.py, tracked_project.py, opt_out_store.py).
DetectorHolds == NotesAreWarranted /\ OnlyTheUserDecides

\* What a save may take out of the document it replaces.
KeepsProjects(old, new, local) ==
    \A j \in DOMAIN old :
        /\ j \in DOMAIN new
        /\ old[j] # new[j] => \/ local.op \in {"candidate", "confirmed"} /\ local.arg = j
                              \/ local.op \in {"detect", "cleanup"} /\ old[j].status = "candidate"
KeepsNotes(old, new) == \A r \in old : \E n \in new : SameId(r, n)
KeepsSettings(old, new, local) ==
    /\ old.disabled \subseteq new.disabled
    /\ old.paused # new.paused => local.op \in {"pause", "resume"}
    /\ \A r \in Recent(old, local.at) : r \in new.rebuts \/ (local.op = "accept" /\ r.type = local.arg)
    /\ \A t \in old.throttled \ new.throttled :
        \/ local.op = "accept" /\ t = local.arg
        \/ local.op = "detect" /\ RebutCount(old, t, local.at) < RebutThreshold

\* A command that nobody disturbs between its read and its write takes nothing from
\* the user: decisions about other projects, disabled types, the pause, recent
\* rebuttals, earned throttles and queued notes all survive, and the file it leaves is
\* whole, whatever a killed command left behind (save_registry, save_opt_out_state,
\* _append_candidates).
SavesKeepDecisions ==
    [][\A p \in Procs : proc[p].pc # proc'[p].pc /\ ~proc[p].disturbed =>
        /\ proc[p].pc = "open" /\ proc[p].file = "registry" =>
             KeepsProjects(Load("registry"), proc[p].doc, proc[p])
        /\ proc[p].pc = "open" /\ proc[p].file = "queue" => KeepsNotes(Load("queue"), proc[p].doc)
        /\ proc[p].pc = "write" /\ disk' # disk => disk'[proc[p].file] = Whole(proc[p].doc)
        /\ proc[p].pc = "replace" /\ disk' # disk =>
             /\ disk'["optout"].state = "whole"
             /\ KeepsSettings(Load("optout"), disk'["optout"].doc, proc[p])]_vars

\* "One note per window": a run that nobody disturbs queues no second note of one
\* type on one project within the cooldown, the longer one while the type is
\* throttled, though it reads the queue twice (_has_cooldown, _append_candidates).
CooldownHolds ==
    [][\A p \in Procs : proc[p].pc = "open" /\ proc[p].file = "queue" /\ proc[p].pc # proc'[p].pc /\ ~proc[p].disturbed =>
        \A note \in proc[p].fresh, row \in proc[p].doc :
            ~SameId(note, row) /\ row.project = note.project /\ row.type = note.type =>
                \/ row.created > note.created
                \/ note.created - row.created > CooldownOf(proc[p].optout, note.type)]_vars
=============================================================================
