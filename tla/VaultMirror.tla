---------------------------- MODULE VaultMirror ----------------------------
(***************************************************************************)
(* The structural mirror of a vault: user_growth_llmwiki/scanner.py (what  *)
(* a vault looks like, which folders are whose, what is amiss),            *)
(* candidates.py (what is proposed about it), reuse.py (what is compiled   *)
(* from its notes) and models.py (what each record may hold).  All of it   *)
(* proposes; nothing writes the vault.                                     *)
(*                                                                         *)
(* Names and paths are abstracted to the folders' and notes' attributes    *)
(* the code derives from them; an identifier is the tuple it digests.      *)
(***************************************************************************)
EXTENDS Integers, FiniteSets

CONSTANTS
    MirrorNotes,     \* names of Markdown files
    MirrorFolders,   \* folders of the vault, the root among them
    RootFolder,
    Under,           \* Under[f]: the folders whose path begins with that of f; the root's
                     \* own path is ".", with which no path begins but a hidden one's
    UserFolders,     \* those below daily/, journal/ or projects/
    ProjectFolders,  \* those below projects/
    AiMarked,        \* named like 20_ai_observations, 30_reports, 50_digestion
    AiNamed,         \* with a part called ai, ai_notes, ai-notes, ai_observations
    Twins,           \* sets of two or more folders with one normalized name
    NoteKinds,       \* the attributes a note may have
    MirrorConfigs,   \* explicit zones: [raw, ai : SUBSET MirrorFolders]
    MaxRefs          \* max_length of the evidence and reference lists (100)

\* A note: hm_type ("ai" for ai_observation, report and digestion_item), hm_owner,
\* whether its path alone makes it a report or the like, frontmatter, links.
NoteShape == [folder : MirrorFolders, index : BOOLEAN, front : BOOLEAN,
              type : {"none", "ai", "user_raw"}, owner : {"none", "user", "noeticbraid"},
              named : BOOLEAN, links : SUBSET (MirrorNotes \cup {"outside", "parent"})]

ASSUME MirrorAssumption ==
    /\ RootFolder \in MirrorFolders /\ NoteKinds \subseteq NoteShape
    /\ \A k \in NoteKinds : k.type # "none" \/ k.owner # "none" => k.front
    /\ Under \in [MirrorFolders -> SUBSET MirrorFolders] /\ \A f \in MirrorFolders : f \in Under[f]
    /\ \A s \in {UserFolders, ProjectFolders, AiMarked, AiNamed} : s \subseteq MirrorFolders \ {RootFolder}
    /\ MirrorConfigs \subseteq [raw : SUBSET MirrorFolders, ai : SUBSET MirrorFolders]
    /\ MaxRefs \in Nat \ {0}

VARIABLES
    notes,    \* the vault: note -> attributes
    config,   \* VaultScanConfig: explicit zones
    profile,  \* VaultProfile of the last scan
    proposed, \* structure suggestions, side notes, digestions, report
    plan      \* ContentReusePlan

mirrorVars == <<notes, config, profile, proposed, plan>>

NoProfile == [known |-> FALSE]
NoPlan == [sources |-> {}, compiled |-> {}, output |-> {}, logs |-> {}]
Nothing == [suggestions |-> {}, side |-> {}, digestions |-> {}, report |-> {}, failed |-> FALSE]

MirrorInit ==
    /\ notes \in UNION {[there -> NoteKinds] : there \in SUBSET MirrorNotes}
    /\ config \in MirrorConfigs
    /\ profile = NoProfile /\ proposed = Nothing /\ plan = NoPlan

MirrorIdle ==
    /\ notes = [n \in {} |-> CHOOSE k \in NoteKinds : TRUE] /\ config = [raw |-> {}, ai |-> {}]
    /\ profile = NoProfile /\ proposed = Nothing /\ plan = NoPlan

-----------------------------------------------------------------------------
(* What a note is.                                                         *)

\* infer_note_type, as far as owner and zone depend on it.
InferredType(n) == IF n.type = "ai" \/ (n.type = "none" /\ n.named) THEN "ai" ELSE "unknown"

\* infer_owner.
InferredOwner(n) ==
    IF n.owner # "none" THEN n.owner
    ELSE IF InferredType(n) = "ai" THEN "noeticbraid"
    ELSE IF n.type = "user_raw" \/ n.folder \in UserFolders THEN "user"
    ELSE "unknown"

\* _path_in_zones: the root is in no zone.
InZones(folder, zones) == folder # RootFolder /\ \E z \in zones : folder \in Under[z]

\* Faulty variant of InferredZone: the hints of the note come before the settings.
InferredZoneByHint(n) ==
    IF InferredOwner(n) = "noeticbraid" THEN "ai_allowed"
    ELSE IF InferredOwner(n) = "user" \/ InZones(n.folder, config.raw) THEN "raw_user"
    ELSE IF InZones(n.folder, config.ai) THEN "ai_allowed"
    ELSE "unknown"

\* infer_zone. UserFolders are those with a marked part in their path, in any spelling.
InferredZone(n) ==
    IF InZones(n.folder, config.raw) THEN "raw_user"
    ELSE IF InZones(n.folder, config.ai) THEN "ai_allowed"
    ELSE IF InferredOwner(n) = "noeticbraid" \/ n.type = "ai" THEN "ai_allowed"
    ELSE IF InferredOwner(n) = "user" \/ n.type = "user_raw" \/ n.folder \in UserFolders THEN "raw_user"
    ELSE IF n.folder \in AiMarked THEN "ai_allowed"
    ELSE "unknown"

Zoned(hint) == {notes[n].folder : n \in {x \in DOMAIN notes : InferredZone(notes[x]) = hint}}

-----------------------------------------------------------------------------
(* What is amiss.                                                          *)

In(folder) == {n \in DOMAIN notes : notes[n].folder = folder}
HasIndex(folder) == \E n \in In(folder) : notes[n].index

\* compute_incoming_counts: links other than from the note itself. Links are what
\* the scanner resolves them to, one note each.
Incoming(n) == {m \in DOMAIN notes \ {n} : n \in notes[m].links}
Unlinked(n) == notes[n].links = {} /\ Incoming(n) = {}
Weak(folder) == {n \in In(folder) : Unlinked(n)}
Bare(folder) == {n \in In(folder) : ~notes[n].front}

Risk(code, folder, evidence) == [code |-> code, folder |-> folder, evidence |-> evidence]

\* build_missing_index_risks.
MissingIndexes == {f \in MirrorFolders \ {RootFolder} : In(f) # {} /\ ~HasIndex(f)}
IndexCode(f) == IF f \in ProjectFolders THEN "missing_project_index" ELSE "missing_index"

\* build_orphan_cluster_risks, build_frontmatter_template_risks,
\* build_ambiguous_ai_zone_risks and build_duplicate_topic_risks.
Orphans == {f \in MirrorFolders : Cardinality(Weak(f)) >= 2}
Untemplated == {f \in MirrorFolders : Cardinality(Bare(f)) >= 2}
AmbiguousAi(ai) == {f \in AiNamed : ~InZones(f, ai)}

Risks(ai) ==
    {Risk(IndexCode(f), f, {f}) : f \in MissingIndexes}
    \cup {Risk("orphan_cluster", f, Weak(f)) : f \in Orphans}
    \cup {Risk("missing_frontmatter_template", f, Bare(f)) : f \in Untemplated}
    \cup {Risk("ambiguous_ai_zone", f, {f}) : f \in AmbiguousAi(ai)}
    \cup {Risk("duplicate_topic_name", CHOOSE f \in t : TRUE, t) : t \in Twins}

\* One record that breaks the limits of models.py fails the whole scan: a link with a
\* parent segment, or evidence that is too long.
ScanFails(risks) ==
    \/ \E n \in DOMAIN notes : "parent" \in notes[n].links
    \/ \E r \in risks : Cardinality(r.evidence) > MaxRefs

\* VaultScanner.scan, which reads file by file, in one step; the profile keeps the notes
\* it has seen.
ScanVault ==
    LET ai == config.ai \cup Zoned("ai_allowed")
        risks == Risks(ai)
    IN  /\ ~profile.known /\ plan = NoPlan
        /\ profile' = IF ScanFails(risks) THEN [known |-> TRUE, failed |-> TRUE]
                      ELSE [known |-> TRUE, failed |-> FALSE, notes |-> notes, config |-> config, ai |-> ai,
                            raw |-> config.raw \cup Zoned("raw_user"),
                            missing |-> MissingIndexes, orphans |-> {<<f, Weak(f)>> : f \in Orphans},
                            risks |-> risks]
        /\ UNCHANGED <<notes, config, proposed, plan>>

Profiled == profile.known /\ ~profile.failed

-----------------------------------------------------------------------------
(* What is proposed.                                                       *)

Actionable == {"missing_index", "missing_project_index", "orphan_cluster",
               "missing_frontmatter_template", "ambiguous_ai_zone"}

\* _action_for_risk and _target_path_for_risk.
ActionFor(code) ==
    IF code \in {"missing_index", "missing_project_index", "orphan_cluster"} THEN "create_index"
    ELSE IF code = "missing_frontmatter_template" THEN "add_frontmatter_template"
    ELSE "split_ai_zone"

Suggestion(r) == [code |-> r.code, action |-> ActionFor(r.code), folder |-> r.folder, evidence |-> r.evidence]

\* generate_structure_suggestions; the target is the folder's file of that name. A text
\* that is too long for its schema raises, which leaves all as it is.
Suggest ==
    /\ Profiled /\ proposed.suggestions = {}
    /\ proposed' = [proposed EXCEPT !.suggestions =
         {Suggestion(r) : r \in {x \in profile.risks : x.code \in Actionable}}]
    /\ UNCHANGED <<notes, config, profile, plan>>

SideNote(type, about, folder, evidence) ==
    [type |-> type, about |-> about, folder |-> folder, evidence |-> evidence]

\* generate_side_note_candidates; an orphan cluster is noted from its own list.
SideNotes(p) ==
    {SideNote("fact", "raw zone", f, {f}) : f \in p.raw}
    \cup {SideNote("hypothesis", "orphans", o[1], o[2]) : o \in p.orphans}
    \cup {SideNote("challenge", "ai zone", r.folder, r.evidence) :
            r \in {x \in p.risks : x.code = "ambiguous_ai_zone"}}
    \cup {SideNote("action", ActionFor(r.code), r.folder, r.evidence) :
            r \in {x \in p.risks : x.code \in Actionable \ {"orphan_cluster", "ambiguous_ai_zone"}}}

Digestion(note) == [note |-> note, evidence |-> note.evidence]

\* generate_side_note_candidates and generate_digestion_candidates.
Comment ==
    /\ Profiled /\ proposed.side = {}
    /\ proposed' = [proposed EXCEPT !.side = SideNotes(profile),
                                    !.digestions = {Digestion(n) : n \in SideNotes(profile)}]
    /\ UNCHANGED <<notes, config, profile, plan>>

Group(side, type) == {n \in side : n.type = type}

GrowthReport(period, groups) == [period |-> period, groups |-> groups, digestions |-> proposed.digestions]

\* build_report_inputs, the same for each period; a list that is too long is an error.
Report ==
    /\ proposed.side # {} /\ proposed.report = {} /\ ~proposed.failed
    /\ LET groups == [t \in {"fact", "hypothesis", "challenge", "action"} |-> Group(proposed.side, t)]
       IN  proposed' = IF Cardinality(proposed.digestions) > MaxRefs THEN [proposed EXCEPT !.failed = TRUE]
                       ELSE [proposed EXCEPT !.report = {GrowthReport(p, groups) : p \in {"daily", "weekly", "monthly"}}]
    /\ UNCHANGED <<notes, config, profile, plan>>

-----------------------------------------------------------------------------
(* What is compiled from the notes.                                        *)

Log(event, sources) == [event |-> event, sources |-> sources]

\* A wiki candidate of a source; its target is named for the title, and that is the
\* same for all index files.
Wiki(n) == [source |-> n, target |-> IF notes[n].index THEN "index" ELSE n]

\* build_content_reuse_plan: a wiki candidate and two log rows for each source, and a
\* packet that names them all; too many sources are an error.  A plan and a profile
\* take nothing from each other, so a behaviour has only one of them.
Compile ==
    /\ plan = NoPlan /\ ~profile.known
    /\ \E sources \in (SUBSET DOMAIN notes) \ {{}} :
        /\ Cardinality(sources) <= MaxRefs
        /\ plan' = [sources |-> sources, compiled |-> {Wiki(n) : n \in sources}, output |-> {sources},
                    logs |-> {Log("ingestion", {n}) : n \in sources} \cup {Log("compilation", {n}) : n \in sources}
                             \cup {Log("output", sources)}]
    /\ UNCHANGED <<notes, config, profile, proposed>>

\* lint_content_reuse_plan.
Lint(p) ==
    (IF p.sources = {} THEN {"empty_source_layer"} ELSE {})
    \cup (IF \A c \in p.compiled : c.source \in p.sources THEN {} ELSE {"candidate_missing_source_record"})
    \cup (IF \A o \in p.output : o \subseteq p.sources THEN {} ELSE {"candidate_missing_source_record"})
    \cup (IF p.compiled # {} /\ p.logs = {} THEN {"missing_activity_log"} ELSE {})

-----------------------------------------------------------------------------
\* The user goes on writing, while the profile stays as it is.
Rewrite ==
    /\ Profiled /\ notes = profile.notes
    /\ \E n \in MirrorNotes, k \in NoteKinds : notes' = [m \in DOMAIN notes \cup {n} |-> IF m = n THEN k ELSE notes[m]]
    /\ UNCHANGED <<config, profile, proposed, plan>>

MirrorNext == ScanVault \/ Suggest \/ Comment \/ Report \/ Compile \/ Rewrite

-----------------------------------------------------------------------------
(* Properties.                                                             *)

\* What is said of the vault was so when it was scanned: a folder is given to the tool
\* only by the settings, for itself or for one above it, or by a note in it, and never
\* against the settings, and called the user's for such reasons too; a missing index is
\* missing in a folder that has notes; no note of an orphan cluster is linked with any
\* note; a folder to be split is in no zone of the tool, however much the user has
\* changed since (infer_zone, the build_*_risks, candidates.py).
MirrorIsGrounded ==
    Profiled =>
    LET seen == profile.notes
        Linked(n, m) == n # m /\ (m \in seen[n].links \/ n \in seen[m].links)
        Tools(n) == seen[n].type = "ai" \/ seen[n].owner = "noeticbraid" \/ seen[n].named \/ seen[n].folder \in AiMarked
    IN  /\ \A f \in profile.ai \ profile.config.ai :
            /\ ~InZones(f, profile.config.raw)
            /\ InZones(f, profile.config.ai) \/ \E n \in DOMAIN seen : seen[n].folder = f /\ Tools(n)
        /\ \A s \in proposed.suggestions :
            /\ s.code \in {"missing_index", "missing_project_index"} =>
                 /\ \E n \in DOMAIN seen : seen[n].folder = s.folder
                 /\ \A n \in DOMAIN seen : seen[n].folder = s.folder => ~seen[n].index
            /\ s.code = "orphan_cluster" => \A n \in s.evidence, m \in DOMAIN seen : ~Linked(n, m)
            /\ s.action = "split_ai_zone" => ~InZones(s.folder, profile.ai)
        /\ \A n \in proposed.side : n.type = "fact" =>
            \/ n.folder \in profile.config.raw \/ InZones(n.folder, profile.config.raw)
            \/ \E m \in DOMAIN seen : seen[m].folder = n.folder /\ ~(seen[m].type = "ai" /\ seen[m].owner # "user")

\* Nothing gets lost on the way: every risk that calls for action is suggested and
\* commented, every comment has its digestion and stands in exactly one list of each
\* report, every source has its candidate and its log rows, and the linter has no
\* complaint (generate_*, build_report_inputs, build_content_reuse_plan).
NothingIsLost ==
    /\ proposed.suggestions # {} =>
        \A r \in profile.risks : r.code \in Actionable =>
            Cardinality({s \in proposed.suggestions : s.code = r.code /\ s.folder = r.folder}) = 1
    /\ proposed.side # {} =>
        /\ \A r \in profile.risks : r.code \in Actionable => \E n \in proposed.side : n.evidence = r.evidence
        /\ {d.note : d \in proposed.digestions} = proposed.side
    /\ \A r \in proposed.report : \A n \in proposed.side :
        /\ Cardinality({t \in DOMAIN r.groups : n \in r.groups[t]}) = 1
        /\ \E d \in r.digestions : d.note = n
    /\ plan # NoPlan =>
        /\ Lint(plan) = {}
        /\ \A n \in plan.sources : \A e \in {"ingestion", "compilation"} : Log(e, {n}) \in plan.logs
        /\ UNION plan.output = {c.source : c \in plan.compiled}

\* The mirror tells the truth of what it saw, and loses none of it (scanner.py,
\* candidates.py, reuse.py).
MirrorHolds == MirrorIsGrounded /\ NothingIsLost
=============================================================================
