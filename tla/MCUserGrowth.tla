---------------------------- MODULE MCUserGrowth ----------------------------
(***************************************************************************)
(* Instances of SideNoteDetector, VaultMirror, NotebookOps and             *)
(* ObsidianVault for TLC: the two parts of user_growth_llmwiki, the        *)
(* notebooks whose artifacts, sources and notes become records of the same *)
(* vault, and the hub that writes them there.  They share no state: a      *)
(* behaviour is about one of them, and the others rest.                    *)
(***************************************************************************)
EXTENDS SideNoteDetector, VaultMirror, NotebookOps, ObsidianVault, TLC

CONSTANTS first, second, asker, owner, project, noteA, noteB, pageA, pageB, pageC

TwoProcs == {first, second}
TwoCallers == {asker, owner}
OneProject == {project}
TwoNotes == {noteA, noteB}
OneNotebook == {{0, 1, 2}}
OneType == {"hypothesis"}

\* A vault of three pages in the root, a folder of projects and one called AI, which
\* are taken for the same topic, and a folder below AI.
ThreePages == {pageA, pageB, pageC}
FourFolders == {"root", "Projects", "AI", "AI/Old"}
Nesting == [f \in FourFolders |-> IF f = "AI" THEN {"AI", "AI/Old"} ELSE {f}]
OneTwin == {{"Projects", "AI"}}
Plain == [folder |-> "root", index |-> FALSE, front |-> FALSE, type |-> "none", owner |-> "none",
          named |-> FALSE, links |-> {}]
Kinds ==
    {Plain, [Plain EXCEPT !.links = {"parent"}], [Plain EXCEPT !.owner = "noeticbraid", !.front = TRUE],
     [Plain EXCEPT !.folder = "Projects"], [Plain EXCEPT !.folder = "Projects", !.index = TRUE],
     [Plain EXCEPT !.folder = "Projects", !.links = {pageA}],
     [Plain EXCEPT !.folder = "AI"], [Plain EXCEPT !.folder = "AI", !.named = TRUE],
     [Plain EXCEPT !.folder = "AI", !.front = TRUE, !.type = "ai"],
     [Plain EXCEPT !.folder = "AI/Old"], [Plain EXCEPT !.folder = "AI/Old", !.front = TRUE, !.type = "ai"]}
ThreeSettings == {[raw |-> {}, ai |-> {}], [raw |-> {"AI"}, ai |-> {}], [raw |-> {"Projects"}, ai |-> {"AI"}]}

\* One operation of every shape, beside one that opens the notebook to the public.
AskedFor ==
    asker :> {"audio", "mind_map", "fetch", "add_file", "create_note", "update_note", "ask_note", "revise_slide",
              "share", "share_at_level", "publish"}
        @@ owner :> {"publish"}
OneOrTwo == {{1}, {1, 2}}

FourPages == <<"dashboard", "note", "source", "drop">>
FolderOf ==
    [p \in {"dashboard", "note", "source", "drop"} |->
        IF p = "dashboard" THEN "dashboard" ELSE IF p = "drop" THEN "dropzone" ELSE "records"]
Recording(p) == [page |-> p, valid |-> TRUE]
ThreeBatches ==
    {<<Recording("note"), Recording("source")>>, <<Recording("source"), Recording("source")>>,
     <<Recording("source"), [page |-> "note", valid |-> FALSE]>>}

VARIABLE part    \* what a behaviour is about

growthVars == <<vars, mirrorVars, opsVars, vaultVars, part>>

GrowthInit ==
    /\ part \in {"detector", "mirror", "notebooks", "vault"}
    /\ Init /\ OpsInit
    /\ IF part = "mirror" THEN MirrorInit ELSE MirrorIdle
    /\ IF part = "vault" THEN VaultInit ELSE VaultWith({})
    /\ part # "detector" => mentioned = [j \in Projects |-> {0, 1, 2}] /\ approved = {}
    /\ part # "notebooks" => seers = {1}

GrowthNext ==
    \/ part = "detector" /\ Next /\ UNCHANGED <<mirrorVars, opsVars, vaultVars, part>>
    \/ part = "mirror" /\ MirrorNext /\ UNCHANGED <<vars, opsVars, vaultVars, part>>
    \/ part = "notebooks" /\ OpsNext /\ UNCHANGED <<vars, mirrorVars, vaultVars, part>>
    \/ part = "vault" /\ VaultNext /\ UNCHANGED <<vars, mirrorVars, opsVars, part>>

GrowthSpec == GrowthInit /\ [][GrowthNext]_growthVars
=============================================================================
