---------------------------- MODULE MCPanelFiles ----------------------------
(***************************************************************************)
(* Instances of AttachmentStore, DeliverablePack, HubAutomation,           *)
(* HubWatchdog, RunLedgerFile and StatusObserver for TLC: what the panel   *)
(* takes in, hands out and asks the hub for, who looks after the hub, and  *)
(* what is shown of runs and accounts.  The parts share no state; a        *)
(* behaviour is about one, and the others rest.                            *)
(***************************************************************************)
EXTENDS AttachmentStore, DeliverablePack, HubAutomation, HubWatchdog, RunLedgerFile, StatusObserver, TLC

CONSTANTS left, right, bridge, viewer

TwoRenderers == {left, right}
Alike == Permutations(TwoRenderers)

Body(type, named, allowed, bytes) == [type |-> type, named |-> named, allowed |-> allowed, bytes |-> bytes]
FourUploads == {Body("text", TRUE, TRUE, 2), Body("other", TRUE, TRUE, 1),
                Body("other", FALSE, TRUE, 1), Body("text", TRUE, TRUE, 4)}

LedgerRow(modality, file, sha) == [modality |-> modality, file |-> file, sha |-> sha]
TwoRows == <<LedgerRow("document", 1, "d1"), LedgerRow("slides", 2, "d1")>>

WorldOf(build, browser, enabled) ==
    [build |-> build, browser |-> browser, tools |-> HubOps, enabled |-> enabled, path |-> TRUE]
FiveWorlds ==
    {WorldOf("pinned", "up", TRUE), WorldOf("changed", "up", TRUE), WorldOf("pinned", "down", TRUE),
     WorldOf("pinned", "up", FALSE),
     [WorldOf("absent", "unset", TRUE) EXCEPT !.path = FALSE, !.tools = {}]}
Reply(status, path, complete, error) ==
    [kind |-> "object", status |-> status, path |-> path, complete |-> complete, error |-> error]
NineReplies ==
    {Reply("ok", TRUE, TRUE, FALSE), Reply("ok", FALSE, TRUE, FALSE), Reply("none", FALSE, TRUE, FALSE),
     Reply("none", TRUE, FALSE, FALSE), Reply("none", TRUE, TRUE, TRUE), Reply("running", FALSE, FALSE, FALSE),
     Reply("failed", FALSE, FALSE, TRUE),
     [NoReply EXCEPT !.kind = "failed"], NoReply}

OneTarget == <<"gemini">>
MarksOfChain ==
    [k \in Keys |-> CASE k = "gemini" -> {"health", "gemini"}
                      [] k = "geminiweb" -> {"health", "gemini", "geminiweb"}
                      [] OTHER -> {k}]

OneBridge == {bridge}
OneViewer == {viewer}
RecordKind(long, valid, divided) ==
    [run |-> "r", long |-> long, valid |-> valid, wide |-> long, divided |-> divided]
TwoKinds == {RecordKind(TRUE, TRUE, FALSE), RecordKind(FALSE, TRUE, TRUE)}

FirstBatch == <<"claude", "codex", "gemini", "web">>

VARIABLE part

panelVars == <<attVars, packVars, hubVars, watchVars, ledVars, obsVars, part>>

PanelInit ==
    /\ part \in {"attachments", "pack", "hub", "watchdog", "records", "status"}
    /\ AttInit /\ PackInit /\ WatchInit /\ LedInit /\ ObsInit
    /\ IF part = "hub" THEN HubInit ELSE HubIdle
    /\ part # "watchdog" => works = [k \in ProbedKeys |-> TRUE]
    /\ part # "status" => accounts.text = "absent"

PanelNext ==
    \/ part = "attachments" /\ AttNext /\ UNCHANGED <<packVars, hubVars, watchVars, ledVars, obsVars, part>>
    \/ part = "pack" /\ PackNext /\ UNCHANGED <<attVars, hubVars, watchVars, ledVars, obsVars, part>>
    \/ part = "hub" /\ HubNext /\ UNCHANGED <<attVars, packVars, watchVars, ledVars, obsVars, part>>
    \/ part = "watchdog" /\ WatchNext /\ UNCHANGED <<attVars, packVars, hubVars, ledVars, obsVars, part>>
    \/ part = "records" /\ LedNext /\ UNCHANGED <<attVars, packVars, hubVars, watchVars, obsVars, part>>
    \/ part = "status" /\ ObsNext /\ UNCHANGED <<attVars, packVars, hubVars, watchVars, ledVars, part>>

PanelSpec == PanelInit /\ [][PanelNext]_panelVars

WatchdogSpec == PanelInit /\ part = "watchdog" /\ [][PanelNext]_panelVars
=============================================================================
