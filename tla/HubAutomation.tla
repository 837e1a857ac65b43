--------------------------- MODULE HubAutomation ---------------------------
(***************************************************************************)
(* One operation of the web-AI hub, from the platform's adapter to the     *)
(* hub's command line and back: platform/orchestration/hub_adapter.py,     *)
(* omc_workspace/web_ai_hub_automation.py (gate, dispatch, confinement and *)
(* redaction), web_ai_hub_compat.py (what may be asked, and of which       *)
(* build), web_ai_hub_client.py (the process), and the health checks of    *)
(* capability_registry.py.                                                 *)
(*                                                                         *)
(* The hub's files, the browser it drives and the artifacts it writes are  *)
(* not under this program's control and may change between any two steps.  *)
(* The TaskDispatch module has what the dispatcher makes of the outcomes.  *)
(***************************************************************************)
EXTENDS Integers, Sequences, FiniteSets

CONSTANTS
    HubWorlds,   \* worlds: [build, browser, tools, enabled, path]
    HubReplies,  \* what the hub's process may answer
    MaxTurns     \* bound on the changes of the world during a call

\* The operations by what the code tells apart: a prompt (also research, music and the
\* like), an upload, an image, a video, a status question, one that is allowed but not
\* dispatched (browser_read), and one that is not allowed.
HubOps == {"prompt", "upload", "image", "video", "status", "browser", "excluded"}
Dispatchable == {"prompt", "upload", "image", "video", "status"}
Allowed == Dispatchable \cup {"browser"}
Pageful == Allowed \ {"status"}
NeedsDirectory == {"image", "video"}

\* A reply: a JSON object with or without a status, an error code and so on, another
\* JSON value (which the client wraps as {"data": ...}), or no usable one (time limit,
\* exit code, no JSON), for which it makes an object of its own with an error.
HubReply == [kind : {"object", "other", "failed"},
             status : {"none", "ok", "running", "queued", "done", "failed", "strange"},
             path : BOOLEAN, complete : BOOLEAN, error : BOOLEAN]
World == [build : {"pinned", "changed", "absent", "unreadable"}, browser : {"unset", "down", "up"},
          tools : SUBSET HubOps, enabled : BOOLEAN, path : BOOLEAN]

ASSUME HubAssumption == HubWorlds \subseteq World /\ HubReplies \subseteq HubReply /\ MaxTurns \in Nat

VARIABLES
    hubWorld,  \* the operator's environment, the hub and its browser
    hubFile,   \* what the path that the hub names leads to
    hubCall,   \* the call that is under way
    hubAnswer, \* what the caller was told last
    hubTurns

hubVars == <<hubWorld, hubFile, hubCall, hubAnswer, hubTurns>>

Files == {"none", "inside", "outside", "link", "big"}
NoReply == [kind |-> "other", status |-> "none", path |-> FALSE, complete |-> FALSE, error |-> FALSE]
NoCall == [at |-> "idle", op |-> "prompt", way |-> "dispatch", valid |-> FALSE, snap |-> [enabled |-> FALSE, path |-> FALSE],
           reply |-> NoReply, ran |-> FALSE, fresh |-> FALSE, sound |-> FALSE, seen |-> "none"]
Blank == [outcome |-> "none", status |-> "none", path |-> FALSE, call |-> NoCall]

HubInit ==
    /\ hubWorld \in HubWorlds /\ hubFile = "none" /\ hubCall = NoCall
    /\ hubAnswer = Blank /\ hubTurns = 0

HubIdle ==
    /\ hubWorld = (CHOOSE w \in HubWorlds : TRUE) /\ hubFile = "none" /\ hubCall = NoCall
    /\ hubAnswer = Blank /\ hubTurns = 0

-----------------------------------------------------------------------------
(* What is asked, and of which hub.                                        *)

\* compute_exec_digest and digest_matches.
DigestMatches == hubWorld.build = "pinned"

\* _probe_tool_names: an empty or unusable answer is none.
HasTool(op) == op \in hubWorld.tools

\* _read_cdp_endpoint and _cdp_endpoint_reachable.
Reachable == hubWorld.browser = "up"

\* web_ai_hub_gate; the environment is the snapshot of the call.
GateReady(c) ==
    /\ c.snap.enabled /\ c.op \in Allowed /\ c.snap.path
    /\ DigestMatches /\ HasTool(c.op)
    /\ c.op \in Pageful => Reachable

\* validate_request: "valid" stands for its tests of keys, profile, text, action,
\* surface and time limit (_validate_send_prompt and the others); an upload's files are
\* looked up as well (_validate_upload_files).
ParametersValid(c) == c.valid
FilesFound(c) == c.op = "upload" => hubFile = "inside"
RequestValid(c) == ParametersValid(c) /\ FilesFound(c)

-----------------------------------------------------------------------------
(* What becomes of a reply.                                                *)

Answer(outcome, status, path) ==
    /\ hubAnswer' = [outcome |-> outcome, status |-> status, path |-> path, call |-> hubCall]
    /\ hubCall' = NoCall

\* _redact_hub_response: a reply without a status is ok if it is complete or has an
\* artifact, and no error code.
RedactedStatus(reply, confined) ==
    IF reply.kind # "object" THEN "error"
    ELSE IF reply.status # "none" THEN reply.status
    ELSE IF ~reply.error /\ (reply.complete \/ confined) THEN "ok" ELSE "error"

\* _reconfine_returned_artifact_path, at the time of the test.
Confined(reply) == reply.kind = "object" /\ reply.path /\ hubFile = "inside"

\* _requires_terminal_artifact_reconfinement: a video may still be in the making.
MustConfine(op, reply) ==
    op \in NeedsDirectory
      /\ (op = "video" => reply.kind = "object" /\ (reply.status = "ok" \/ reply.path))

\* _blocked, of the adapter and of the automation.
Block(status) == Answer("blocked", status, FALSE)

-----------------------------------------------------------------------------
(* A call, step by step.                                                   *)

\* dispatch, dispatch_async_start and dispatch_async_status; the synchronous way asks
\* the closed set first.
Ask ==
    /\ hubCall.at = "idle"
    /\ \E op \in HubOps, way \in {"dispatch", "start", "status"}, valid \in BOOLEAN :
        /\ way = "start" => op \in {"image", "video"}
        /\ way = "status" => op = "status"
        /\ LET c == [NoCall EXCEPT !.at = "gate", !.op = op, !.way = way, !.valid = valid,
                                   !.snap = [enabled |-> hubWorld.enabled, path |-> hubWorld.path]]
           IN  IF way = "dispatch" /\ op \notin Dispatchable THEN Block("not_implemented")
               ELSE hubCall' = c /\ UNCHANGED hubAnswer
    /\ UNCHANGED <<hubWorld, hubFile, hubTurns>>

Gate ==
    /\ hubCall.at = "gate"
    /\ IF GateReady(hubCall) THEN hubCall' = [hubCall EXCEPT !.at = "check"] /\ UNCHANGED hubAnswer
       ELSE Block("not_implemented")
    /\ UNCHANGED <<hubWorld, hubFile, hubTurns>>

\* Faulty variant of PassesCheck: the gate has seen the digest already.
PassesCheckOnce(c) == c.op \in Dispatchable /\ RequestValid(c)

\* _dispatch_web_ai_raw after the gate: the operation, the directory, the request and,
\* once more, the digest.
PassesCheck(c) == c.op \in Dispatchable /\ RequestValid(c) /\ DigestMatches

Check ==
    /\ hubCall.at = "check"
    /\ IF PassesCheck(hubCall)
       THEN hubCall' = [hubCall EXCEPT !.at = "run", !.fresh = DigestMatches] /\ UNCHANGED hubAnswer
       ELSE Block("not_implemented")
    /\ UNCHANGED <<hubWorld, hubFile, hubTurns>>

\* run_hub_command; the hub may write its artifact anywhere.
RunHub ==
    /\ hubCall.at = "run"
    /\ \E reply \in HubReplies, file \in Files :
        /\ ~reply.path => file = hubFile
        /\ hubFile' = file
        /\ hubCall' = [hubCall EXCEPT !.at = "confine", !.reply = reply, !.ran = TRUE]
    /\ UNCHANGED <<hubWorld, hubAnswer, hubTurns>>

\* dispatch_web_ai after the run: confinement, then the first redaction.
Confine ==
    /\ hubCall.at = "confine" /\ hubCall.way # "status"
    /\ LET must == MustConfine(hubCall.op, hubCall.reply)
           sound == must /\ Confined(hubCall.reply)
       IN  IF must /\ ~sound THEN Block("not_implemented")
           ELSE /\ hubCall' = [hubCall EXCEPT !.at = "adapt", !.sound = sound,
                                              !.seen = RedactedStatus(hubCall.reply, sound)]
                /\ UNCHANGED hubAnswer
    /\ UNCHANGED <<hubWorld, hubFile, hubTurns>>

\* The adapter redacts once more, and looks the artifact up once more: one that has
\* gone by then is left out of an answer that stays ok.
Adapt ==
    /\ hubCall.at = "adapt" /\ hubCall.way = "dispatch"
    /\ IF hubCall.seen = "ok" THEN Answer("ok", "ok", hubCall.sound /\ hubFile \in {"inside", "big"})
       ELSE Block(hubCall.seen)
    /\ UNCHANGED <<hubWorld, hubFile, hubTurns>>

\* dispatch_async_start: only a task that is running is a start; an artifact that is
\* there at once is reported as blocked.
Started ==
    /\ hubCall.at = "adapt" /\ hubCall.way = "start"
    /\ \/ hubCall.seen = "running" /\ Answer("running", "running", FALSE)
       \/ Block(hubCall.seen)    \* also a running task without a usable id
    /\ UNCHANGED <<hubWorld, hubFile, hubTurns>>

\* dispatch_async_status.
Polled ==
    /\ hubCall.at = "confine" /\ hubCall.way = "status"
    /\ LET r == hubCall.reply IN
        CASE r.kind # "object" -> Block(RedactedStatus(r, FALSE))
          [] r.kind = "object" /\ r.status = "done" ->
                IF Confined(r) THEN Answer("ok", "ok", TRUE) ELSE Block("not_implemented")
          [] r.kind = "object" /\ r.status \in {"running", "queued"} -> Answer("running", r.status, FALSE)
          [] OTHER -> Block(RedactedStatus(r, FALSE))
    /\ UNCHANGED <<hubWorld, hubFile, hubTurns>>

\* The operator, the hub's package manager, the browser; and whoever moves the file.
Turn ==
    /\ hubTurns < MaxTurns /\ hubTurns' = hubTurns + 1
    /\ \/ hubWorld' \in HubWorlds \ {hubWorld} /\ UNCHANGED hubFile
       \/ hubFile' \in Files \ {hubFile} /\ UNCHANGED hubWorld
    /\ UNCHANGED <<hubCall, hubAnswer>>

-----------------------------------------------------------------------------
(* Health checks.                                                          *)

Capabilities == {"cli", "gemini_web", "chatgpt_web"}

\* check_chatgpt_consumer_health and _chatgpt_web_health_result. Of this reply
\* "complete" stands for ok: true and "failed" for blocked and needs_review; missing,
\* which is shown as not implemented, is left out.
WebHealth(reply) ==
    IF ~hubWorld.path THEN "not_implemented"
    ELSE IF reply.kind = "object" /\ (reply.complete \/ ~reply.error)
              /\ (reply.status = "ok" \/ (reply.complete /\ reply.status # "failed"))
    THEN "healthy" ELSE "unhealthy"

\* _live_cli_health_result: a version line on its output, and a zero exit.
CliHealth(reply) == IF reply.kind = "object" /\ reply.complete THEN "healthy" ELSE "unhealthy"

\* health_check: without the opt-in everything is available, unseen.
HealthCheck ==
    /\ hubCall.at = "idle"
    /\ \E item \in Capabilities, live \in BOOLEAN, reply \in HubReplies :
        LET status == CASE ~live -> "available"
                        [] live /\ item = "chatgpt_web" -> WebHealth(reply)
                        [] live /\ item = "cli" -> CliHealth(reply)
                        [] OTHER -> "not_implemented"
        IN  hubAnswer' = [outcome |-> "health", status |-> status, path |-> live,
                          call |-> [NoCall EXCEPT !.reply = reply]]
    /\ UNCHANGED <<hubWorld, hubFile, hubCall, hubTurns>>

HubNext ==
    \/ Ask \/ Gate \/ Check \/ RunHub \/ Confine \/ Adapt \/ Started \/ Polled \/ Turn \/ HealthCheck

HubSpec == HubInit /\ [][HubNext]_hubVars

-----------------------------------------------------------------------------
(* Properties.                                                             *)

\* The hub is asked, and believed, only within the rules, whatever changes meanwhile: a
\* process was started only for an operation of the closed set, with the opt-in, and
\* with the pinned build at a check later than the gate; what is called ok comes from a
\* run whose reply said so, or was complete and without an error; an artifact operation
\* that is ok had its artifact in the directory of the task, but for a video whose reply
\* has neither a status nor a path; a path is named only if there is one; and healthy is
\* only what was asked (_dispatch_web_ai_raw, dispatch_web_ai, dispatch_async_status,
\* dispatch, health_check).
HubFailsClosed ==
    /\ hubCall.at \in {"run", "confine", "adapt"} =>
        hubCall.op \in Dispatchable /\ hubCall.snap.enabled /\ hubCall.fresh
    /\ LET a == hubAnswer c == hubAnswer.call r == hubAnswer.call.reply IN
        /\ a.outcome \in {"ok", "running"} => c.ran /\ r.kind = "object"
        /\ a.outcome = "ok" =>
            \/ r.status = "ok" \/ (c.way = "status" /\ r.status = "done")
            \/ r.status = "none" /\ ~r.error /\ (r.complete \/ c.sound)
        /\ a.outcome = "ok" /\ c.op \in NeedsDirectory => c.sound \/ (c.op = "video" /\ r.status = "none")
        /\ a.outcome = "ok" /\ a.path => r.path
        /\ a.outcome = "health" /\ a.status = "healthy" => a.path /\ r.kind = "object"
=============================================================================
