----------------------------- MODULE NotebookOps -----------------------------
(***************************************************************************)
(* The composite operations of the notebooklm_rpc package: generate and    *)
(* download (_artifacts.py), sources (_sources.py), notes (_notes.py),     *)
(* questions (_chat.py), slide revisions (_artifact_lifecycle.py) and      *)
(* sharing (_lifecycle.py), each run as the op_fn of run_with_pool         *)
(* (_client.py), which runs it again from its first call on another        *)
(* account when the service was at fault.                                  *)
(*                                                                         *)
(* An operation is a sequence of calls of the service; what it does with   *)
(* each answer is here, what the service does is external: a call may have *)
(* had its effect although it raised.  The pool, which AccountPool models, *)
(* is any account that was not tried.  Of the arguments, at most one is    *)
(* bad; which error is reported first when several are is not modelled.    *)
(***************************************************************************)
EXTENDS Integers, Sequences, FiniteSets

CONSTANTS
    OpCallers,    \* who calls
    PoolAccounts, \* the accounts of the pool
    Homes,        \* the sets of accounts that may have the notebook
    Wanted,       \* Wanted[c]: the operations that caller c asks for
    Rotations,    \* values of max_rotations; 0 is account_op
    MaxOps        \* bound on the calls of all callers

ASSUME OpsAssumption ==
    Homes \subseteq SUBSET PoolAccounts /\ Rotations \subseteq Nat /\ MaxOps \in Nat /\ IsFiniteSet(OpCallers)

VARIABLES
    seers,   \* the accounts that have the notebook
    items,   \* what the service holds: artifacts, sources and notes, in the order they were made
    files,   \* files[c]: the item in the file at the output path of caller c, 0 when there is none
    sharing, \* the notebook: [invited, public, level], level 0 as long as nobody set one
    doing,   \* doing[c]: the locals of one run_with_pool and its op_fn
    opsPast  \* history: calls begun, whether a sharing call broke off or set no level

opsVars == <<seers, items, files, sharing, doing, opsPast>>

-----------------------------------------------------------------------------
(* The operations: the calls that each makes, in order.                    *)

Tells(ops, calls) == [op \in ops |-> calls]

\* generate_*, then wait_then_download.
MediaCalls == Tells({"audio", "video", "cinematic_video"}, <<"make", "wait", "download">>)
PaperCalls == Tells({"report", "study_guide"}, <<"make", "wait", "download">>)
DrillCalls == Tells({"quiz", "flashcards"}, <<"make", "wait", "download">>)
BoardCalls == Tells({"infographic", "slide_deck", "data_table"}, <<"make", "wait", "download">>)

\* A mind map is there at once, and has its own id.
MindMapCalls == Tells({"mind_map"}, <<"chart", "download">>)

\* wait_then_download of an artifact that is already there.
FetchCalls == Tells({"fetch"}, <<"wait", "download">>)

SourceCalls == Tells({"add_file", "add_url", "add_drive", "add_text"}, <<"add">>)
NoteCalls ==
    [op \in {"create_note", "update_note"} |-> IF op = "create_note" THEN <<"note">> ELSE <<"update", "get">>]
ChatCalls == Tells({"ask_note"}, <<"ask", "note">>)

\* The revision is waited for by its own task, the artifact is read by the old id.
ReviseCalls == Tells({"revise_slide"}, <<"revise", "wait", "get">>)

\* Two ways to let others in; the view level is a call of its own, after it.
ShareCalls == [op \in {"share", "share_at_level"} |-> IF op = "share" THEN <<"add_user">> ELSE <<"add_user", "level">>]
PublishCalls == Tells({"publish", "withdraw"}, <<"public", "level">>)

Calls ==
    [op \in DOMAIN MediaCalls \cup DOMAIN PaperCalls \cup DOMAIN DrillCalls \cup DOMAIN BoardCalls
             \cup DOMAIN MindMapCalls \cup DOMAIN FetchCalls \cup DOMAIN SourceCalls \cup DOMAIN NoteCalls
             \cup DOMAIN ChatCalls \cup DOMAIN ReviseCalls \cup DOMAIN ShareCalls \cup DOMAIN PublishCalls |->
        CASE op \in DOMAIN MediaCalls -> MediaCalls[op]
          [] op \in DOMAIN PaperCalls -> PaperCalls[op]
          [] op \in DOMAIN DrillCalls -> DrillCalls[op]
          [] op \in DOMAIN BoardCalls -> BoardCalls[op]
          [] op \in DOMAIN MindMapCalls -> MindMapCalls[op]
          [] op \in DOMAIN FetchCalls -> FetchCalls[op]
          [] op \in DOMAIN SourceCalls -> SourceCalls[op]
          [] op \in DOMAIN NoteCalls -> NoteCalls[op]
          [] op \in DOMAIN ChatCalls -> ChatCalls[op]
          [] op \in DOMAIN ReviseCalls -> ReviseCalls[op]
          [] op \in DOMAIN ShareCalls -> ShareCalls[op]
          [] op \in DOMAIN PublishCalls -> PublishCalls[op]]

ASSUME WantedAssumption == Wanted \in [OpCallers -> SUBSET DOMAIN Calls]

Sharing == DOMAIN ShareCalls \cup DOMAIN PublishCalls
Old == {"fetch", "update_note", "revise_slide"}

\* Arguments that are refused before the first call.
CheckedFirst(op) ==
    CASE op \in {"create_note", "publish", "withdraw"} -> {"notebook_id"}
      [] op \in DOMAIN ShareCalls -> {"notebook_id", "email"}
      [] op \in {"update_note", "revise_slide"} -> {"notebook_id", "item_id"}
      [] op = "ask_note" -> {"notebook_id", "question"}
      [] OTHER -> {}

\* Arguments that wait_then_download looks at when it has waited.
CheckedMidway(op) == IF op = "fetch" THEN {"method", "kwargs"} ELSE {}

\* What the serializers refuse once the item is there: *_to_source_record.
CommonChecks == {"ref_id", "captured_at", "content_hash", "run_id"}
SourceChecks == CommonChecks \cup {"title", "local_path"}
NoteChecks == CommonChecks \cup {"title", "local_path"}
ArtifactChecks == CommonChecks \cup {"title", "local_path"}
CheckedLast(op) ==
    CASE op = "add_file" -> SourceChecks
      [] op \in {"add_url", "add_drive", "add_text"} -> SourceChecks \ {"local_path"}
      [] op \in DOMAIN NoteCalls \cup DOMAIN ChatCalls -> NoteChecks
      [] op \in DOMAIN ReviseCalls -> ArtifactChecks
      [] OTHER -> {}

\* When a bad argument is noticed: what tells one bad argument from another here.
Stages(op) ==
    {"never"} \cup {st \in {"first", "midway", "last"} :
        {} # CASE st = "first" -> CheckedFirst(op) [] st = "midway" -> CheckedMidway(op) [] OTHER -> CheckedLast(op)}

-----------------------------------------------------------------------------
(* The service.                                                            *)

\* The calls that leave an item of their own.
Makers == {"make", "chart", "add", "note", "revise"}

\* What a call may answer.
Answers(call) ==
    CASE call = "chart" -> {"yes", "mismatch"}
      [] call = "wait" -> {"completed", "failed", "pending"}
      [] call = "add" -> {"ready", "processing", "failed"}
      [] call = "get" -> {"yes", "none"}
      [] call = "ask" -> {"yes", "empty"}
      [] OTHER -> {"yes"}

\* What the operation takes for a success of its call.
Accepted(op, call) ==
    CASE call = "wait" -> IF op = "revise_slide" THEN {"completed", "pending"} ELSE {"completed"}
      [] call = "add" -> {"ready"}
      [] OTHER -> {"yes"}

NoCall == [at |-> "idle", op |-> "none", noticed |-> "never", budget |-> 0, call |-> 0, level |-> 1, acct |-> 0,
           tried |-> {}, pos |-> 1, item |-> 0, result |-> "none"]

OpsInit ==
    /\ seers \in Homes /\ items = <<[by |-> 0, acct |-> 0, state |-> "pending"]>>
    /\ files = [c \in OpCallers |-> 0] /\ sharing = [invited |-> FALSE, public |-> FALSE, level |-> 0]
    /\ doing = [c \in OpCallers |-> NoCall]
    /\ opsPast = [begun |-> 0, unleveled |-> FALSE]

Made(c, state) == Append(items, [by |-> doing[c].call, acct |-> doing[c].acct, state |-> state])

\* What is complete or failed stays so, and only what is complete can be downloaded.
Possible(c, call, answer) ==
    LET state == items[doing[c].item].state
    IN  /\ call = "wait" /\ state # "pending" => answer = state
        /\ call = "download" => state = "completed"

\* The effect of a call that answers so.
Effect(c, call, answer) ==
    /\ CASE call \in {"make", "revise", "note"} -> items' = Made(c, "pending")
         [] call = "chart" -> items' = Made(c, "completed")
         [] call = "add" -> items' = Made(c, answer)
         [] call = "wait" -> items' = [items EXCEPT ![doing[c].item].state = answer]
         [] OTHER -> UNCHANGED items
    /\ files' = IF call = "download" THEN [files EXCEPT ![c] = doing[c].item] ELSE files
    /\ CASE call = "add_user" -> sharing' = [sharing EXCEPT !.invited = TRUE]
         [] call = "public" -> sharing' = [sharing EXCEPT !.public = doing[c].op = "publish"]
         [] call = "level" -> sharing' = [sharing EXCEPT !.level = doing[c].level]
         [] OTHER -> UNCHANGED sharing

-----------------------------------------------------------------------------
(* run_with_pool.                                                          *)

Demand(c) ==
    /\ doing[c].at = "idle" /\ opsPast.begun < MaxOps
    /\ opsPast' = [opsPast EXCEPT !.begun = @ + 1]
    /\ \E op \in Wanted[c], budget \in Rotations, level \in 1..2 : \E noticed \in Stages(op) :
        /\ level = 2 => op \in Sharing
        /\ doing' = [doing EXCEPT ![c] = [NoCall EXCEPT !.at = "pick", !.op = op, !.noticed = noticed, !.budget = budget,
                                                        !.level = level, !.call = opsPast.begun + 1]]
    /\ UNCHANGED <<seers, items, files, sharing>>

Return(c, result) == doing' = [doing EXCEPT ![c].at = "idle", ![c].result = result]

\* Faulty variant of Remembered: the accounts that were tried are not kept.
RememberedNot(tried, a) == {}

\* tried_account_ids.
Remembered(tried, a) == tried \cup {a}

\* pick, with what was tried excluded, and the client opened: where that fails, the
\* first call raises without effect.
PickOne(c) ==
    /\ doing[c].at = "pick"
    /\ \/ \E a \in PoolAccounts \ doing[c].tried :
            doing' = [doing EXCEPT ![c].at = "call", ![c].acct = a, ![c].pos = 1,
                                   ![c].item = IF doing[c].op \in Old THEN 1 ELSE 0,
                                   ![c].tried = Remembered(@, a)]
       \/ Return(c, "unavailable")
    /\ UNCHANGED <<seers, items, files, sharing, opsPast>>

\* The operation raised: the next account, when the error calls for it and there is
\* budget left, or the error itself.
Raise(c, rotates) ==
    /\ IF rotates /\ Cardinality(doing[c].tried) <= doing[c].budget
       THEN doing' = [doing EXCEPT ![c].at = "pick"]
       ELSE Return(c, "error")
    /\ opsPast' = [opsPast EXCEPT !.unleveled = @ \/ doing[c].op \in Sharing]

Due(c) == Calls[doing[c].op][doing[c].pos]
Finished(c) == doing[c].pos > Len(Calls[doing[c].op])

\* An argument is refused before the first call, after the wait, or when all is done. An
\* error that quotes it may hold the word captcha.
Refused(c) ==
    \/ doing[c].noticed = "first" /\ doing[c].pos = 1
    \/ doing[c].noticed = "midway" /\ doing[c].pos = 2
    \/ doing[c].noticed = "last" /\ Finished(c)

Refuse(c) ==
    /\ doing[c].at = "call" /\ Refused(c)
    /\ \E captcha \in BOOLEAN : Raise(c, captcha)
    /\ UNCHANGED <<seers, items, files, sharing>>

CanCall(c) == doing[c].at = "call" /\ ~Finished(c) /\ ~Refused(c)

\* A call that answers. The answer is accepted, or the operation gives up; what it says
\* of it may hold the word captcha, which is all that rotation looks for.
CallService(c) ==
    /\ CanCall(c) /\ doing[c].acct \in seers /\ UNCHANGED seers
    /\ \E answer \in Answers(Due(c)) :
        /\ Possible(c, Due(c), answer)
        /\ Effect(c, Due(c), answer)
        /\ \/ /\ answer \in Accepted(doing[c].op, Due(c))
              /\ doing' = [doing EXCEPT ![c].pos = @ + 1,
                     ![c].item = IF Due(c) \in Makers THEN Len(items') ELSE @]
              /\ UNCHANGED opsPast
           \/ /\ answer \notin Accepted(doing[c].op, Due(c))
              /\ \E captcha \in BOOLEAN : (captcha => Due(c) = "wait") /\ Raise(c, captcha)

\* A call that raises: it had its effect or none. An account without the notebook is
\* told so, which is the end, if its login, its rate or the server does not fail first.
CallRaises(c) ==
    /\ CanCall(c) /\ UNCHANGED seers
    /\ \/ UNCHANGED <<items, files, sharing>>
       \/ /\ doing[c].acct \in seers
          /\ \E answer \in Answers(Due(c)) :
                Possible(c, Due(c), answer) /\ Effect(c, Due(c), answer)
    /\ \E rotates \in BOOLEAN : Raise(c, rotates)

\* The client is closed, which may fail as well; only then does the result count.
CloseClient(c) ==
    /\ doing[c].at = "call" /\ Finished(c) /\ ~Refused(c)
    /\ \/ Return(c, "ok") /\ opsPast' = [opsPast EXCEPT !.unleveled = @ \/ doing[c].op = "share"]
       \/ \E rotates \in BOOLEAN : Raise(c, rotates)
    /\ UNCHANGED <<seers, items, files, sharing>>

OpsNext ==
    \E c \in OpCallers :
        Demand(c) \/ PickOne(c) \/ Refuse(c) \/ CallService(c) \/ CallRaises(c) \/ CloseClient(c)

-----------------------------------------------------------------------------
(* Properties.                                                             *)

ItemsOf(call) == {i \in DOMAIN items : items[i].by = call}

\* What a call returns is there: the item it made at last, complete when it was to be
\* downloaded, and that very item in the file, also when earlier attempts of the same
\* call had left theirs.
ResultIsReal ==
    \A c \in OpCallers : doing[c].result = "ok" /\ doing[c].op \notin Sharing =>
        /\ doing[c].op \notin Old => items[doing[c].item].by = doing[c].call /\ items[doing[c].item].acct = doing[c].acct
        /\ (\E k \in 1..Len(Calls[doing[c].op]) : Calls[doing[c].op][k] = "download") =>
               files[c] = doing[c].item /\ items[doing[c].item].state = "completed"
        /\ doing[c].op \in DOMAIN SourceCalls => items[doing[c].item].state = "ready"

\* An operation that is run again leaves what its earlier attempts made, but never two
\* items on one account, and never more than the rotations allow.
OneItemPerAccount ==
    \A call \in 1..opsPast.begun :
        \A i, j \in ItemsOf(call) : items[i].acct = items[j].acct => i = j

\* Who was let in sees the notebook at a level that somebody asked for, unless a sharing
\* call is still under way or broke off, or asked for none.
LevelIsAsked ==
    (sharing.public \/ sharing.invited) /\ sharing.level = 0 =>
        opsPast.unleveled \/ \E c \in OpCallers : doing[c].op \in Sharing /\ doing[c].at # "idle"

\* Of the composite operations under rotation: results are real, attempts leave at most
\* one item per account, and no notebook is open at a level that nobody chose.
OpsHold == ResultIsReal /\ OneItemPerAccount /\ LevelIsAsked
=============================================================================
