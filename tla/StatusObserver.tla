--------------------------- MODULE StatusObserver ---------------------------
(***************************************************************************)
(* What the panel says of the accounts (account/status_observer.py, shown  *)
(* by routes/account.py): it asks the command lines for their version,     *)
(* reads the file in which the Gemini command line keeps who is logged in, *)
(* and asks the hub about the web page.  It only reads; the file and the   *)
(* programs belong to others, who change them while it looks.              *)
(*                                                                         *)
(* A change of the file changes what stat tells of it (inode, size or the  *)
(* time in nanoseconds).                                                   *)
(***************************************************************************)
EXTENDS Integers, Sequences, FiniteSets

CONSTANTS
    Asked,          \* PHASE1_STATUS_CAPABILITY_IDS that are known, in their order
    FirstTexts,     \* what the file may hold at first
    MaxFileChanges, \* bound on the changes of the file
    MaxObserved,    \* bound on the observations
    MaxReadErrors   \* bound on stat and read calls the system refuses

\* "absent": there is no file; "broken": no JSON, as a half written file; "binary": not UTF-8.
Texts == {"absent", "empty", "broken", "binary", "active", "inactive"}
Clis == {"claude", "codex", "gemini"}

ASSUME ObserverAssumption ==
    /\ Asked \in Seq(Clis \cup {"web"}) /\ FirstTexts \subseteq Texts
    /\ \A i, j \in DOMAIN Asked : Asked[i] = Asked[j] => i = j
    /\ {MaxFileChanges, MaxObserved, MaxReadErrors} \subseteq Nat

VARIABLES
    accounts,  \* google_accounts.json: [text, stat]
    looking,   \* the locals of an observation
    shown,     \* capability -> record of the last observation
    obsPast    \* history of the last observation: texts since its first stat and since its
               \* last, refusals, output that raised, commands that answered; all changes and the like

obsVars == <<accounts, looking, shown, obsPast>>

Status(login, health, snapshot) == [login |-> login, health |-> health, snapshot |-> snapshot]
Away == [at |-> "idle", next |-> 1, attempt |-> 1, stat |-> 0, text |-> "absent", health |-> "unknown"]
NewPast == [seen |-> {}, span |-> {}, refused |-> FALSE, raised |-> {}, answered |-> {}]
Nobody == [c \in {} |-> Status("unknown", "unknown", "ok")]

ObsInit ==
    /\ accounts \in [text : FirstTexts, stat : {0}] /\ looking = Away /\ shown = Nobody
    /\ obsPast = [last |-> NewPast, changes |-> 0, observed |-> 0, errors |-> 0]

\* Somebody logs in or out, or the file is half written.
FileChanges(text) ==
    /\ text # accounts.text /\ obsPast.changes < MaxFileChanges
    /\ accounts' = [text |-> text, stat |-> accounts.stat + 1]
    /\ obsPast' =
         [obsPast EXCEPT !.changes = obsPast.changes + 1,
                         !.last = IF looking.at \notin {"before", "read", "after"} THEN obsPast.last
                                  ELSE [obsPast.last EXCEPT !.seen = obsPast.last.seen \cup {text},
                                                            !.span = obsPast.last.span \cup {text}]]
    /\ UNCHANGED <<looking, shown>>

-----------------------------------------------------------------------------
(* observe_status.                                                         *)

Subject == Asked[looking.next]
Show(record) ==
    /\ shown' = [c \in DOMAIN shown \cup {Subject} |-> IF c = Subject THEN record ELSE shown[c]]
    /\ looking' = IF looking.next = Len(Asked) THEN Away ELSE [Away EXCEPT !.at = "next", !.next = looking.next + 1]
Go(local) == looking' = local /\ UNCHANGED shown

Observe ==
    /\ looking.at = "idle" /\ obsPast.observed < MaxObserved /\ Len(Asked) > 0
    /\ looking' = [Away EXCEPT !.at = "next"] /\ shown' = Nobody
    /\ obsPast' = [obsPast EXCEPT !.observed = obsPast.observed + 1, !.last = NewPast]
    /\ UNCHANGED accounts

\* A version is a first line of output with exit code 0; a program that is missing, too
\* slow or refused has none, and output that is no text raises out of the check.
AskVersion ==
    /\ looking.at = "next" /\ Subject \in Clis
    /\ \/ \E health \in {"ok", "fail"} :
            /\ IF Subject = "gemini" THEN Go([looking EXCEPT !.at = "before", !.health = health])
               ELSE Show(Status("unknown", health, "ok"))
            /\ obsPast' = [obsPast EXCEPT
                 !.last.answered = IF health = "ok" THEN obsPast.last.answered \cup {Subject} ELSE obsPast.last.answered,
                 !.last.seen = IF Subject = "gemini" THEN {accounts.text} ELSE obsPast.last.seen]
       \/ /\ Show(Status("unknown", "unknown", "racing"))
          /\ obsPast' = [obsPast EXCEPT !.last.raised = obsPast.last.raised \cup {Subject}]
    /\ UNCHANGED accounts

\* The hub's word about the page; no usable one is no word.
AskWeb ==
    /\ looking.at = "next" /\ Subject = "web"
    /\ \E r \in {Status("logged_in", "ok", "ok"), Status("logged_out", "fail", "ok"), Status("unknown", "unknown", "ok")} : Show(r)
    /\ UNCHANGED <<accounts, obsPast>>

-----------------------------------------------------------------------------
(* _observe_gemini_cli_snapshot: stat, read, stat, twice at most.          *)

Ends(login, snapshot) == Show(Status(login, looking.health, snapshot))
Retries == IF looking.attempt = 1 THEN Go([looking EXCEPT !.at = "before", !.attempt = 2]) ELSE Ends("unknown", "racing")

\* The system refuses a call.
IsRefused ==
    /\ obsPast.errors < MaxReadErrors
    /\ obsPast' = [obsPast EXCEPT !.errors = obsPast.errors + 1, !.last.refused = TRUE]

StatBefore ==
    /\ looking.at = "before"
    /\ \/ /\ IF accounts.text = "absent" THEN Ends("logged_out", "ok")
             ELSE Go([looking EXCEPT !.at = "read", !.stat = accounts.stat])
          /\ obsPast' = [obsPast EXCEPT !.last.span = {accounts.text}]
       \/ IsRefused /\ Ends("unknown", "racing")
    /\ UNCHANGED accounts

ReadText ==
    /\ looking.at = "read"
    /\ \/ /\ CASE accounts.text = "absent" -> Ends("unknown", "racing")
               [] accounts.text = "binary" -> Retries
               [] OTHER -> Go([looking EXCEPT !.at = "after", !.text = accounts.text])
          /\ UNCHANGED obsPast
       \/ IsRefused /\ Retries
    /\ UNCHANGED accounts

\* Faulty variant: the second stat is not compared with the first.
StatAfterUnchecked ==
    /\ looking.at = "after"
    /\ IF looking.text = "broken" THEN Retries
       ELSE Ends(IF looking.text = "active" THEN "logged_in" ELSE "logged_out", "ok")
    /\ UNCHANGED <<accounts, obsPast>>

StatAfter ==
    /\ looking.at = "after"
    /\ \/ /\ CASE accounts.text = "absent" -> Ends("unknown", "racing")
               [] accounts.text # "absent" /\ (accounts.stat # looking.stat \/ looking.text = "broken") -> Retries
               [] OTHER -> Ends(IF looking.text = "active" THEN "logged_in" ELSE "logged_out", "ok")
          /\ UNCHANGED obsPast
       \/ IsRefused /\ Retries
    /\ UNCHANGED accounts

ObsNext ==
    \/ Observe \/ AskVersion \/ AskWeb \/ StatBefore \/ ReadText \/ StatAfter
    \/ \E text \in Texts : FileChanges(text)

ObsSpec == ObsInit /\ [][ObsNext]_obsVars

-----------------------------------------------------------------------------
(* Properties.                                                             *)

\* What the panel says of the Gemini command line was so from the stat before to the
\* stat after: somebody logged in is never said of a file that changed in between, and
\* nobody only of a file that was not there, or was empty or without an account all the
\* time.  A file that rests and can be read is never called racing, and a program is
\* well only if it has answered in this observation.
StatusIsSettled ==
    /\ "gemini" \in DOMAIN shown =>
        LET r == shown["gemini"] past == obsPast.last IN
        /\ r.login = "logged_in" => past.span = {"active"}
        /\ r.login = "logged_out" => past.span \in {{"absent"}, {"empty"}, {"inactive"}}
        /\ "gemini" \notin past.raised /\ ~past.refused =>
             /\ past.seen = {"active"} => r.login = "logged_in"
             /\ past.seen \in {{"absent"}, {"empty"}, {"inactive"}} => r.login = "logged_out"
        /\ r.snapshot = "ok" <=> r.login # "unknown"
    /\ \A c \in DOMAIN shown \cap Clis : shown[c].health = "ok" <=> c \in obsPast.last.answered
=============================================================================
