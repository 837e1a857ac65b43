--------------------------- MODULE Alliance_proofs ---------------------------
(***************************************************************************)
(* Theorems about LessonLoop, for any server, command lines and bounds,    *)
(* about ProviderLoop, for any processes, plans and bounds, about          *)
(* DebateLoop, for any rounds and bounds, and about ModelRouting, for any  *)
(* cards and pools.  The modules share no state; each has an inductive     *)
(* invariant of its own.                                                   *)
(***************************************************************************)
EXTENDS LessonLoop, ProviderLoop, DebateLoop, ModelRouting, FiniteSetTheorems, WellFoundedInduction, TLAPS

-----------------------------------------------------------------------------
(* LessonLoop: types.                                                      *)

Lesson == [status : {"candidate", "adopted"}, run : Int, evidence : SUBSET Int,
           adoptions : SUBSET Int]

Maps == UNION {[ids -> Lesson] : ids \in SUBSET Lessons}

Doc == [lessons : Maps, adopted : Maps, runs : SUBSET Int]

File == [state : {"missing", "partial", "whole"}, doc : Doc]

Local == [pc : {"idle", "debate", "choose", "evidence", "reuse", "prompt", "artifact", "row",
                "load", "open", "write", "replace"},
          op : {"none", "reuse", "store", "adopt"}, id : Lessons, lesson : Lesson, doc : Doc,
          run : Int, matches : SUBSET Lessons, second : Int, disturbed : BOOLEAN,
          fd : {"none", "tmp", "store", "gone"}]

TypeOK ==
    /\ store \in File /\ tmp \in File /\ proc \in [Procs -> Local] /\ clock \in Nat

-----------------------------------------------------------------------------
(* The inductive invariant.                                                *)

\* Every run a lesson names, every reuse and every adoption of it is in the ledger lg and
\* among the artifacts ar.
GoodLesson(id, l, lg, ar) ==
    /\ l.status = "adopted" /\ id # "help" => l.adoptions # {}
    /\ \A s \in l.adoptions : AdoptRow(l.run, id, s) \in lg /\ <<id, s>> \in ar
    /\ \A run \in l.evidence : \E R : ExtractRow(run, R) \in lg /\ id \in R
    /\ id = "ingest" => l.evidence = {}
    /\ l.run # SeedRun => \E R : ExtractRow(l.run, R) \in lg

Agree(doc) ==
    \A id \in DOMAIN doc.lessons :
        doc.lessons[id].status = "adopted" =>
            id \in DOMAIN doc.adopted /\ doc.adopted[id] = doc.lessons[id]

GoodDoc(doc, lg, ar) ==
    /\ \A id \in DOMAIN doc.lessons : GoodLesson(id, doc.lessons[id], lg, ar)
    /\ \A id \in DOMAIN doc.adopted : GoodLesson(id, doc.adopted[id], lg, ar)
    /\ \A run \in doc.runs : run # SeedRun => \E R : ExtractRow(run, R) \in lg
    /\ Agree(doc)

Saving(l) == l.pc \in {"write", "replace"}

\* The lessons that a submission has still to reuse.
Reusing(l) == l.pc = "reuse" \/ (l.op = "reuse" /\ l.pc \in {"load", "open", "write", "replace"})

GoodLocal(l, lg, ar) ==
    /\ GoodDoc(l.doc, lg, ar)
    /\ l.pc \in {"prompt", "artifact", "row", "load"} => GoodLesson(l.id, l.lesson, lg, ar)
    /\ l.pc \in {"debate", "choose", "evidence", "reuse"} => l.op = "reuse"
    /\ l.pc \in {"prompt", "artifact", "row"} => l.op = "adopt"
    /\ l.pc = "row" => <<l.id, l.second>> \in ar
    /\ l.pc = "load" /\ l.op = "store" => l.id = "ingest"
    /\ l.pc = "evidence" \/ Reusing(l) => "ingest" \notin l.matches
    /\ Reusing(l) => \E R : ExtractRow(l.run, R) \in lg /\ l.matches \subseteq R

\* What an undisturbed call may rely on: its copy is the store's, and the temporary file
\* is its own.
Undisturbed(l, s, t) ==
    ~l.disturbed =>
        /\ l.pc \in {"prompt", "artifact", "row", "load"} /\ l.op # "store"
                /\ l.id \in DOMAIN Load(s).lessons =>
                Load(s).lessons[l.id].evidence \subseteq l.lesson.evidence
        /\ l.pc \in {"open", "write", "replace"} => Keeps(Load(s), l.doc)
        /\ l.pc = "write" => l.fd = "tmp" /\ t = Partial
        /\ l.pc = "replace" => t = Whole(l.doc)

DocsHold ==
    /\ GoodDoc(store.doc, ledger, artifacts)
    /\ GoodDoc(tmp.doc, ledger, artifacts)
    /\ \A p \in Procs : GoodLocal(proc[p], ledger, artifacts)

CallsHold ==
    /\ \A p \in Procs : Undisturbed(proc[p], store, tmp)
    /\ \A p, q \in Procs :
        p # q /\ Saving(proc[p]) /\ Saving(proc[q]) => proc[p].disturbed

IInv == TypeOK /\ DocsHold /\ CallsHold

-----------------------------------------------------------------------------
(* Documents.                                                              *)

\* What is in the ledger and among the artifacts stays there.
LEMMA MoreBacks ==
    ASSUME NEW lg, NEW ar, NEW lg2, NEW ar2, lg \subseteq lg2, ar \subseteq ar2
    PROVE  /\ \A id, l : GoodLesson(id, l, lg, ar) => GoodLesson(id, l, lg2, ar2)
           /\ \A doc : GoodDoc(doc, lg, ar) => GoodDoc(doc, lg2, ar2)
           /\ \A l : GoodLocal(l, lg, ar) => GoodLocal(l, lg2, ar2)
  <1>1. \A id, l : GoodLesson(id, l, lg, ar) => GoodLesson(id, l, lg2, ar2)
    BY DEF GoodLesson
  <1>2. \A doc : GoodDoc(doc, lg, ar) => GoodDoc(doc, lg2, ar2)
    BY <1>1 DEF GoodDoc
  <1>3. \A l : GoodLocal(l, lg, ar) => GoodLocal(l, lg2, ar2)
    BY <1>1, <1>2 DEF GoodLocal
  <1> QED
    BY <1>1, <1>2, <1>3

LEMMA LessonTypes ==
    /\ \A run \in Int : NewLesson(run) \in Lesson
    /\ SeedLesson \in Lesson /\ Default \in Doc
    /\ \A l \in Lesson : l.run \in Int /\ l.evidence \in SUBSET Int /\ l.adoptions \in SUBSET Int
    /\ \A l \in Lesson, n \in Int : Adopted(l, n) \in Lesson /\ Reused(l, n) \in Lesson
  <1>1. \A run \in Int : NewLesson(run) \in Lesson
    BY DEF NewLesson, Lesson
  <1>2. SeedLesson \in Lesson
    BY DEF SeedLesson, NewLesson, Lesson, SeedRun
  <1>3. Seeded \in Maps
    <2>1. Seeded \in [{"help"} -> Lesson] /\ {"help"} \in SUBSET Lessons
      BY <1>2 DEF Seeded, Lessons
    <2> QED
      BY <2>1 DEF Maps
  <1>4. Default \in Doc
    BY <1>3 DEF Default, Doc, SeedRun
  <1>5. \A l \in Lesson, n \in Int : Adopted(l, n) \in Lesson /\ Reused(l, n) \in Lesson
    BY DEF Adopted, Reused, Lesson
  <1> QED
    BY <1>1, <1>2, <1>4, <1>5 DEF Lesson

\* The seed is backed by nothing, and needs nothing.
LEMMA DefaultHolds == \A lg, ar : GoodDoc(Default, lg, ar)
  <1>1. /\ DOMAIN Default.lessons = {"help"} /\ DOMAIN Default.adopted = {"help"}
        /\ Default.lessons["help"] = SeedLesson /\ Default.adopted["help"] = SeedLesson
        /\ Default.runs = {SeedRun}
    BY DEF Default, Seeded
  <1>2. /\ SeedLesson.adoptions = {} /\ SeedLesson.evidence = {} /\ SeedLesson.run = SeedRun
    BY DEF SeedLesson, NewLesson
  <1>3. \A lg, ar : GoodLesson("help", SeedLesson, lg, ar)
    BY <1>2 DEF GoodLesson
  <1> QED
    BY <1>1, <1>3 DEF GoodDoc, Agree

LEMMA FileFacts ==
    /\ Missing \in File /\ Partial \in File
    /\ Missing.doc = Default /\ Partial.doc = Default /\ Missing.state # "whole"
    /\ \A doc \in Doc : Whole(doc) \in File /\ Whole(doc).doc = doc /\ Whole(doc).state = "whole"
    /\ \A f \in File : f.doc \in Doc /\ Load(f) \in Doc
    /\ \A f \in File, doc \in Doc : \A g \in Written(f, doc) : g \in File /\ g.doc \in {doc, Default}
    /\ \A doc \in Doc : Written(Partial, doc) = {Whole(doc)}
  BY LessonTypes DEF Missing, Partial, Whole, File, Load, Written

LEMMA MapFacts ==
    ASSUME NEW m \in Maps, NEW id \in Lessons, NEW l \in Lesson
    PROVE  /\ With(m, id, l) \in Maps /\ DOMAIN With(m, id, l) = DOMAIN m \cup {id}
           /\ \A i \in DOMAIN m : i \in Lessons /\ m[i] \in Lesson
           /\ \A i \in DOMAIN m \cup {id} : With(m, id, l)[i] = IF i = id THEN l ELSE m[i]
  <1>1. PICK ids \in SUBSET Lessons : m \in [ids -> Lesson]
    BY DEF Maps
  <1>2. With(m, id, l) \in [ids \cup {id} -> Lesson]
    BY <1>1 DEF With
  <1>3. ids \cup {id} \in SUBSET Lessons
    BY <1>1
  <1> QED
    BY <1>1, <1>2, <1>3 DEF Maps, With

\* A good lesson put into a good document leaves a good document, and one that has all
\* the old one had when the lesson has the evidence of the one it takes the place of.
LEMMA PutFacts ==
    ASSUME NEW doc \in Doc, NEW id \in Lessons, NEW l \in Lesson, NEW lg, NEW ar,
           GoodDoc(doc, lg, ar), GoodLesson(id, l, lg, ar)
    PROVE  /\ Put(doc, id, l) \in Doc /\ GoodDoc(Put(doc, id, l), lg, ar)
           /\ (id \in DOMAIN doc.lessons => doc.lessons[id].evidence \subseteq l.evidence) =>
                Keeps(doc, Put(doc, id, l))
  <1> DEFINE L == With(doc.lessons, id, l)
             A == IF l.status = "adopted" THEN With(doc.adopted, id, l) ELSE doc.adopted
             R == doc.runs \cup {l.run}
             new == Put(doc, id, l)
  <1>1. doc.lessons \in Maps /\ doc.adopted \in Maps /\ doc.runs \in SUBSET Int /\ l.run \in Int
    BY DEF Doc, Lesson
  <1>2. new.lessons = L /\ new.adopted = A /\ new.runs = R
    BY DEF Put
  <1>3. /\ L \in Maps /\ DOMAIN L = DOMAIN doc.lessons \cup {id}
        /\ \A i \in DOMAIN L : L[i] = IF i = id THEN l ELSE doc.lessons[i]
    <2> DEFINE m == doc.lessons
    <2> HIDE DEF m
    <2>1. m \in Maps
      BY <1>1 DEF m
    <2>2. /\ With(m, id, l) \in Maps /\ DOMAIN With(m, id, l) = DOMAIN m \cup {id}
          /\ \A i \in DOMAIN m \cup {id} : With(m, id, l)[i] = IF i = id THEN l ELSE m[i]
      <3>1. With(m, id, l) \in Maps /\ DOMAIN With(m, id, l) = DOMAIN m \cup {id}
        BY <2>1, MapFacts
      <3>2. \A i \in DOMAIN m \cup {id} : With(m, id, l)[i] = IF i = id THEN l ELSE m[i]
        BY DEF With
      <3> QED
        BY <3>1, <3>2
    <2> QED
      BY <2>2 DEF m
  <1>4. /\ A \in Maps /\ DOMAIN doc.adopted \subseteq DOMAIN A
        /\ \A i \in DOMAIN A :
             A[i] = IF i = id /\ l.status = "adopted" THEN l ELSE doc.adopted[i]
        /\ \A i \in DOMAIN A : i \notin DOMAIN doc.adopted => i = id /\ l.status = "adopted"
        /\ l.status = "adopted" => id \in DOMAIN A
    <2> DEFINE m == doc.adopted
    <2> HIDE DEF m
    <2>1. m \in Maps
      BY <1>1 DEF m
    <2>2. /\ With(m, id, l) \in Maps /\ DOMAIN With(m, id, l) = DOMAIN m \cup {id}
          /\ \A i \in DOMAIN m \cup {id} : With(m, id, l)[i] = IF i = id THEN l ELSE m[i]
      <3>1. With(m, id, l) \in Maps /\ DOMAIN With(m, id, l) = DOMAIN m \cup {id}
        BY <2>1, MapFacts
      <3>2. \A i \in DOMAIN m \cup {id} : With(m, id, l)[i] = IF i = id THEN l ELSE m[i]
        BY DEF With
      <3> QED
        BY <3>1, <3>2
    <2>3. A = IF l.status = "adopted" THEN With(m, id, l) ELSE m
      BY DEF m
    <2> HIDE DEF A
    <2>4. CASE l.status = "adopted"
      BY <2>1, <2>2, <2>3, <2>4 DEF m
    <2>5. CASE l.status # "adopted"
      BY <2>1, <2>3, <2>5 DEF m
    <2> QED
      BY <2>4, <2>5
  <1>5. new \in Doc
    BY <1>1, <1>3, <1>4 DEF Put, Doc
  <1> HIDE DEF L, A, new
  <1>6. GoodDoc(new, lg, ar)
    <2>1. \A i \in DOMAIN L : GoodLesson(i, L[i], lg, ar)
      BY <1>3 DEF GoodDoc
    <2>2. \A i \in DOMAIN A : GoodLesson(i, A[i], lg, ar)
      BY <1>4 DEF GoodDoc
    <2>3. \A run \in R : run # SeedRun => \E Q : ExtractRow(run, Q) \in lg
      BY DEF GoodDoc, GoodLesson
    <2>4. Agree(new)
      <3> SUFFICES ASSUME NEW i \in DOMAIN L, L[i].status = "adopted"
                   PROVE  i \in DOMAIN A /\ A[i] = L[i]
        BY <1>2 DEF Agree
      <3>1. CASE i = id
        BY <1>3, <1>4, <3>1
      <3>2. CASE i # id
        <4>1. i \in DOMAIN doc.lessons /\ L[i] = doc.lessons[i]
          BY <1>3, <3>2
        <4>2. i \in DOMAIN doc.adopted /\ doc.adopted[i] = doc.lessons[i]
          BY <4>1 DEF GoodDoc, Agree
        <4> QED
          BY <1>4, <3>2, <4>1, <4>2
      <3> QED
        BY <3>1, <3>2
    <2> QED
      BY <1>2, <2>1, <2>2, <2>3, <2>4 DEF GoodDoc
  <1>7. ASSUME id \in DOMAIN doc.lessons => doc.lessons[id].evidence \subseteq l.evidence
        PROVE  Keeps(doc, new)
    BY <1>2, <1>3, <1>4, <1>7 DEF Keeps
  <1> QED
    BY <1>5, <1>6, <1>7 DEF new

-----------------------------------------------------------------------------
(* Calls.                                                                  *)

LEMMA IdleFacts ==
    /\ Idle \in Local /\ Idle.pc = "idle" /\ ~Saving(Idle)
    /\ \A lg, ar : GoodLocal(Idle, lg, ar)
    /\ \A s, t : Undisturbed(Idle, s, t)
  <1>1. NewLesson(BaseRun) \in Lesson /\ Default \in Doc
    BY LessonTypes DEF BaseRun
  <1>2. Idle \in Local /\ Idle.pc = "idle" /\ Idle.op = "none" /\ Idle.doc = Default
    BY <1>1 DEF Idle, Local, Lessons, BaseRun
  <1> QED
    BY <1>2, DefaultHolds DEF GoodLocal, Undisturbed, Reusing, Saving

\* What disturbs a call changes nothing else of it.
Touched(l, f) == [l EXCEPT !.disturbed = TRUE, !.fd = f]

LEMMA TouchFacts ==
    ASSUME NEW l \in Local, NEW f \in {"none", "tmp", "store", "gone"},
           NEW m, m = Touched(l, f)
    PROVE  /\ m \in Local /\ m.disturbed = TRUE /\ m.pc = l.pc
           /\ \A lg, ar : GoodLocal(l, lg, ar) => GoodLocal(m, lg, ar)
           /\ \A s, t : Undisturbed(m, s, t)
  <1>1. /\ m \in Local /\ m.disturbed = TRUE /\ m.pc = l.pc /\ m.op = l.op /\ m.id = l.id
        /\ m.lesson = l.lesson /\ m.doc = l.doc /\ m.run = l.run /\ m.matches = l.matches
        /\ m.second = l.second
    BY DEF Local, Touched
  <1> QED
    BY <1>1 DEF GoodLocal, Reusing, Undisturbed

\* What the run of a submission goes on with: the next lesson, or its own.
LEMMA AfterEvidenceFacts ==
    ASSUME NEW p, NEW l \in Local, NEW lg, NEW ar, GoodDoc(l.doc, lg, ar),
           l.op = "reuse", l.matches = proc[p].matches, l.run = proc[p].run,
           "ingest" \notin l.matches,
           NEW R, ExtractRow(l.run, R) \in lg, l.matches \subseteq R
    PROVE  /\ AfterEvidence(l, p) \in Local /\ GoodLocal(AfterEvidence(l, p), lg, ar)
           /\ ~Saving(AfterEvidence(l, p))
           /\ \A s, t : Undisturbed(AfterEvidence(l, p), s, t)
  <1> DEFINE x == AfterEvidence(l, p)
             n == NewLesson(l.run)
  <1>1. l.run \in Int /\ n \in Lesson /\ "ingest" \in Lessons
    BY LessonTypes DEF Local, Lessons
  <1>2. CASE l.matches # {}
    <2>1. x = [l EXCEPT !.pc = "reuse"]
      BY <1>2 DEF AfterEvidence
    <2>2. /\ x \in Local /\ x.pc = "reuse" /\ x.op = l.op /\ x.doc = l.doc
          /\ x.run = l.run /\ x.matches = l.matches
      BY <2>1 DEF Local
    <2> HIDE DEF x
    <2> QED
      BY <2>2 DEF GoodLocal, Reusing, Saving, Undisturbed, x
  <1>3. CASE l.matches = {}
    <2>1. x = [l EXCEPT !.pc = "load", !.op = "store", !.id = "ingest", !.lesson = n]
      BY <1>3 DEF AfterEvidence
    <2>2. GoodLesson("ingest", n, lg, ar)
      BY DEF GoodLesson, NewLesson
    <2> HIDE DEF n
    <2>3. /\ x \in Local /\ x.pc = "load" /\ x.op = "store" /\ x.doc = l.doc
          /\ x.id = "ingest" /\ x.lesson = n
      BY <1>1, <2>1 DEF Local
    <2> HIDE DEF x
    <2> QED
      BY <2>2, <2>3 DEF GoodLocal, Reusing, Saving, Undisturbed, x
  <1> QED
    BY <1>2, <1>3

-----------------------------------------------------------------------------
(* Kinds of steps.                                                         *)

\* One that leaves the project's files alone.
LEMMA QuietStep ==
    ASSUME IInv, NEW p \in Procs, NEW x \in Local, proc' = [proc EXCEPT ![p] = x],
           UNCHANGED <<store, tmp>>, clock' \in Nat,
           ledger \subseteq ledger', artifacts \subseteq artifacts',
           GoodLocal(x, ledger', artifacts'), Undisturbed(x, store, tmp), ~Saving(x)
    PROVE  IInv'
  <1>1. /\ proc \in [Procs -> Local] /\ proc'[p] = x
        /\ \A q \in Procs : q # p => proc'[q] = proc[q]
    BY DEF IInv, TypeOK
  <1>2. TypeOK'
    BY <1>1 DEF IInv, TypeOK
  <1>3. DocsHold'
    <2>1. \A q \in Procs : GoodLocal(proc[q], ledger', artifacts')
      BY MoreBacks DEF IInv, DocsHold
    <2>2. GoodDoc(store.doc, ledger', artifacts') /\ GoodDoc(tmp.doc, ledger', artifacts')
      BY MoreBacks DEF IInv, DocsHold
    <2> QED
      BY <1>1, <2>1, <2>2 DEF DocsHold
  <1>4. CallsHold'
    BY <1>1 DEF IInv, CallsHold
  <1> QED
    BY <1>2, <1>3, <1>4 DEF IInv

\* One that writes in place, or renames, what all others then find changed.
LEMMA PublishStep ==
    ASSUME IInv, NEW p \in Procs, NEW x \in Local, NEW f \in File, NEW renamed \in BOOLEAN,
           Publish(p, x, f, renamed), tmp' \in File, UNCHANGED <<ledger, artifacts, clock>>,
           GoodDoc(f.doc, ledger, artifacts), GoodDoc(tmp'.doc, ledger, artifacts),
           GoodLocal(x, ledger, artifacts), Saving(x) => x.disturbed, Undisturbed(x, f, tmp')
    PROVE  IInv'
  <1>1. store' = f /\ proc'[p] = x /\ proc \in [Procs -> Local] /\ DOMAIN proc' = Procs
    BY DEF Publish, IInv, TypeOK
  <1>2. ASSUME NEW q \in Procs, q # p
        PROVE  /\ proc'[q] \in Local /\ GoodLocal(proc'[q], ledger, artifacts)
               /\ Undisturbed(proc'[q], f, tmp')
               /\ Saving(proc'[q]) => proc'[q].disturbed
    <2>1. proc[q] \in Local /\ GoodLocal(proc[q], ledger, artifacts)
      BY <1>1 DEF IInv, DocsHold
    <2>2. CASE proc[q].pc = "idle"
      BY <1>2, <2>1, <2>2 DEF Publish, Undisturbed, Saving
    <2>3. CASE proc[q].pc # "idle"
      <3> DEFINE old == proc[q].fd
                 fd == CASE ~renamed -> old [] old = "tmp" -> "store" [] old = "store" -> "gone"
                         [] OTHER -> old
      <3>1. fd \in {"none", "tmp", "store", "gone"}
        BY <2>1 DEF Local
      <3>2. proc'[q] = [proc[q] EXCEPT !.disturbed = TRUE, !.fd = fd]
        BY <1>2, <2>3 DEF Publish
      <3> HIDE DEF fd
      <3> DEFINE m == proc'[q]
      <3> HIDE DEF m
      <3>3. PICK l \in Local : l = proc[q]
        BY <2>1
      <3>4. m = Touched(l, fd)
        BY <3>2, <3>3 DEF m, Touched
      <3>5. /\ m \in Local /\ m.disturbed = TRUE
            /\ \A lg, ar : GoodLocal(l, lg, ar) => GoodLocal(m, lg, ar)
            /\ \A s, t : Undisturbed(m, s, t)
        BY <3>1, <3>4, TouchFacts
      <3> QED
        BY <2>1, <3>3, <3>5 DEF m
    <2> QED
      BY <2>2, <2>3
  <1>3. TypeOK'
    <2> DEFINE Moved(fd) == CASE ~renamed -> fd [] fd = "tmp" -> "store" [] fd = "store" -> "gone"
                              [] OTHER -> fd
               G(q) == IF q = p THEN x
                       ELSE IF proc[q].pc = "idle" THEN proc[q]
                       ELSE [proc[q] EXCEPT !.disturbed = TRUE, !.fd = Moved(@)]
    <2>1. proc' = [q \in Procs |-> G(q)]
      BY DEF Publish
    <2> HIDE DEF G
    <2>2. \A q \in Procs : G(q) = proc'[q] /\ proc'[q] \in Local
      BY <1>1, <1>2, <2>1
    <2> QED
      BY <1>1, <2>1, <2>2 DEF IInv, TypeOK
  <1> QED
    BY <1>1, <1>2, <1>3 DEF IInv, DocsHold, CallsHold

-----------------------------------------------------------------------------
(* Submitting.                                                             *)

LEMMA SubmitStep ==
    ASSUME IInv, NEW p \in Procs, Submit(p)
    PROVE  IInv'
  <1>1. PICK m \in {Lessons, {}} :
          Become(p, [Idle EXCEPT !.pc = "debate", !.op = "reuse", !.matches = m])
    BY DEF Submit
  <1> DEFINE x == [Idle EXCEPT !.pc = "debate", !.op = "reuse", !.matches = m]
  <1>2. x \in Local /\ x.pc = "debate" /\ x.op = "reuse" /\ x.doc = Default
    <2>1. Idle.doc = Default
      BY DEF Idle
    <2> QED
      BY <2>1, IdleFacts DEF Local
  <1>3. proc' = [proc EXCEPT ![p] = x]
    BY <1>1 DEF Become
  <1> HIDE DEF x
  <1>4. GoodLocal(x, ledger', artifacts') /\ Undisturbed(x, store, tmp) /\ ~Saving(x)
    BY <1>2, DefaultHolds DEF GoodLocal, Undisturbed, Saving, Reusing
  <1> QED
    BY <1>2, <1>3, <1>4, QuietStep DEF Submit, files, IInv, TypeOK

LEMMA DebateStep ==
    ASSUME IInv, NEW p \in Procs, Debate(p) \/ Choose(p)
    PROVE  IInv'
  <1>1. proc[p] \in Local /\ GoodDoc(proc[p].doc, ledger, artifacts) /\ proc[p].op = "reuse"
    BY DEF IInv, TypeOK, DocsHold, GoodLocal, Debate, Choose
  <1>2. PICK x \in Local : /\ proc' = [proc EXCEPT ![p] = x]
                           /\ x.doc = proc[p].doc /\ x.op = "reuse"
                           /\ x.pc = "choose" \/ (x.pc = "evidence" /\ "ingest" \notin x.matches)
    <2>1. CASE Debate(p)
      <3> DEFINE y == [proc[p] EXCEPT !.pc = "choose"]
      <3>1. y \in Local /\ y.doc = proc[p].doc /\ y.op = "reuse" /\ y.pc = "choose"
        BY <1>1 DEF Local
      <3>2. proc' = [proc EXCEPT ![p] = y]
        BY <2>1 DEF Debate, Become
      <3> HIDE DEF y
      <3> QED
        BY <3>1, <3>2
    <2>2. CASE Choose(p)
      <3> DEFINE m == (proc[p].matches \cap DOMAIN Load(store).lessons) \ {"ingest"}
      <3>1. PICK run \in UniqueRuns(Load(store)) :
              Become(p, [proc[p] EXCEPT !.pc = "evidence", !.run = run, !.matches = m])
        BY <2>2 DEF Choose
      <3>2. run \in Int
        BY <3>1 DEF UniqueRuns, BaseRun, IInv, TypeOK
      <3>3. m \in SUBSET Lessons /\ "ingest" \notin m
        BY <1>1 DEF Local
      <3> DEFINE y == [proc[p] EXCEPT !.pc = "evidence", !.run = run, !.matches = m]
      <3> HIDE DEF m
      <3>4. /\ y \in Local /\ y.doc = proc[p].doc /\ y.op = "reuse" /\ y.pc = "evidence"
            /\ y.matches = m
        BY <1>1, <3>2, <3>3 DEF Local
      <3>5. proc' = [proc EXCEPT ![p] = y]
        BY <3>1 DEF Become
      <3> HIDE DEF y
      <3> QED
        BY <3>3, <3>4, <3>5
    <2> QED
      BY <2>1, <2>2
  <1>3. /\ ledger \subseteq ledger' /\ artifacts' = artifacts /\ clock' = clock
        /\ UNCHANGED <<store, tmp>>
    BY DEF Debate, Choose, files
  <1>4. GoodDoc(x.doc, ledger', artifacts')
    BY <1>1, <1>2, <1>3, MoreBacks
  <1>5. GoodLocal(x, ledger', artifacts') /\ Undisturbed(x, store, tmp) /\ ~Saving(x)
    BY <1>2, <1>4 DEF GoodLocal, Undisturbed, Saving, Reusing
  <1> QED
    BY <1>2, <1>3, <1>5, QuietStep DEF IInv, TypeOK

LEMMA EvidenceStep ==
    ASSUME IInv, NEW p \in Procs, Evidence(p)
    PROVE  IInv'
  <1> DEFINE x == AfterEvidence(proc[p], p)
  <1>1. /\ proc[p] \in Local /\ GoodLocal(proc[p], ledger, artifacts) /\ proc[p].pc = "evidence"
        /\ clock \in Nat
    BY DEF IInv, TypeOK, DocsHold, Evidence
  <1>2. /\ ledger' = ledger \cup {ExtractRow(proc[p].run, proc[p].matches)}
        /\ proc' = [proc EXCEPT ![p] = x]
        /\ UNCHANGED <<store, tmp, artifacts, clock>>
    BY DEF Evidence, Become
  <1>3. GoodDoc(proc[p].doc, ledger', artifacts')
    <2>1. GoodDoc(proc[p].doc, ledger, artifacts) /\ ledger \subseteq ledger'
      BY <1>1, <1>2 DEF GoodLocal
    <2> QED
      BY <1>2, <2>1, MoreBacks
  <1>4. "ingest" \notin proc[p].matches
    BY <1>1 DEF GoodLocal
  <1>5. x \in Local /\ GoodLocal(x, ledger', artifacts') /\ ~Saving(x) /\ Undisturbed(x, store, tmp)
    <2> DEFINE l == proc[p]
               R == proc[p].matches
    <2>1. /\ l \in Local /\ l.op = "reuse" /\ l.matches = proc[p].matches
          /\ l.run = proc[p].run /\ "ingest" \notin l.matches
      BY <1>1, <1>4 DEF GoodLocal
    <2>2. ExtractRow(l.run, R) \in ledger' /\ l.matches \subseteq R
      BY <1>2
    <2>3. x = AfterEvidence(l, p) /\ GoodDoc(l.doc, ledger', artifacts')
      BY <1>3
    <2> HIDE DEF x, l, R
    <2> QED
      BY <2>1, <2>2, <2>3, AfterEvidenceFacts
  <1> HIDE DEF x
  <1> QED
    BY <1>1, <1>2, <1>5, QuietStep

\* A reuse takes the lesson from the store as it is and adds a run that is in the ledger.
LEMMA ReuseStep ==
    ASSUME IInv, NEW p \in Procs, Reuse(p)
    PROVE  IInv'
  <1> DEFINE doc == Load(store)
  <1>1. /\ proc[p] \in Local /\ GoodLocal(proc[p], ledger, artifacts) /\ proc[p].pc = "reuse"
        /\ UNCHANGED <<store, tmp, ledger, artifacts, clock>> /\ clock \in Nat
    BY DEF IInv, TypeOK, DocsHold, Reuse, files
  <1>2. doc \in Doc /\ GoodDoc(doc, ledger, artifacts)
    BY FileFacts, DefaultHolds DEF IInv, TypeOK, DocsHold, Load
  <1>3. PICK id \in proc[p].matches :
          \/ Become(p, Idle)
          \/ /\ id \in DOMAIN doc.lessons
             /\ Become(p, [proc[p] EXCEPT !.pc = "load", !.id = id,
                              !.matches = proc[p].matches \ {id}, !.disturbed = FALSE,
                              !.lesson = Reused(doc.lessons[id], proc[p].run)])
    BY DEF Reuse
  <1>4. CASE Become(p, Idle)
    <2>1. proc' = [proc EXCEPT ![p] = Idle]
      BY <1>4 DEF Become
    <2> QED
      BY <1>1, <2>1, IdleFacts, QuietStep
  <1> DEFINE old == doc.lessons[id]
             l == Reused(old, proc[p].run)
             m == proc[p].matches \ {id}
             x == [proc[p] EXCEPT !.pc = "load", !.id = id, !.matches = m, !.disturbed = FALSE,
                                  !.lesson = l]
  <1>5. CASE /\ id \in DOMAIN doc.lessons /\ Become(p, x)
    <2>1. id \in Lessons /\ id # "ingest" /\ proc[p].run \in Int /\ m \in SUBSET Lessons
      BY <1>1 DEF Local, GoodLocal, Reusing
    <2>2. PICK R : ExtractRow(proc[p].run, R) \in ledger /\ proc[p].matches \subseteq R
      BY <1>1 DEF GoodLocal, Reusing
    <2>3. old \in Lesson /\ GoodLesson(id, old, ledger, artifacts)
      <3>1. doc.lessons \in Maps
        BY <1>2 DEF Doc
      <3>2. PICK ids \in SUBSET Lessons : doc.lessons \in [ids -> Lesson]
        BY <3>1 DEF Maps
      <3> QED
        BY <1>2, <1>5, <3>2 DEF GoodDoc
    <2> HIDE DEF old, doc
    <2>4. l \in Lesson
      BY <2>1, <2>3, LessonTypes
    <2>5. /\ l.status = old.status /\ l.run = old.run /\ l.adoptions = old.adoptions
          /\ l.evidence = old.evidence \cup {proc[p].run}
      BY <2>3 DEF Reused, Lesson
    <2>6. GoodLesson(id, l, ledger, artifacts)
      BY <1>3, <2>1, <2>2, <2>3, <2>5 DEF GoodLesson
    <2> HIDE DEF l, m
    <2>7. /\ x \in Local /\ x.pc = "load" /\ x.id = id /\ x.lesson = l /\ x.doc = proc[p].doc
          /\ x.run = proc[p].run /\ x.matches = m /\ x.op = proc[p].op
      BY <1>1, <2>1, <2>4 DEF Local
    <2>8. proc' = [proc EXCEPT ![p] = x]
      BY <1>5 DEF Become
    <2> HIDE DEF x
    <2>9. GoodLocal(x, ledger', artifacts') /\ ~Saving(x)
      <3>1. m \subseteq proc[p].matches /\ "ingest" \notin proc[p].matches
        BY <1>1 DEF m, GoodLocal, Reusing
      <3>2. GoodDoc(x.doc, ledger, artifacts)
        BY <1>1, <2>7 DEF GoodLocal
      <3> QED
        BY <1>1, <2>2, <2>6, <2>7, <3>1, <3>2 DEF GoodLocal, Saving
    <2>10. Undisturbed(x, store, tmp)
      BY <2>5, <2>7 DEF Undisturbed, doc, old
    <2> QED
      BY <1>1, <2>7, <2>8, <2>9, <2>10, QuietStep
  <1> QED
    BY <1>3, <1>4, <1>5

-----------------------------------------------------------------------------
(* Adopting.                                                               *)

LEMMA FindStep ==
    ASSUME IInv, NEW p \in Procs, Find(p)
    PROVE  IInv'
  <1> DEFINE doc == Load(store)
  <1>1. doc \in Doc /\ GoodDoc(doc, ledger, artifacts) /\ clock \in Nat
    BY FileFacts, DefaultHolds DEF IInv, TypeOK, DocsHold, Load
  <1>2. PICK id \in DOMAIN doc.lessons, pc \in {"artifact", "prompt"} :
          Become(p, [Idle EXCEPT !.pc = pc, !.op = "adopt", !.id = id,
                                 !.lesson = doc.lessons[id]])
    BY DEF Find
  <1> DEFINE l == doc.lessons[id]
             x == [Idle EXCEPT !.pc = pc, !.op = "adopt", !.id = id, !.lesson = l]
  <1>3. id \in Lessons /\ l \in Lesson /\ GoodLesson(id, l, ledger, artifacts)
    <2>1. doc.lessons \in Maps
      BY <1>1 DEF Doc
    <2>2. PICK ids \in SUBSET Lessons : doc.lessons \in [ids -> Lesson]
      BY <2>1 DEF Maps
    <2> QED
      BY <1>1, <2>2 DEF GoodDoc
  <1>4. proc' = [proc EXCEPT ![p] = x] /\ UNCHANGED <<store, tmp, ledger, artifacts, clock>>
    BY <1>2 DEF Find, Become, files
  <1> HIDE DEF l, doc
  <1>5. x \in Local /\ x.pc = pc /\ x.op = "adopt" /\ x.id = id /\ x.lesson = l /\ x.doc = Default
    <2>1. Idle.doc = Default
      BY DEF Idle
    <2> QED
      BY <1>3, <2>1, IdleFacts DEF Local
  <1> HIDE DEF x
  <1>6. GoodLocal(x, ledger', artifacts') /\ ~Saving(x)
    BY <1>3, <1>4, <1>5, DefaultHolds DEF GoodLocal, Reusing, Saving
  <1>7. Undisturbed(x, store, tmp)
    BY <1>5 DEF Undisturbed, l, doc
  <1> QED
    BY <1>1, <1>4, <1>5, <1>6, <1>7, QuietStep

\* The artifact, then the row, then the lesson that names both.
LEMMA AdoptStep ==
    ASSUME IInv, NEW p \in Procs, Prompt(p) \/ Artifact(p) \/ Row(p)
    PROVE  IInv'
  <1>1. /\ proc[p] \in Local /\ GoodLocal(proc[p], ledger, artifacts)
        /\ Undisturbed(proc[p], store, tmp) /\ clock \in Nat
    BY DEF IInv, TypeOK, DocsHold, CallsHold
  <1>2. GoodDoc(proc[p].doc, ledger, artifacts)
    BY <1>1 DEF GoodLocal
  <1>3. CASE Prompt(p)
    <2>1. UNCHANGED <<store, tmp, ledger, artifacts, clock>> /\ proc[p].pc = "prompt"
      BY <1>3 DEF Prompt, files
    <2>2. CASE Become(p, Idle)
      <3>1. proc' = [proc EXCEPT ![p] = Idle]
        BY <2>2 DEF Become
      <3> QED
        BY <1>1, <2>1, <3>1, IdleFacts, QuietStep
    <2> DEFINE x == [proc[p] EXCEPT !.pc = "artifact"]
    <2>3. CASE Become(p, x)
      <3>1. /\ x \in Local /\ x.pc = "artifact" /\ x.op = proc[p].op /\ x.id = proc[p].id
            /\ x.lesson = proc[p].lesson /\ x.doc = proc[p].doc /\ x.disturbed = proc[p].disturbed
        BY <1>1 DEF Local
      <3>2. proc' = [proc EXCEPT ![p] = x]
        BY <2>3 DEF Become
      <3> HIDE DEF x
      <3>3. GoodLocal(x, ledger', artifacts') /\ Undisturbed(x, store, tmp) /\ ~Saving(x)
        BY <1>1, <1>2, <2>1, <3>1 DEF GoodLocal, Undisturbed, Reusing, Saving
      <3> QED
        BY <1>1, <2>1, <3>1, <3>2, <3>3, QuietStep
    <2> QED
      BY <1>3, <2>2, <2>3 DEF Prompt
  <1>4. CASE Artifact(p)
    <2> DEFINE x == [proc[p] EXCEPT !.pc = "row", !.second = clock]
    <2>1. /\ x \in Local /\ x.pc = "row" /\ x.op = proc[p].op /\ x.id = proc[p].id
          /\ x.lesson = proc[p].lesson /\ x.doc = proc[p].doc /\ x.disturbed = proc[p].disturbed
          /\ x.second = clock
      <3>1. clock \in Int
        BY <1>1
      <3> QED
        BY <1>1, <3>1 DEF Local
    <2>2. /\ UNCHANGED <<store, tmp, ledger, clock>> /\ proc[p].pc = "artifact"
          /\ artifacts' = artifacts \cup {<<proc[p].id, clock>>}
          /\ proc' = [proc EXCEPT ![p] = x]
      BY <1>4 DEF Artifact, Become
    <2>3. /\ GoodDoc(proc[p].doc, ledger', artifacts')
          /\ GoodLesson(proc[p].id, proc[p].lesson, ledger', artifacts')
      BY <1>1, <1>2, <2>2, MoreBacks DEF GoodLocal
    <2> HIDE DEF x
    <2>4. GoodLocal(x, ledger', artifacts') /\ Undisturbed(x, store, tmp) /\ ~Saving(x)
      BY <1>1, <2>1, <2>2, <2>3 DEF GoodLocal, Undisturbed, Reusing, Saving
    <2> QED
      BY <1>1, <2>1, <2>2, <2>4, QuietStep
  <1>5. CASE Row(p)
    <2> DEFINE old == proc[p].lesson
               n == proc[p].second
               l == Adopted(old, n)
               x == [proc[p] EXCEPT !.pc = "load", !.lesson = l]
    <2>1. old \in Lesson /\ n \in Int /\ l \in Lesson
      BY <1>1, LessonTypes DEF Local
    <2>2. /\ l.status = "adopted" /\ l.run = old.run /\ l.adoptions = old.adoptions \cup {n}
          /\ l.evidence = old.evidence
      BY <2>1 DEF Adopted, Lesson
    <2>3. /\ UNCHANGED <<store, tmp, artifacts, clock>> /\ proc[p].pc = "row"
          /\ ledger' = ledger \cup {AdoptRow(old.run, proc[p].id, n)}
          /\ proc' = [proc EXCEPT ![p] = x]
      BY <1>5 DEF Row, Become
    <2>4. GoodLesson(proc[p].id, l, ledger', artifacts')
      <3>1. GoodLesson(proc[p].id, old, ledger, artifacts) /\ <<proc[p].id, n>> \in artifacts
        BY <1>1, <2>3 DEF GoodLocal
      <3>2. GoodLesson(proc[p].id, old, ledger', artifacts')
        BY <2>3, <3>1, MoreBacks
      <3> QED
        BY <2>2, <2>3, <3>1, <3>2 DEF GoodLesson
    <2> HIDE DEF l
    <2>5. /\ x \in Local /\ x.pc = "load" /\ x.op = proc[p].op /\ x.id = proc[p].id
          /\ x.lesson = l /\ x.doc = proc[p].doc /\ x.disturbed = proc[p].disturbed
          /\ x.run = proc[p].run /\ x.matches = proc[p].matches
      BY <1>1, <2>1 DEF Local
    <2>6. GoodDoc(proc[p].doc, ledger', artifacts')
      BY <1>2, <2>3, MoreBacks
    <2>7. proc[p].op = "adopt"
      BY <1>1, <2>3 DEF GoodLocal
    <2> HIDE DEF x
    <2>8. GoodLocal(x, ledger', artifacts') /\ Undisturbed(x, store, tmp) /\ ~Saving(x)
      BY <1>1, <2>2, <2>3, <2>4, <2>5, <2>6, <2>7 DEF GoodLocal, Undisturbed, Reusing, Saving
    <2> QED
      BY <1>1, <2>3, <2>5, <2>8, QuietStep
  <1> QED
    BY <1>3, <1>4, <1>5

-----------------------------------------------------------------------------
(* Saving.                                                                 *)

LEMMA LoadStep ==
    ASSUME IInv, NEW p \in Procs, LoadDoc(p)
    PROVE  IInv'
  <1> DEFINE old == Load(store)
             new == Put(old, proc[p].id, proc[p].lesson)
             b == IF proc[p].op = "store" THEN FALSE ELSE proc[p].disturbed
             x == [proc[p] EXCEPT !.pc = "open", !.doc = new, !.disturbed = b]
  <1>1. /\ proc[p] \in Local /\ GoodLocal(proc[p], ledger, artifacts)
        /\ Undisturbed(proc[p], store, tmp) /\ clock \in Nat /\ proc[p].pc = "load"
    BY DEF IInv, TypeOK, DocsHold, CallsHold, LoadDoc
  <1>2. /\ old \in Doc /\ GoodDoc(old, ledger, artifacts)
        /\ proc[p].id \in Lessons /\ proc[p].lesson \in Lesson
        /\ GoodLesson(proc[p].id, proc[p].lesson, ledger, artifacts)
    BY <1>1, FileFacts, DefaultHolds DEF IInv, TypeOK, DocsHold, Load, GoodLocal, Local
  <1>3. /\ proc' = [proc EXCEPT ![p] = x]
        /\ UNCHANGED <<store, tmp, ledger, artifacts, clock>>
    BY DEF LoadDoc, Become, files
  <1> HIDE DEF old
  <1>4. /\ new \in Doc /\ GoodDoc(new, ledger, artifacts)
        /\ (proc[p].id \in DOMAIN old.lessons =>
              old.lessons[proc[p].id].evidence \subseteq proc[p].lesson.evidence) => Keeps(old, new)
    BY <1>2, PutFacts
  <1> HIDE DEF new
  <1>5. b = TRUE \/ Keeps(old, new)
    <2>1. CASE proc[p].op = "store"
      <3>1. proc[p].id \in DOMAIN old.lessons => old.lessons[proc[p].id].evidence = {}
        BY <1>1, <1>2, <2>1 DEF GoodDoc, GoodLesson, GoodLocal
      <3> QED
        BY <1>4, <3>1
    <2>2. CASE proc[p].op # "store" /\ proc[p].disturbed
      BY <1>1, <2>2 DEF Local
    <2>3. CASE proc[p].op # "store" /\ ~proc[p].disturbed
      BY <1>1, <1>4, <2>3 DEF Undisturbed, old
    <2> QED
      BY <2>1, <2>2, <2>3
  <1>6. b \in BOOLEAN
    BY <1>1 DEF Local
  <1> HIDE DEF b
  <1>7. /\ x \in Local /\ x.pc = "open" /\ x.doc = new /\ x.disturbed = b
        /\ x.op = proc[p].op /\ x.run = proc[p].run /\ x.matches = proc[p].matches
    BY <1>1, <1>4, <1>6 DEF Local
  <1> HIDE DEF x
  <1>8. GoodLocal(x, ledger', artifacts') /\ ~Saving(x)
    BY <1>1, <1>3, <1>4, <1>7 DEF GoodLocal, Reusing, Saving
  <1>9. Undisturbed(x, store, tmp)
    BY <1>5, <1>7 DEF Undisturbed, old
  <1> QED
    BY <1>1, <1>3, <1>7, <1>8, <1>9, QuietStep

\* Who opens the temporary file takes it from all who have it open.
LEMMA OpenStep ==
    ASSUME IInv, NEW p \in Procs, Open(p)
    PROVE  IInv'
  <1> DEFINE others == {q \in Procs \ {p} : proc[q].pc \in {"write", "replace"}}
             b == proc[p].disturbed \/ others # {}
             x == [proc[p] EXCEPT !.pc = "write", !.fd = "tmp", !.disturbed = b]
             Marked(q) == [proc[q] EXCEPT !.disturbed = TRUE]
             G(q) == IF q = p THEN x ELSE IF q \in others THEN Marked(q) ELSE proc[q]
  <1>1. /\ proc[p] \in Local /\ GoodLocal(proc[p], ledger, artifacts) /\ proc[p].pc = "open"
        /\ Undisturbed(proc[p], store, tmp)
        /\ tmp' = Partial /\ UNCHANGED <<store, ledger, artifacts, clock>>
    BY DEF IInv, TypeOK, DocsHold, CallsHold, Open
  <1>2. proc' = [q \in Procs |-> G(q)]
    BY DEF Open
  <1> HIDE DEF others
  <1>3. b \in BOOLEAN
    BY <1>1 DEF Local
  <1> HIDE DEF b
  <1>4. /\ x \in Local /\ x.pc = "write" /\ x.fd = "tmp" /\ x.doc = proc[p].doc
        /\ x.disturbed = b /\ x.op = proc[p].op /\ x.run = proc[p].run
        /\ x.matches = proc[p].matches
    BY <1>1, <1>3 DEF Local
  <1> HIDE DEF x
  <1>5. GoodLocal(x, ledger, artifacts) /\ Undisturbed(x, store, Partial)
    <2>1. ~b => ~proc[p].disturbed
      BY DEF b
    <2> QED
      BY <1>1, <1>4, <2>1 DEF GoodLocal, Undisturbed, Reusing
  <1>6. ASSUME NEW q \in others
        PROVE  /\ Marked(q) \in Local /\ Marked(q).disturbed = TRUE
               /\ GoodLocal(Marked(q), ledger, artifacts)
               /\ \A s, t : Undisturbed(Marked(q), s, t)
    <2>1. proc[q] \in Local /\ GoodLocal(proc[q], ledger, artifacts)
      BY <1>6 DEF others, IInv, TypeOK, DocsHold
    <2>2. PICK f \in {"none", "tmp", "store", "gone"} : f = proc[q].fd
      BY <2>1 DEF Local
    <2>3. Marked(q) = Touched(proc[q], f)
      BY <2>1, <2>2 DEF Touched, Local
    <2> HIDE DEF Marked
    <2>4. /\ Marked(q) \in Local /\ Marked(q).disturbed = TRUE
          /\ \A lg, ar : GoodLocal(proc[q], lg, ar) => GoodLocal(Marked(q), lg, ar)
          /\ \A s, t : Undisturbed(Marked(q), s, t)
      BY <2>1, <2>3, TouchFacts
    <2> QED
      BY <2>1, <2>4
  <1> HIDE DEF Marked
  <1>7. ASSUME NEW q \in Procs, q # p, q \notin others
        PROVE  /\ proc[q] \in Local /\ GoodLocal(proc[q], ledger, artifacts)
               /\ Undisturbed(proc[q], store, Partial) /\ ~Saving(proc[q])
    <2>1. ~Saving(proc[q])
      BY <1>7 DEF others, Saving
    <2>2. Undisturbed(proc[q], store, tmp)
      BY DEF IInv, CallsHold
    <2> QED
      BY <2>1, <2>2 DEF IInv, TypeOK, DocsHold, Undisturbed, Saving
  <1>8. ASSUME NEW q \in Procs
        PROVE  /\ proc'[q] = G(q) /\ proc'[q] \in Local /\ GoodLocal(proc'[q], ledger, artifacts)
               /\ Undisturbed(proc'[q], store, Partial)
    BY <1>2, <1>4, <1>5, <1>6, <1>7
  <1>9. TypeOK'
    <2>1. \A q \in Procs : G(q) \in Local
      BY <1>8
    <2> HIDE DEF G
    <2> QED
      BY <1>1, <1>2, <2>1, FileFacts DEF IInv, TypeOK
  <1>10. DocsHold'
    BY <1>1, <1>8, FileFacts, DefaultHolds DEF IInv, DocsHold
  <1>11. CallsHold'
    <2>1. ASSUME NEW q \in Procs, NEW r \in Procs, q # r, Saving(proc'[q]), Saving(proc'[r])
          PROVE  proc'[q].disturbed
      <3>1. CASE q = p
        <4>1. r \in others
          BY <1>7, <1>8, <2>1, <3>1
        <4> QED
          BY <1>4, <1>8, <3>1, <4>1 DEF b
      <3>2. CASE q # p
        <4>1. q \in others
          BY <1>7, <1>8, <2>1, <3>2
        <4> QED
          BY <1>6, <1>8, <3>2, <4>1
      <3> QED
        BY <3>1, <3>2
    <2> QED
      BY <1>1, <1>8, <2>1 DEF CallsHold
  <1> QED
    BY <1>9, <1>10, <1>11 DEF IInv

\* Who writes to it undisturbed is alone, and leaves all of its document there.
LEMMA WriteStep ==
    ASSUME IInv, NEW p \in Procs, Write(p)
    PROVE  IInv'
  <1> DEFINE doc == proc[p].doc
             x == [proc[p] EXCEPT !.pc = "replace", !.fd = "none"]
  <1>1. /\ proc[p] \in Local /\ GoodLocal(proc[p], ledger, artifacts) /\ proc[p].pc = "write"
        /\ Undisturbed(proc[p], store, tmp) /\ store \in File /\ tmp \in File
        /\ UNCHANGED <<ledger, artifacts, clock>> /\ proc \in [Procs -> Local]
    BY DEF IInv, TypeOK, DocsHold, CallsHold, Write
  <1>2. doc \in Doc /\ GoodDoc(doc, ledger, artifacts)
    BY <1>1 DEF Local, GoodLocal
  <1>3. /\ x \in Local /\ x.pc = "replace" /\ x.doc = doc /\ x.op = proc[p].op
        /\ x.run = proc[p].run /\ x.matches = proc[p].matches
        /\ x.disturbed = proc[p].disturbed
    BY <1>1 DEF Local
  <1>4. GoodLocal(x, ledger, artifacts)
    BY <1>1, <1>3 DEF GoodLocal, Reusing
  <1>5. \/ proc[p].fd = "tmp" /\ tmp' \in Written(tmp, doc) /\ Become(p, x) /\ UNCHANGED store
        \/ proc[p].fd = "store" /\ (\E f \in Written(store, doc) : Publish(p, x, f, FALSE))
             /\ UNCHANGED tmp
        \/ proc[p].fd \notin {"tmp", "store"} /\ Become(p, x) /\ UNCHANGED <<store, tmp>>
    <2>1. CASE proc[p].fd = "tmp"
      BY <2>1 DEF Write
    <2>2. CASE proc[p].fd = "store"
      BY <2>2 DEF Write
    <2>3. CASE proc[p].fd \notin {"tmp", "store"}
      BY <2>3 DEF Write
    <2> QED
      BY <2>1, <2>2, <2>3
  <1> HIDE DEF x, doc
  <1>6. ASSUME Become(p, x), store' = store, tmp' \in File, GoodDoc(tmp'.doc, ledger, artifacts),
               Undisturbed(x, store, tmp'), tmp' = tmp \/ proc[p].fd = "tmp"
        PROVE  IInv'
    <2>1. proc'[p] = x /\ \A q \in Procs : q # p => proc'[q] = proc[q]
      BY <1>1, <1>6 DEF Become
    <2>2. \A q \in Procs : Undisturbed(proc'[q], store, tmp')
      <3> SUFFICES ASSUME NEW q \in Procs, q # p PROVE Undisturbed(proc[q], store, tmp')
        BY <1>6, <2>1
      <3>1. Undisturbed(proc[q], store, tmp) /\ (Saving(proc[q]) => proc[q].disturbed)
        BY <1>1 DEF IInv, CallsHold, Saving
      <3> QED
        BY <3>1 DEF Undisturbed, Saving
    <2>3. TypeOK'
      BY <1>1, <1>3, <1>6 DEF IInv, TypeOK, Become
    <2>4. DocsHold'
      BY <1>1, <1>4, <1>6, <2>1 DEF IInv, DocsHold
    <2>5. CallsHold'
      <3>1. Saving(proc[p]) /\ x.disturbed = proc[p].disturbed
        BY <1>1, <1>3 DEF Saving
      <3> QED
        BY <1>6, <2>1, <2>2, <3>1 DEF IInv, CallsHold
    <2> QED
      BY <2>3, <2>4, <2>5 DEF IInv
  <1>7. CASE proc[p].fd = "tmp" /\ tmp' \in Written(tmp, doc) /\ Become(p, x) /\ UNCHANGED store
    <2>1. tmp' \in File /\ tmp'.doc \in {doc, Default}
      BY <1>1, <1>2, <1>7, FileFacts
    <2>2. GoodDoc(tmp'.doc, ledger, artifacts)
      BY <1>2, <2>1, DefaultHolds
    <2>3. Undisturbed(x, store, tmp')
      BY <1>1, <1>2, <1>3, <1>7, FileFacts DEF Undisturbed, doc
    <2> QED
      BY <1>6, <1>7, <2>1, <2>2, <2>3
  <1>8. CASE proc[p].fd = "store" /\ (\E f \in Written(store, doc) : Publish(p, x, f, FALSE))
               /\ UNCHANGED tmp
    <2>1. PICK f \in Written(store, doc) : Publish(p, x, f, FALSE)
      BY <1>8
    <2>2. f \in File /\ f.doc \in {doc, Default} /\ FALSE \in BOOLEAN
      BY <1>1, <1>2, <2>1, FileFacts
    <2>3. GoodDoc(f.doc, ledger, artifacts) /\ tmp' \in File /\ GoodDoc(tmp'.doc, ledger, artifacts)
      BY <1>1, <1>2, <1>8, <2>2, DefaultHolds DEF IInv, DocsHold
    <2>4. x.disturbed
      BY <1>1, <1>3, <1>8 DEF Undisturbed
    <2>5. Undisturbed(x, f, tmp')
      BY <2>4 DEF Undisturbed
    <2> QED
      BY <1>1, <1>3, <1>4, <2>1, <2>2, <2>3, <2>4, <2>5, PublishStep
  <1>9. CASE proc[p].fd \notin {"tmp", "store"} /\ Become(p, x) /\ UNCHANGED <<store, tmp>>
    <2>1. Undisturbed(x, store, tmp')
      BY <1>1, <1>3, <1>9 DEF Undisturbed
    <2> QED
      BY <1>1, <1>6, <1>9, <2>1 DEF IInv, DocsHold
  <1> QED
    BY <1>5, <1>7, <1>8, <1>9

LEMMA ReplaceStep ==
    ASSUME IInv, NEW p \in Procs, Replace(p)
    PROVE  IInv'
  <1> DEFINE x == AfterSave(p)
             l == [proc[p] EXCEPT !.doc = Default, !.fd = "none"]
  <1>1. /\ proc[p] \in Local /\ GoodLocal(proc[p], ledger, artifacts) /\ proc[p].pc = "replace"
        /\ UNCHANGED <<ledger, artifacts, clock>> /\ clock \in Nat
        /\ tmp \in File /\ GoodDoc(tmp.doc, ledger, artifacts)
    BY DEF IInv, TypeOK, DocsHold, Replace
  <1>2. CASE tmp.state = "missing"
    <2>1. proc' = [proc EXCEPT ![p] = Idle] /\ UNCHANGED <<store, tmp>>
      BY <1>2 DEF Replace, Become
    <2> QED
      BY <1>1, <2>1, IdleFacts, QuietStep
  <1>3. CASE tmp.state # "missing"
    <2>1. Publish(p, x, tmp, TRUE) /\ tmp' = Missing /\ TRUE \in BOOLEAN
      BY <1>3 DEF Replace
    <2>2. /\ x \in Local /\ GoodLocal(x, ledger, artifacts) /\ ~Saving(x)
          /\ \A s, t : Undisturbed(x, s, t)
      <3>1. CASE proc[p].op # "reuse"
        BY <3>1, IdleFacts DEF AfterSave
      <3>2. CASE proc[p].op = "reuse"
        <4>1. /\ l \in Local /\ l.op = "reuse" /\ l.matches = proc[p].matches /\ l.run = proc[p].run
              /\ l.doc = Default
          BY <1>1, <3>2, LessonTypes DEF Local
        <4>2. Reusing(proc[p])
          BY <1>1, <3>2 DEF Reusing
        <4>3. PICK R : ExtractRow(proc[p].run, R) \in ledger /\ proc[p].matches \subseteq R
          BY <1>1, <4>2 DEF GoodLocal
        <4>4. "ingest" \notin l.matches
          BY <1>1, <4>1, <4>2 DEF GoodLocal
        <4>5. x = AfterEvidence(l, p)
          BY <3>2 DEF AfterSave
        <4> HIDE DEF l, x
        <4>6. GoodDoc(l.doc, ledger, artifacts)
          BY <4>1, DefaultHolds
        <4> QED
          BY <4>1, <4>3, <4>4, <4>5, <4>6, AfterEvidenceFacts
      <3> QED
        BY <3>1, <3>2
    <2> HIDE DEF x
    <2>3. tmp' \in File /\ GoodDoc(tmp'.doc, ledger, artifacts)
      BY <2>1, FileFacts, DefaultHolds
    <2> QED
      BY <1>1, <2>1, <2>2, <2>3, PublishStep
  <1> QED
    BY <1>2, <1>3

-----------------------------------------------------------------------------
(* The invariant.                                                          *)

LEMMA DieStep ==
    ASSUME IInv, NEW p \in Procs, Die(p)
    PROVE  IInv'
  <1>1. proc' = [proc EXCEPT ![p] = Idle] /\ UNCHANGED <<store, tmp, ledger, artifacts, clock>>
    BY DEF Die, Become, files
  <1>2. clock \in Nat
    BY DEF IInv, TypeOK
  <1> QED
    BY <1>1, <1>2, IdleFacts, QuietStep

LEMMA TickStep == IInv /\ Tick => IInv'
  BY DEF Tick, files, IInv, TypeOK, DocsHold, CallsHold

LEMMA InitInvariant == Init => IInv
  <1> SUFFICES ASSUME Init PROVE IInv
    OBVIOUS
  <1>1. TypeOK
    BY FileFacts, IdleFacts DEF Init, TypeOK
  <1>2. DocsHold
    BY FileFacts, IdleFacts, DefaultHolds DEF Init, DocsHold
  <1>3. CallsHold
    BY IdleFacts DEF Init, CallsHold
  <1> QED
    BY <1>1, <1>2, <1>3 DEF IInv

LEMMA NextInvariant == IInv /\ [Next]_vars => IInv'
  <1>1. IInv /\ UNCHANGED vars => IInv'
    BY DEF vars, IInv, TypeOK, DocsHold, CallsHold
  <1> QED
    BY <1>1, TickStep, SubmitStep, DebateStep, EvidenceStep, ReuseStep, FindStep, AdoptStep,
       LoadStep, OpenStep, WriteStep, ReplaceStep, DieStep DEF Next, Step

LEMMA Invariance == Spec => []IInv
  BY InitInvariant, NextInvariant, PTL DEF Spec

-----------------------------------------------------------------------------
(* Theorems.                                                               *)

\* Whoever is killed and whoever else is saving, the project file shows no adoption, no
\* evidence and no run that the ledger and the artifacts do not back.
THEOREM ProjectFileIsBacked == Spec => []StoreHolds
  <1>1. IInv => StoreHolds
    <2> SUFFICES ASSUME IInv PROVE StoreHolds
      OBVIOUS
    <2>1. GoodDoc(store.doc, ledger, artifacts)
      BY DEF IInv, DocsHold
    <2>2. AdoptionIsBacked
      BY <2>1 DEF AdoptionIsBacked, GoodDoc, GoodLesson
    <2>3. \A run, R : /\ ExtractRow(run, R).kind = "extract" /\ ExtractRow(run, R).run = run
                      /\ ExtractRow(run, R).reused = R
      BY DEF ExtractRow
    <2>4. EvidenceIsReal
      BY <2>1, <2>3 DEF EvidenceIsReal, GoodDoc, GoodLesson
    <2>5. ListsAgree
      BY <2>1 DEF ListsAgree, GoodDoc, Agree
    <2> QED
      BY <2>2, <2>4, <2>5 DEF StoreHolds
  <1> QED
    BY <1>1, Invariance, PTL

\* A save that nobody disturbs leaves a readable file with all the old one had, whatever
\* the processes that died before it have left in the temporary file.
THEOREM UndisturbedSavesForgetNothing == Spec => NothingForgotten
  <1> DEFINE A == \A p \in Procs :
                    store' # store /\ proc[p] # proc'[p]
                    /\ proc[p].pc \in {"write", "replace"} /\ ~proc[p].disturbed =>
                        store'.state = "whole" /\ Keeps(Load(store), store'.doc)
  <1>1. IInv /\ [Next]_vars => [A]_vars
    <2> SUFFICES ASSUME IInv, Next, NEW p \in Procs, store' # store, proc[p] # proc'[p],
                        proc[p].pc \in {"write", "replace"}, ~proc[p].disturbed
                 PROVE  store'.state = "whole" /\ Keeps(Load(store), store'.doc)
      OBVIOUS
    <2>1. PICK q \in Procs : Write(q) \/ Replace(q)
      BY DEF Next, Step, Tick, Submit, Debate, Choose, Evidence, Reuse, Find, Prompt, Artifact,
             Row, LoadDoc, Open, Die, files
    <2>2. q = p
      <3>1. Saving(proc[q]) /\ Saving(proc[p])
        BY <2>1 DEF Write, Replace, Saving
      <3> QED
        BY <3>1 DEF IInv, CallsHold
    <2>3. Undisturbed(proc[p], store, tmp) /\ proc[p] \in Local
      BY DEF IInv, TypeOK, CallsHold
    <2>4. Replace(p)
      BY <2>1, <2>2, <2>3 DEF Write, Undisturbed
    <2>5. tmp = Whole(proc[p].doc) /\ Keeps(Load(store), proc[p].doc) /\ proc[p].doc \in Doc
      BY <2>3, <2>4 DEF Replace, Undisturbed, Local
    <2>6. store' = tmp
      BY <2>4, <2>5, FileFacts DEF Replace, Publish, Whole
    <2> QED
      BY <2>5, <2>6, FileFacts
  <1> QED
    BY <1>1, Invariance, PTL DEF Spec, NothingForgotten

-----------------------------------------------------------------------------
(* ProviderLoop: types and the inductive invariant.                        *)

LoopPlaces == {"idle", "ask", "read", "settle", "candidate", "ledger"} \cup Outputs
LoopLocal == [at : LoopPlaces, run : Nat, stamp : Nat, provider : Nat, asked : Nat, open : BOOLEAN]
LoopHistory == [begun : Nat, read : SUBSET Nat, faults : Nat]
LoopLine == [run : Nat, ended : BOOLEAN]
LoopRow ==
    [run : Nat, event : {"artifact_created", "routing_advice_recorded", "lesson_candidate_created"}, ended : BOOLEAN]
LoopOutput == [holds : {"absent", "empty", "whole", "cut", "mixed"}, by : Nat]

LoopTypeOK ==
    /\ outputs \in [Outputs -> LoopOutput] /\ candidates \in Seq(LoopLine) /\ ledgered \in Seq(LoopRow)
    /\ looper \in [Loopers -> LoopLocal] /\ loopPast \in LoopHistory /\ stamp \in Nat

\* The processes that still owe the ledger the rows of a lesson, and the lessons without them.
Owing == {p \in Loopers : looper[p].at \in {"markdown", "ledger"}}
Unrecorded == Runs \ Under("lesson_candidate_created")

\* The lines of the candidate file that lack their end, and the runs whose lines have it.
Halves == {k \in DOMAIN candidates : ~candidates[k].ended}
EndedRuns == {candidates[k].run : k \in {j \in DOMAIN candidates : candidates[j].ended}}

\* What a process has read and written by the time it is where it is.
LooperHolds(p) ==
    LET l == looper[p] IN
    /\ l.at # "idle" => l.run \in 1..loopPast.begun /\ \A k \in DOMAIN ledgered : ledgered[k].run # l.run
    /\ l.at \notin {"idle", "ask", "read"} => l.run \in loopPast.read
    /\ l.at \in {"debate", "convergence", "candidate", "markdown", "ledger"} => outputs["route"].holds # "absent"
    /\ l.at \in {"convergence", "candidate", "markdown", "ledger"} => outputs["debate"].holds # "absent"
    /\ l.at \in {"candidate", "markdown", "ledger"} => outputs["convergence"].holds # "absent"
    /\ l.at \in {"markdown", "ledger"} => l.run \in EndedRuns

LoopersHold ==
    /\ \A p \in Loopers : LooperHolds(p)
    /\ \A p, q \in Loopers : looper[p].at # "idle" /\ looper[q].at # "idle" /\ looper[p].run = looper[q].run => p = q

FilesBacked ==
    /\ loopPast.read \subseteq 1..loopPast.begun /\ Runs \subseteq loopPast.read
    /\ Runs # {} => \A f \in {"route", "debate", "convergence"} : outputs[f].holds # "absent"
    /\ \A f \in {"convergence", "debate"} : outputs[f].by \in loopPast.read \cup {0}
    /\ \A k \in DOMAIN ledgered : ledgered[k].run \in EndedRuns
    /\ Under("lesson_candidate_created") \subseteq Under("routing_advice_recorded")

LoopCount == Cardinality(Unrecorded) <= loopPast.faults + Cardinality(Owing)

HalfCount == Cardinality(Halves) <= loopPast.faults
SpoiledCount == Cardinality(Spoiled) <= loopPast.faults

LoopInv == LoopTypeOK /\ LoopersHold /\ FilesBacked /\ LoopCount /\ HalfCount /\ SpoiledCount

LEMMA LoopTypes ==
    ASSUME LoopInv
    PROVE  /\ outputs \in [Outputs -> LoopOutput] /\ candidates \in Seq(LoopLine) /\ ledgered \in Seq(LoopRow)
           /\ looper \in [Loopers -> LoopLocal] /\ loopPast \in LoopHistory
           /\ stamp \in Nat /\ loopPast.begun \in Nat /\ loopPast.faults \in Nat /\ loopPast.read \in SUBSET Nat
           /\ \A p \in Loopers : looper[p] \in LoopLocal
BY DEF LoopInv, LoopTypeOK, LoopHistory

\* The sets that are counted are finite.
LEMMA RunsAreFinite ==
    ASSUME LoopInv
    PROVE  IsFiniteSet(Runs) /\ IsFiniteSet(Halves) /\ IsFiniteSet(Spoiled)
<1>1. IsFiniteSet(DOMAIN candidates)
  <2>1. DOMAIN candidates = 1..Len(candidates) /\ Len(candidates) \in Nat BY LoopTypes
  <2> QED BY <2>1, FS_Interval
<1>2. [k \in DOMAIN candidates |-> candidates[k].run] \in Surjection(DOMAIN candidates, Runs)
  BY DEF Surjection, Runs, RunsOf
<1>3. IsFiniteSet(Halves) BY <1>1, FS_Subset DEF Halves
<1>4. IsFiniteSet(Spoiled)
  <2>1. IsFiniteSet({}) BY FS_EmptySet
  <2>2. IsFiniteSet({"provider"}) BY FS_Singleton
  <2>3. IsFiniteSet({"provider"} \cup {"route"}) BY <2>2, FS_AddElement
  <2>4. IsFiniteSet({"provider"} \cup {"route"} \cup {"debate"}) BY <2>3, FS_AddElement
  <2>5. IsFiniteSet({"provider"} \cup {"route"} \cup {"debate"} \cup {"convergence"}) BY <2>4, FS_AddElement
  <2>6. IsFiniteSet({"provider"} \cup {"route"} \cup {"debate"} \cup {"convergence"} \cup {"markdown"})
    BY <2>5, FS_AddElement
  <2>7. Outputs = {"provider"} \cup {"route"} \cup {"debate"} \cup {"convergence"} \cup {"markdown"} BY DEF Outputs
  <2> QED BY <2>6, <2>7, FS_Subset DEF Spoiled
<1> QED BY <1>1, <1>2, <1>3, <1>4, FS_Surjection

LEMMA OwingIsFinite ==
    ASSUME NEW S, S \subseteq Loopers
    PROVE  IsFiniteSet(S) /\ Cardinality(S) \in Nat
BY LoopAssumption, FS_Subset, FS_CardinalityType

LEMMA OutputNames ==
    /\ {"provider", "route", "debate", "convergence", "markdown"} = Outputs
    /\ "idle" \notin Outputs /\ "ask" \notin Outputs /\ "read" \notin Outputs
    /\ "candidate" \notin Outputs /\ "ledger" \notin Outputs /\ "settle" \notin Outputs
BY DEF Outputs

\* A step of one process: what the others are at is not disturbed by what it leaves.
LEMMA OthersHold ==
    ASSUME LoopInv, NEW p \in Loopers, NEW l \in LoopLocal, looper' = [looper EXCEPT ![p] = l],
           loopPast' \in LoopHistory, loopPast'.begun >= loopPast.begun, loopPast.read \subseteq loopPast'.read,
           EndedRuns \subseteq EndedRuns',
           \A f \in Outputs : outputs[f].holds # "absent" => outputs'[f].holds # "absent",
           \A k \in DOMAIN ledgered' :
               \/ \E j \in DOMAIN ledgered : ledgered'[k] = ledgered[j]
               \/ looper[p].at # "idle" /\ ledgered'[k].run = looper[p].run,
           \/ l.at = "idle"
           \/ looper[p].at # "idle" /\ l.run = looper[p].run
           \/ l.run = loopPast.begun + 1
    PROVE  /\ looper' \in [Loopers -> LoopLocal] /\ looper'[p] = l
           /\ \A q \in Loopers : q # p => looper'[q] = looper[q] /\ LooperHolds(q)'
           /\ \A q, r \in Loopers :
                  looper'[q].at # "idle" /\ looper'[r].at # "idle" /\ looper'[q].run = looper'[r].run => q = r
<1>1. /\ looper' \in [Loopers -> LoopLocal] /\ looper'[p] = l
      /\ \A q \in Loopers : q # p => looper'[q] = looper[q]
  BY LoopTypes
<1>2. loopPast.begun \in Nat /\ loopPast'.begun \in Nat BY LoopTypes DEF LoopHistory
<1>3. ASSUME NEW q \in Loopers, looper[q].at # "idle" PROVE looper[q].run \in 1..loopPast.begun
  BY <1>3 DEF LoopInv, LoopersHold, LooperHolds
<1>4. ASSUME NEW q \in Loopers, q # p PROVE LooperHolds(q)'
  <2>1. LooperHolds(q) /\ looper'[q] = looper[q] BY <1>1, <1>4 DEF LoopInv, LoopersHold
  <2>2. looper[q].at # "idle" => looper[q].run \in 1..loopPast'.begun BY <1>2, <1>3
  <2>3. ASSUME looper[q].at # "idle", NEW k \in DOMAIN ledgered' PROVE ledgered'[k].run # looper[q].run
    <3>1. CASE \E j \in DOMAIN ledgered : ledgered'[k] = ledgered[j]
      BY <2>1, <2>3, <3>1 DEF LooperHolds
    <3>2. CASE looper[p].at # "idle" /\ ledgered'[k].run = looper[p].run
      BY <1>4, <2>3, <3>2 DEF LoopInv, LoopersHold
    <3> QED BY <3>1, <3>2
  <2>4. {"route", "debate", "convergence"} \subseteq Outputs BY DEF Outputs
  <2> QED BY <2>1, <2>2, <2>3, <2>4 DEF LooperHolds
<1>5. ASSUME NEW q \in Loopers, NEW r \in Loopers,
             looper'[q].at # "idle", looper'[r].at # "idle", looper'[q].run = looper'[r].run
      PROVE  q = r
  <2>1. CASE q # p /\ r # p BY <1>1, <1>5, <2>1 DEF LoopInv, LoopersHold
  <2>2. ASSUME NEW s \in Loopers, s # p, looper[s].at # "idle", l.at # "idle" PROVE l.run # looper[s].run
    <3>1. CASE looper[p].at # "idle" /\ l.run = looper[p].run BY <2>2, <3>1 DEF LoopInv, LoopersHold
    <3>2. CASE l.run = loopPast.begun + 1 BY <1>2, <1>3, <2>2, <3>2
    <3> QED BY <2>2, <3>1, <3>2
  <2> QED BY <1>1, <1>5, <2>1, <2>2
<1> QED BY <1>1, <1>4, <1>5

\* A process ends and a fault is counted: what it owed, the fault stands for.
LEMMA FaultCounts ==
    ASSUME LoopInv, NEW p \in Loopers, looper' \in [Loopers -> LoopLocal],
           \A q \in Loopers : q # p => looper'[q] = looper[q],
           Unrecorded' = Unrecorded, loopPast'.faults = loopPast.faults + 1
    PROVE  LoopCount'
<1>1. Owing \subseteq Owing' \cup {p} BY DEF Owing
<1>2. Owing \subseteq Loopers /\ Owing' \subseteq Loopers BY DEF Owing
<1>3. IsFiniteSet(Owing) /\ IsFiniteSet(Owing') /\ Cardinality(Owing) \in Nat /\ Cardinality(Owing') \in Nat
  BY <1>2, OwingIsFinite
<1>4. IsFiniteSet(Owing' \cup {p}) /\ Cardinality(Owing' \cup {p}) <= Cardinality(Owing') + 1
  <2>1. PICK O : O = Owing' OBVIOUS
  <2>2. IsFiniteSet(O) /\ Cardinality(O) \in Nat BY <1>3, <2>1
  <2>3. /\ IsFiniteSet(O \cup {p})
        /\ Cardinality(O \cup {p}) = IF p \in O THEN Cardinality(O) ELSE Cardinality(O) + 1
    BY <2>2, FS_AddElement
  <2> QED BY <2>1, <2>2, <2>3
<1>5. Cardinality(Owing) <= Cardinality(Owing' \cup {p}) BY <1>1, <1>4, FS_Subset
<1>6. Cardinality(Owing' \cup {p}) \in Nat BY <1>4, FS_CardinalityType
<1>7. Cardinality(Unrecorded) \in Nat
  <2>1. IsFiniteSet(Runs) BY RunsAreFinite
  <2>2. IsFiniteSet(Unrecorded) BY <2>1, FS_Subset DEF Unrecorded
  <2> QED BY <2>2, FS_CardinalityType
<1>8. Cardinality(Unrecorded) <= loopPast.faults + Cardinality(Owing) BY DEF LoopInv, LoopCount
<1>9. loopPast.faults \in Nat BY LoopTypes
<1> QED BY <1>3, <1>4, <1>5, <1>6, <1>7, <1>8, <1>9 DEF LoopCount

LEMMA SameCount ==
    ASSUME LoopInv, Owing' = Owing, Unrecorded' = Unrecorded, loopPast'.faults = loopPast.faults
    PROVE  LoopCount'
BY DEF LoopInv, LoopCount

LEMMA RestingFacts == Resting \in LoopLocal /\ Resting.at = "idle" /\ ~Resting.open
BY DEF Resting, LoopLocal, LoopPlaces

\* A process at another place, and the one that rests.
AtPlace(l, at) == [l EXCEPT !.at = at, !.open = FALSE]

LEMMA MovedTo ==
    ASSUME LoopInv, NEW p \in Loopers, NEW at \in LoopPlaces, Moves(p, at)
    PROVE  LET l == AtPlace(looper[p], at) IN
             /\ l \in LoopLocal /\ l.at = at /\ l.run = looper[p].run /\ looper' = [looper EXCEPT ![p] = l]
             /\ looper' \in [Loopers -> LoopLocal] /\ looper'[p] = l
             /\ \A q \in Loopers : q # p => looper'[q] = looper[q]
<1>1. looper[p] \in LoopLocal /\ looper \in [Loopers -> LoopLocal] BY LoopTypes
<1> DEFINE l == AtPlace(looper[p], at)
<1>2. l \in LoopLocal /\ l.at = at /\ l.run = looper[p].run BY <1>1 DEF LoopLocal, AtPlace
<1>3. looper' = [looper EXCEPT ![p] = l] BY DEF Moves, AtPlace
<1> HIDE DEF l
<1>4. looper' \in [Loopers -> LoopLocal] /\ looper'[p] = l /\ \A q \in Loopers : q # p => looper'[q] = looper[q]
  BY <1>1, <1>2, <1>3
<1> QED BY <1>2, <1>3, <1>4 DEF l

\* What a fault leaves of the locals and of the history.
LEMMA FailFacts ==
    ASSUME LoopInv, NEW p \in Loopers, Fails(p)
    PROVE  /\ looper' = [looper EXCEPT ![p] = Resting] /\ looper' \in [Loopers -> LoopLocal] /\ looper'[p] = Resting
           /\ \A q \in Loopers : q # p => looper'[q] = looper[q]
           /\ loopPast' \in LoopHistory /\ loopPast'.begun = loopPast.begun /\ loopPast'.read = loopPast.read
           /\ loopPast'.faults = loopPast.faults + 1 /\ loopPast'.begun >= loopPast.begun
           /\ loopPast.faults \in Nat /\ loopPast.begun \in Nat
<1>1. looper' = [looper EXCEPT ![p] = Resting] BY DEF Fails, Ends
<1>2. PICK k \in Nat : k = loopPast.faults + 1 BY LoopTypes
<1>3. loopPast' = [loopPast EXCEPT !.faults = k] BY <1>2 DEF Fails
<1>4. /\ loopPast' \in LoopHistory /\ loopPast'.begun = loopPast.begun /\ loopPast'.read = loopPast.read
      /\ loopPast'.faults = loopPast.faults + 1
  BY <1>2, <1>3, LoopTypes DEF LoopHistory
<1>5. loopPast'.begun >= loopPast.begun BY <1>4, LoopTypes
<1> QED BY <1>1, <1>4, <1>5, LoopTypes, RestingFacts

\* Lines and outputs that are not disturbed, or disturbed where a process has failed.
LEMMA HalvesStay ==
    ASSUME LoopInv, UNCHANGED candidates, loopPast'.faults \in Nat, loopPast'.faults >= loopPast.faults
    PROVE  HalfCount'
<1>1. Halves' = Halves BY DEF Halves
<1>2. Cardinality(Halves) \in Nat BY RunsAreFinite, FS_CardinalityType
<1>3. PICK c \in Nat : c = Cardinality(Halves) BY <1>2
<1>4. c <= loopPast.faults BY <1>3 DEF LoopInv, HalfCount
<1>5. c <= loopPast'.faults BY <1>4, LoopTypes
<1> QED BY <1>1, <1>3, <1>5 DEF HalfCount

LEMMA SpoiledStay ==
    ASSUME LoopInv, NEW p \in Loopers, loopPast'.faults = loopPast.faults,
           \A q \in Loopers : q # p => looper'[q] = looper[q],
           \A f \in Outputs : \/ outputs'[f] = outputs[f]
                             \/ outputs'[f].holds \in {"whole", "mixed"}
                             \/ (looper'[p].at = f /\ looper'[p].open),
           \A f \in Outputs : (looper[p].at = f /\ looper[p].open) => outputs'[f].holds \in {"whole", "mixed"}
    PROVE  SpoiledCount'
<1>1. Spoiled' \subseteq Spoiled
  <2> SUFFICES ASSUME NEW f \in Spoiled' PROVE f \in Spoiled OBVIOUS
  <2>1. /\ f \in Outputs /\ outputs'[f].holds \in {"empty", "cut"}
        /\ \A q \in Loopers : ~(looper'[q].at = f /\ looper'[q].open)
    BY DEF Spoiled
  <2>2. outputs'[f] = outputs[f] /\ ~(looper[p].at = f /\ looper[p].open) BY <2>1
  <2>3. \A q \in Loopers : ~(looper[q].at = f /\ looper[q].open) BY <2>1, <2>2
  <2> QED BY <2>1, <2>2, <2>3 DEF Spoiled
<1>2. PICK S : S = Spoiled OBVIOUS
<1>3. PICK T : T = Spoiled' OBVIOUS
<1>4. IsFiniteSet(S) /\ T \subseteq S BY <1>1, <1>2, <1>3, RunsAreFinite
<1>5. Cardinality(T) <= Cardinality(S) /\ Cardinality(T) \in Nat /\ Cardinality(S) \in Nat
  BY <1>4, FS_Subset, FS_CardinalityType
<1>6. Cardinality(S) <= loopPast.faults BY <1>2 DEF LoopInv, SpoiledCount
<1>7. Cardinality(T) <= loopPast.faults BY <1>5, <1>6, LoopTypes
<1> QED BY <1>3, <1>7 DEF SpoiledCount

LEMMA SpoiledByFault ==
    ASSUME LoopInv, NEW p \in Loopers, Fails(p),
           \A f \in Outputs : f # looper[p].at => outputs'[f] = outputs[f]
    PROVE  SpoiledCount'
<1> DEFINE at == looper[p].at
<1>1. Spoiled' \subseteq Spoiled \cup {at}
  <2> SUFFICES ASSUME NEW f \in Spoiled', f # at PROVE f \in Spoiled OBVIOUS
  <2>1. /\ f \in Outputs /\ outputs'[f].holds \in {"empty", "cut"}
        /\ \A q \in Loopers : ~(looper'[q].at = f /\ looper'[q].open)
    BY DEF Spoiled
  <2>2. outputs'[f] = outputs[f] BY <2>1
  <2>3. \A q \in Loopers : ~(looper[q].at = f /\ looper[q].open) BY <2>1, FailFacts
  <2> QED BY <2>1, <2>2, <2>3 DEF Spoiled
<1>2. PICK S : S = Spoiled OBVIOUS
<1>3. PICK T : T = Spoiled' OBVIOUS
<1>4. PICK a : a = at OBVIOUS
<1>5. IsFiniteSet(S) /\ T \subseteq S \cup {a} BY <1>1, <1>2, <1>3, <1>4, RunsAreFinite
<1>6. /\ IsFiniteSet(S \cup {a}) /\ Cardinality(S) \in Nat
      /\ Cardinality(S \cup {a}) = IF a \in S THEN Cardinality(S) ELSE Cardinality(S) + 1
  BY <1>5, FS_AddElement, FS_CardinalityType
<1>7. Cardinality(T) <= Cardinality(S \cup {a}) /\ Cardinality(T) \in Nat
  BY <1>5, <1>6, FS_Subset, FS_CardinalityType
<1>8. Cardinality(S) <= loopPast.faults BY <1>2 DEF LoopInv, SpoiledCount
<1>9. Cardinality(T) <= loopPast'.faults BY <1>6, <1>7, <1>8, FailFacts
<1> QED BY <1>3, <1>9 DEF SpoiledCount

\* The files as they were, but for the rows a process leaves when it ends.
LEMMA BackedStays ==
    ASSUME LoopInv, UNCHANGED candidates, loopPast' \in LoopHistory,
           loopPast'.begun >= loopPast.begun, loopPast'.read = loopPast.read,
           \A f \in Outputs : outputs[f].holds # "absent" => outputs'[f].holds # "absent",
           \A f \in {"convergence", "debate"} : outputs'[f].by \in loopPast.read \cup {0},
           \A k \in DOMAIN ledgered' : ledgered'[k].run \in EndedRuns,
           Under("lesson_candidate_created")' \subseteq Under("routing_advice_recorded")'
    PROVE  FilesBacked'
<1>1. Runs' = Runs /\ EndedRuns' = EndedRuns BY DEF Runs, RunsOf, EndedRuns
<1>2. loopPast'.begun \in Nat /\ loopPast.begun \in Nat BY LoopTypes DEF LoopHistory
<1>3. loopPast'.read \subseteq 1..loopPast'.begun BY <1>2 DEF LoopInv, FilesBacked
<1>4. {"route", "debate", "convergence"} \subseteq Outputs BY DEF Outputs
<1>5. Runs # {} => \A f \in {"route", "debate", "convergence"} : outputs'[f].holds # "absent"
  BY <1>4 DEF LoopInv, FilesBacked
<1> QED BY <1>1, <1>3, <1>5 DEF LoopInv, FilesBacked

LEMMA SameRows ==
    ASSUME LoopInv, UNCHANGED <<candidates, ledgered>>
    PROVE  /\ Runs' = Runs /\ EndedRuns' = EndedRuns /\ Unrecorded' = Unrecorded
           /\ \A k \in DOMAIN ledgered' : ledgered'[k].run \in EndedRuns
           /\ Under("lesson_candidate_created")' \subseteq Under("routing_advice_recorded")'
           /\ \A k \in DOMAIN ledgered' : \E j \in DOMAIN ledgered : ledgered'[k] = ledgered[j]
<1>1. Runs' = Runs /\ EndedRuns' = EndedRuns BY DEF Runs, RunsOf, EndedRuns
<1>2. \A e : Under(e)' = Under(e) BY DEF Under, RunsOf, Legible
<1> QED BY <1>1, <1>2 DEF LoopInv, FilesBacked, Unrecorded

\* A process fails, and may have left some of its rows, or a part of an output.
LEMMA FailKeeps ==
    ASSUME LoopInv, NEW p \in Loopers, looper[p].at # "idle", Fails(p), stamp' \in Nat, UNCHANGED candidates,
           outputs' \in [Outputs -> LoopOutput],
           \A f \in Outputs : f # looper[p].at => outputs'[f] = outputs[f],
           \A f \in Outputs : outputs[f].holds # "absent" => outputs'[f].holds # "absent",
           \A f \in {"convergence", "debate"} : outputs'[f].by \in loopPast.read \cup {0},
           ledgered' \in Seq(LoopRow), Unrecorded' = Unrecorded,
           \A k \in DOMAIN ledgered' :
               (\E j \in DOMAIN ledgered : ledgered'[k] = ledgered[j]) \/ ledgered'[k].run = looper[p].run,
           \A k \in DOMAIN ledgered' : ledgered'[k].run \in EndedRuns,
           Under("lesson_candidate_created")' \subseteq Under("routing_advice_recorded")'
    PROVE  LoopInv'
<1>1. looper' = [looper EXCEPT ![p] = Resting] /\ looper'[p] = Resting BY FailFacts
<1>2. /\ loopPast' \in LoopHistory /\ loopPast'.begun >= loopPast.begun /\ loopPast'.read = loopPast.read
      /\ loopPast'.faults = loopPast.faults + 1 /\ loopPast.faults \in Nat
  BY FailFacts
<1>3. EndedRuns' = EndedRuns BY DEF EndedRuns
<1>4. /\ looper' \in [Loopers -> LoopLocal]
      /\ \A q \in Loopers : q # p => looper'[q] = looper[q] /\ LooperHolds(q)'
      /\ \A q, r \in Loopers :
             looper'[q].at # "idle" /\ looper'[r].at # "idle" /\ looper'[q].run = looper'[r].run => q = r
  <2>1. \A k2 \in DOMAIN ledgered' :
               \/ \E j \in DOMAIN ledgered : ledgered'[k2] = ledgered[j]
               \/ looper[p].at # "idle" /\ ledgered'[k2].run = looper[p].run
    OBVIOUS
  <2>2. loopPast.read \subseteq loopPast'.read /\ EndedRuns \subseteq EndedRuns' BY <1>2, <1>3
  <2> QED BY <1>1, <1>2, <2>1, <2>2, RestingFacts, OthersHold
<1>5. LooperHolds(p)' BY <1>1, RestingFacts DEF LooperHolds
<1>6. LoopersHold' BY <1>4, <1>5 DEF LoopersHold
<1>7. FilesBacked' BY <1>2, BackedStays
<1>8. LoopCount' BY <1>2, <1>4, FaultCounts
<1>9. HalfCount' BY <1>2, HalvesStay
<1>10. SpoiledCount' BY SpoiledByFault
<1>11. LoopTypeOK' BY <1>2, <1>4, LoopTypes DEF LoopTypeOK
<1> QED BY <1>6, <1>7, <1>8, <1>9, <1>10, <1>11 DEF LoopInv

LEMMA PlainFailKeeps ==
    ASSUME LoopInv, NEW p \in Loopers, looper[p].at # "idle", Fails(p), stamp' \in Nat,
           UNCHANGED <<outputs, candidates, ledgered>>
    PROVE  LoopInv'
<1>1. \A f \in {"convergence", "debate"} : outputs'[f].by \in loopPast.read \cup {0} BY DEF LoopInv, FilesBacked
<1>2. /\ \A f \in Outputs : f # looper[p].at => outputs'[f] = outputs[f]
      /\ \A f \in Outputs : outputs[f].holds # "absent" => outputs'[f].holds # "absent"
  OBVIOUS
<1>3. outputs' \in [Outputs -> LoopOutput] /\ ledgered' \in Seq(LoopRow) BY LoopTypes
<1>4. \A k \in DOMAIN ledgered' :
          (\E j \in DOMAIN ledgered : ledgered'[k] = ledgered[j]) \/ ledgered'[k].run = looper[p].run
  BY SameRows
<1> QED BY <1>1, <1>2, <1>3, <1>4, SameRows, FailKeeps

\* A process that has written nothing but provider files moves, rests or begins.
LEMMA EarlyKeeps ==
    ASSUME LoopInv, NEW p \in Loopers, NEW l \in LoopLocal, looper' = [looper EXCEPT ![p] = l],
           UNCHANGED <<outputs, candidates, ledgered>>, stamp' \in Nat, loopPast' \in LoopHistory,
           loopPast'.begun >= loopPast.begun, loopPast'.faults = loopPast.faults,
           loopPast.read \subseteq loopPast'.read, loopPast'.read \subseteq 1..loopPast'.begun,
           looper[p].at \in {"idle", "ask", "read", "settle"}, l.at \in {"idle", "ask", "read", "provider", "route"},
           l.at \in {"provider", "route"} => l.run \in loopPast'.read,
           \/ l.at = "idle"
           \/ looper[p].at # "idle" /\ l.run = looper[p].run
           \/ l.run = loopPast.begun + 1 /\ l.run <= loopPast'.begun
    PROVE  LoopInv'
<1>1. /\ looper' \in [Loopers -> LoopLocal] /\ looper'[p] = l
      /\ \A q \in Loopers : q # p => looper'[q] = looper[q] /\ LooperHolds(q)'
      /\ \A q, r \in Loopers :
             looper'[q].at # "idle" /\ looper'[r].at # "idle" /\ looper'[q].run = looper'[r].run => q = r
  <2>1. \A k2 \in DOMAIN ledgered' :
               \/ \E j \in DOMAIN ledgered : ledgered'[k2] = ledgered[j]
               \/ looper[p].at # "idle" /\ ledgered'[k2].run = looper[p].run
    BY SameRows
  <2>2. EndedRuns \subseteq EndedRuns' BY SameRows
  <2>3. \A f \in Outputs : outputs[f].holds # "absent" => outputs'[f].holds # "absent" OBVIOUS
  <2> QED BY <2>1, <2>2, <2>3, OthersHold
<1>2. FilesBacked'
  <2>1. Runs' = Runs /\ Under("lesson_candidate_created")' \subseteq Under("routing_advice_recorded")'
    BY SameRows
  <2>2. \A k \in DOMAIN ledgered' : ledgered'[k].run \in EndedRuns' BY SameRows
  <2> QED BY <2>1, <2>2 DEF LoopInv, FilesBacked
<1>3. LooperHolds(p)'
  <2>1. LooperHolds(p) BY DEF LoopInv, LoopersHold
  <2>2. loopPast.begun \in Nat /\ loopPast'.begun \in Nat /\ l.run \in Nat BY LoopTypes DEF LoopHistory, LoopLocal
  <2>3. CASE looper[p].at # "idle" /\ l.run = looper[p].run
    <3>1. looper[p].run \in 1..loopPast'.begun BY <2>1, <2>2, <2>3 DEF LooperHolds
    <3>2. \A k \in DOMAIN ledgered' : ledgered'[k].run # l.run BY <2>1, <2>3 DEF LooperHolds
    <3> QED BY <1>1, <2>3, <3>1, <3>2 DEF LooperHolds
  <2>4. CASE l.run = loopPast.begun + 1 /\ l.run <= loopPast'.begun
    <3>1. l.run \in 1..loopPast'.begun BY <2>2, <2>4
    <3>2. \A k \in DOMAIN ledgered : ledgered[k].run \in 1..loopPast.begun
      <4>1. EndedRuns \subseteq Runs BY DEF EndedRuns, Runs, RunsOf
      <4> QED BY <4>1 DEF LoopInv, FilesBacked
    <3>3. \A k \in DOMAIN ledgered : ledgered[k].run # l.run BY <2>2, <2>4, <3>2
    <3> QED BY <1>1, <3>1, <3>3 DEF LooperHolds
  <2>5. CASE l.at = "idle" BY <1>1, <2>5 DEF LooperHolds
  <2> QED BY <2>3, <2>4, <2>5
<1>4. LoopersHold' BY <1>1, <1>3 DEF LoopersHold
<1>5. LoopCount'
  <2>1. Owing' = Owing
    <3>1. looper[p].at \notin {"markdown", "ledger"} /\ looper'[p].at \notin {"markdown", "ledger"} BY <1>1
    <3> QED BY <1>1, <3>1 DEF Owing
  <2> QED BY <2>1, SameRows, SameCount
<1>6. LoopTypeOK' BY <1>1, LoopTypes DEF LoopTypeOK
<1>7. HalfCount' BY LoopTypes, HalvesStay
<1>8. SpoiledCount'
  <2>1. looper[p].at \notin Outputs BY OutputNames
  <2>2. \A f \in Outputs : ~(looper[p].at = f /\ looper[p].open) BY <2>1
  <2> QED BY <1>1, <2>2, SpoiledStay
<1> QED BY <1>2, <1>4, <1>5, <1>6, <1>7, <1>8 DEF LoopInv

\* The legible runs under an event of a ledger, and what the lines of a candidate file say.
UnderOf(lg, e) == RunsOf(lg, {k \in Legible(lg) : lg[k].event = e})
EndedOf(cs) == {cs[k].run : k \in {j \in DOMAIN cs : cs[j].ended}}
HalvesOf(cs) == {k \in DOMAIN cs : ~cs[k].ended}
WithRows(lg, run, n, ended) == lg \o Rows(run, n, ended)
Lesson3 == "lesson_candidate_created"
Routing2 == "routing_advice_recorded"

RowsSay(old, run, n, ended, new) ==
    /\ new \in Seq(LoopRow)
    /\ \A k \in DOMAIN new : (\E j \in DOMAIN old : new[k] = old[j]) \/ new[k].run = run
    /\ \A e : UnderOf(old, e) \subseteq UnderOf(new, e)
    /\ UnderOf(new, Lesson3) \subseteq UnderOf(old, Lesson3) \cup {run}
    /\ ~(n = 3 /\ ended) => UnderOf(new, Lesson3) \subseteq UnderOf(old, Lesson3)
    /\ n = 3 /\ ended => run \in UnderOf(new, Lesson3) /\ run \in UnderOf(new, Routing2)

\* The rows of a run behind those of the others.
LEMMA RowsAppended ==
    ASSUME NEW old \in Seq(LoopRow), NEW run \in Nat, NEW n \in 1..3, NEW ended \in BOOLEAN,
           NEW new, new = WithRows(old, run, n, ended)
    PROVE  RowsSay(old, run, n, ended, new)
<1> DEFINE t == Rows(run, n, ended)
<1>1. t = [k \in 1..n |-> [run |-> run, event |-> Events[k], ended |-> k < n \/ ended]] BY DEF Rows
<1>2. \A k \in 1..n : Events[k] \in {"artifact_created", "routing_advice_recorded", "lesson_candidate_created"}
  BY DEF Events
<1>3. /\ t \in Seq(LoopRow) /\ Len(t) = n
      /\ \A k \in 1..n : t[k].run = run /\ t[k].event = Events[k] /\ t[k].ended = (k < n \/ ended)
  BY <1>1, <1>2 DEF LoopRow
<1> HIDE DEF t
<1>4. new = old \o t BY DEF t, WithRows
<1>5. new \in Seq(LoopRow) /\ Len(new) = Len(old) + n BY <1>3, <1>4
<1>6. PICK a \in Nat : a = Len(old) OBVIOUS
<1>7. DOMAIN old = 1..a /\ DOMAIN new = 1..(a + n) BY <1>5, <1>6
<1>8. \A k \in 1..a : new[k] = old[k] BY <1>3, <1>4, <1>6
<1>9. \A m \in 1..n : a + m \in DOMAIN new /\ new[a + m] = t[m] BY <1>3, <1>4, <1>6
<1>10. ASSUME NEW k \in DOMAIN new
       PROVE  (k \in DOMAIN old /\ new[k] = old[k]) \/ \E m \in 1..n : k = a + m /\ new[k] = t[m]
  <2>1. k \in 1..(a + n) BY <1>7
  <2>2. CASE k <= a BY <1>7, <1>8, <2>1, <2>2
  <2>3. CASE k > a
    <3>1. k - a \in 1..n /\ k = a + (k - a) BY <2>1, <2>3
    <3>2. PICK m \in 1..n : k = a + m BY <3>1
    <3> QED BY <1>9, <3>2
  <2> QED BY <2>1, <2>2, <2>3
<1>11. ASSUME NEW k \in DOMAIN old
       PROVE  new[k] = old[k] /\ k \in DOMAIN new /\ (k \in Legible(old) <=> k \in Legible(new))
  <2>1. k \in 1..a /\ k \in DOMAIN new /\ new[k] = old[k] BY <1>7, <1>8, <1>11
  <2>2. k # 1 => k - 1 \in 1..a BY <2>1
  <2>3. k # 1 => new[k - 1] = old[k - 1] BY <1>8, <2>2
  <2>4. k \in Legible(old) <=> old[k].ended /\ (k = 1 \/ old[k - 1].ended) BY <1>11 DEF Legible
  <2>5. k \in Legible(new) <=> new[k].ended /\ (k = 1 \/ new[k - 1].ended) BY <2>1 DEF Legible
  <2> QED BY <2>1, <2>3, <2>4, <2>5
<1>12. \A e : UnderOf(old, e) \subseteq UnderOf(new, e)
  <2> SUFFICES ASSUME NEW e, NEW k \in Legible(old), old[k].event = e PROVE old[k].run \in UnderOf(new, e)
    BY DEF UnderOf, RunsOf
  <2>1. k \in DOMAIN old BY DEF Legible
  <2>2. k \in Legible(new) /\ new[k] = old[k] BY <1>11, <2>1
  <2> QED BY <2>2 DEF UnderOf, RunsOf
<1>13. ASSUME NEW k \in Legible(new), new[k].event = Lesson3
       PROVE  new[k].run \in UnderOf(old, Lesson3) \/ (new[k].run = run /\ n = 3 /\ ended)
  <2>1. k \in DOMAIN new /\ new[k].ended BY DEF Legible
  <2>2. CASE k \in DOMAIN old
    <3>1. new[k] = old[k] /\ k \in Legible(old) BY <1>11, <2>2
    <3> QED BY <1>13, <3>1 DEF UnderOf, RunsOf
  <2>3. CASE k \notin DOMAIN old
    <3>1. PICK m \in 1..n : new[k] = t[m] BY <1>10, <2>1, <2>3
    <3>2. Events[m] = Lesson3 /\ (m < n \/ ended) /\ new[k].run = run BY <1>3, <1>13, <2>1, <3>1
    <3>3. m \in 1..3 /\ m # 1 /\ m # 2 BY <3>2 DEF Events, Lesson3
    <3>4. m = 3 /\ n = 3 BY <3>3
    <3> QED BY <3>2, <3>4
  <2> QED BY <2>2, <2>3
<1>14. ASSUME n = 3, ended PROVE run \in UnderOf(new, Lesson3) /\ run \in UnderOf(new, Routing2)
  <2>1. 1 \in 1..n /\ 2 \in 1..n /\ 3 \in 1..n BY <1>14
  <2>2. new[a + 1] = t[1] /\ new[a + 2] = t[2] /\ new[a + 3] = t[3] BY <1>9, <2>1
  <2>3. t[1].ended /\ t[2].ended /\ t[3].ended BY <1>3, <1>14, <2>1
  <2>4. a + 2 \in DOMAIN new /\ a + 3 \in DOMAIN new BY <1>9, <2>1
  <2>5. (a + 2) - 1 = a + 1 /\ (a + 3) - 1 = a + 2 OBVIOUS
  <2>6. a + 2 \in Legible(new) /\ a + 3 \in Legible(new) BY <2>2, <2>3, <2>4, <2>5 DEF Legible
  <2>7. new[a + 2].event = Routing2 /\ new[a + 3].event = Lesson3
    BY <1>3, <2>1, <2>2 DEF Events, Lesson3, Routing2
  <2>8. new[a + 2].run = run /\ new[a + 3].run = run BY <1>3, <2>1, <2>2
  <2>9. run \in UnderOf(new, Lesson3) BY <2>6, <2>7, <2>8 DEF UnderOf, RunsOf
  <2>10. run \in UnderOf(new, Routing2) BY <2>6, <2>7, <2>8 DEF UnderOf, RunsOf
  <2> QED BY <2>9, <2>10
<1>15. \A k \in DOMAIN new : (\E j \in DOMAIN old : new[k] = old[j]) \/ new[k].run = run BY <1>3, <1>10
<1>16. UnderOf(new, Lesson3) \subseteq UnderOf(old, Lesson3) \cup {run} BY <1>13 DEF UnderOf, RunsOf
<1>17. ~(n = 3 /\ ended) => UnderOf(new, Lesson3) \subseteq UnderOf(old, Lesson3) BY <1>13 DEF UnderOf, RunsOf
<1> QED BY <1>5, <1>12, <1>14, <1>15, <1>16, <1>17 DEF RowsSay

LEMMA BeginKeeps == ASSUME LoopInv, NEW p \in Loopers, Begin(p) PROVE LoopInv'
<1>1. PICK k \in Nat : k = loopPast.begun + 1 BY LoopTypes
<1>2. loopPast' = [loopPast EXCEPT !.begun = k] BY <1>1 DEF Begin
<1>3. /\ stamp' \in Nat /\ loopPast' \in LoopHistory /\ loopPast'.begun = k /\ loopPast'.read = loopPast.read
      /\ loopPast'.faults = loopPast.faults
  BY <1>2, LoopTypes DEF LoopHistory, Begin
<1>4. looper[p].at = "idle" /\ UNCHANGED <<outputs, candidates, ledgered>> BY DEF Begin
<1>5. loopPast.read \subseteq 1..loopPast.begun BY DEF LoopInv, FilesBacked
<1>6. loopPast.begun \in Nat BY LoopTypes
<1>7. loopPast'.begun >= loopPast.begun /\ loopPast'.read \subseteq 1..loopPast'.begun BY <1>1, <1>3, <1>5, <1>6
<1>8. CASE UNCHANGED looper
  <2>1. looper' = [looper EXCEPT ![p] = looper[p]] /\ looper[p] \in LoopLocal BY <1>8, LoopTypes
  <2> QED BY <1>3, <1>4, <1>7, <2>1, EarlyKeeps
<1>9. CASE looper' = [looper EXCEPT ![p] = [Resting EXCEPT !.at = "ask", !.run = loopPast.begun + 1, !.stamp = stamp]]
  <2> DEFINE l == [Resting EXCEPT !.at = "ask", !.run = k, !.stamp = stamp]
  <2>1. Resting \in LoopLocal BY RestingFacts
  <2>2. stamp \in Nat /\ "ask" \in LoopPlaces BY LoopTypes DEF LoopPlaces
  <2>3. l \in LoopLocal /\ l.at = "ask" /\ l.run = k BY <2>1, <2>2 DEF LoopLocal
  <2>4. looper' = [looper EXCEPT ![p] = l] BY <1>1, <1>9
  <2> HIDE DEF l
  <2>5. l.run = loopPast.begun + 1 /\ l.run <= loopPast'.begun BY <1>1, <1>3, <2>3
  <2> QED BY <1>3, <1>4, <1>7, <2>3, <2>4, <2>5, EarlyKeeps
<1> QED BY <1>8, <1>9 DEF Begin

LEMMA AskKeeps == ASSUME LoopInv, NEW p \in Loopers, Ask(p) PROVE LoopInv'
<1>1. looper[p].at = "ask" /\ UNCHANGED <<outputs, candidates, ledgered>> /\ stamp' = stamp /\ stamp' \in Nat
  BY LoopTypes DEF Ask
<1>2. ASSUME UNCHANGED loopPast
      PROVE  /\ loopPast'.begun >= loopPast.begun /\ loopPast' \in LoopHistory
             /\ loopPast'.faults = loopPast.faults /\ loopPast.read \subseteq loopPast'.read
             /\ loopPast'.read \subseteq 1..loopPast'.begun
  <2>1. loopPast \in LoopHistory /\ loopPast.begun \in Nat BY LoopTypes
  <2>2. loopPast.read \subseteq 1..loopPast.begun BY DEF LoopInv, FilesBacked
  <2>3. loopPast.begun >= loopPast.begun BY <2>1
  <2> QED BY <1>2, <2>1, <2>2, <2>3
<1>3. looper[p] \in LoopLocal BY LoopTypes
<1>4. looper[p].asked \in Nat /\ looper[p].provider \in Nat BY <1>3 DEF LoopLocal
<1>5. CASE Ends(p) /\ UNCHANGED loopPast
  <2>1. looper' = [looper EXCEPT ![p] = Resting] BY <1>5 DEF Ends
  <2> QED BY <1>1, <1>2, <1>5, <2>1, RestingFacts, EarlyKeeps
<1>6. CASE looper' = [looper EXCEPT ![p].asked = @ + 1] /\ UNCHANGED loopPast
  <2>1. PICK k \in Nat : k = looper[p].asked + 1 BY <1>4
  <2> DEFINE l == [looper[p] EXCEPT !.asked = looper[p].asked + 1]
  <2>2. looper' = [looper EXCEPT ![p] = l] BY <1>6
  <2>3. l \in LoopLocal /\ l.at = "ask" /\ l.run = looper[p].run
    <3>1. l = [looper[p] EXCEPT !.asked = k] BY <2>1
    <3> HIDE DEF l
    <3> QED BY <1>1, <1>3, <3>1 DEF LoopLocal
  <2> HIDE DEF l
  <2> QED BY <1>1, <1>2, <1>6, <2>2, <2>3, EarlyKeeps
<1>7. CASE looper' = [looper EXCEPT ![p] = Onward(@)] /\ UNCHANGED loopPast
  <2>1. PICK k \in Nat : k = looper[p].provider + 1 BY <1>4
  <2> DEFINE l == Onward(looper[p])
  <2>2. looper' = [looper EXCEPT ![p] = l] BY <1>7
  <2>3. l \in LoopLocal /\ l.at \in {"ask", "read"} /\ l.run = looper[p].run
    <3>1. CASE looper[p].provider < Len(Providers)
      <4>1. l = [looper[p] EXCEPT !.provider = k, !.asked = 0] BY <2>1, <3>1 DEF Onward
      <4> HIDE DEF l
      <4> QED BY <1>1, <1>3, <4>1 DEF LoopLocal
    <3>2. CASE ~(looper[p].provider < Len(Providers))
      <4>1. l = [looper[p] EXCEPT !.at = "read"] BY <3>2 DEF Onward
      <4> HIDE DEF l
      <4> QED BY <1>1, <1>3, <4>1 DEF LoopLocal, LoopPlaces
    <3> QED BY <3>1, <3>2
  <2> HIDE DEF l
  <2> QED BY <1>1, <1>2, <1>7, <2>2, <2>3, EarlyKeeps
<1>8. CASE Fails(p) BY <1>1, <1>8, PlainFailKeeps
<1> QED BY <1>5, <1>6, <1>7, <1>8 DEF Ask

LEMMA BuildRoundsKeeps == ASSUME LoopInv, NEW p \in Loopers, BuildRounds(p) PROVE LoopInv'
<1>1. looper[p].at = "read" /\ UNCHANGED <<outputs, candidates, ledgered>> /\ stamp' \in Nat
  BY LoopTypes DEF BuildRounds
<1>2. loopPast.read \subseteq 1..loopPast.begun /\ loopPast \in LoopHistory BY LoopTypes DEF LoopInv, FilesBacked
<1>3. CASE Moves(p, "provider") /\ loopPast' = [loopPast EXCEPT !.read = @ \cup {looper[p].run}]
  <2>1. looper[p].run \in 1..loopPast.begun BY <1>1 DEF LoopInv, LoopersHold, LooperHolds
  <2>2. /\ loopPast' \in LoopHistory /\ loopPast'.begun = loopPast.begun /\ loopPast'.faults = loopPast.faults
        /\ loopPast'.read = loopPast.read \cup {looper[p].run}
    BY <1>2, <1>3, <2>1 DEF LoopHistory
  <2>3. "provider" \in LoopPlaces BY DEF LoopPlaces, Outputs
  <2> DEFINE l == AtPlace(looper[p], "provider")
  <2>4. l \in LoopLocal /\ l.at = "provider" /\ l.run = looper[p].run /\ looper' = [looper EXCEPT ![p] = l]
    BY <1>3, <2>3, MovedTo
  <2> HIDE DEF l
  <2>5. loopPast'.begun >= loopPast.begun /\ loopPast'.read \subseteq 1..loopPast'.begun BY <1>2, <2>1, <2>2, LoopTypes
  <2> QED BY <1>1, <2>2, <2>4, <2>5, EarlyKeeps
<1>4. CASE Ends(p) /\ UNCHANGED loopPast
  <2>1. looper' = [looper EXCEPT ![p] = Resting] BY <1>4 DEF Ends
  <2>2. loopPast'.begun >= loopPast.begun /\ loopPast' \in LoopHistory /\ loopPast'.read \subseteq 1..loopPast'.begun
    BY <1>2, <1>4, LoopTypes
  <2> QED BY <1>1, <1>4, <2>1, <2>2, RestingFacts, EarlyKeeps
<1> QED BY <1>3, <1>4 DEF BuildRounds

\* An output is emptied.
LEMMA EmptyKeeps == ASSUME LoopInv, NEW p \in Loopers, Empty(p) PROVE LoopInv'
<1> DEFINE f == looper[p].at
           l == [looper[p] EXCEPT !.open = TRUE]
<1>1. /\ f \in Outputs /\ ~looper[p].open /\ UNCHANGED <<candidates, ledgered, loopPast>> /\ stamp' \in Nat
      /\ outputs' = [outputs EXCEPT ![f] = [holds |-> "empty", by |-> looper[p].run]]
      /\ looper' = [looper EXCEPT ![p].open = TRUE]
  BY LoopTypes DEF Empty
<1>2. /\ l \in LoopLocal /\ l.at = f /\ l.run = looper[p].run /\ l.open
  BY LoopTypes DEF LoopLocal
<1>3. looper' = [looper EXCEPT ![p] = l] BY <1>1
<1>4. f \in {"provider", "route", "debate", "convergence", "markdown"} BY <1>1 DEF Outputs
<1>5. LooperHolds(p) BY DEF LoopInv, LoopersHold
<1> HIDE DEF l
<1>6. /\ looper[p].run \in 1..loopPast.begun /\ looper[p].run \in loopPast.read
      /\ \A k \in DOMAIN ledgered : ledgered[k].run # looper[p].run
  BY <1>4, <1>5 DEF LooperHolds
<1>7. looper[p].run \in Nat BY <1>6, LoopTypes
<1>8. /\ outputs' \in [Outputs -> LoopOutput]
      /\ outputs'[f].holds = "empty" /\ outputs'[f].by = looper[p].run
      /\ \A g \in Outputs : g # f => outputs'[g] = outputs[g]
  BY <1>1, <1>7, LoopTypes DEF LoopOutput
<1>9. loopPast' = loopPast /\ loopPast \in LoopHistory /\ loopPast.begun \in Nat BY <1>1, LoopTypes
<1>10. \A g \in Outputs : outputs[g].holds # "absent" => outputs'[g].holds # "absent" BY <1>8
<1> HIDE DEF f
<1>11. /\ looper' \in [Loopers -> LoopLocal] /\ looper'[p] = l
       /\ \A q \in Loopers : q # p => looper'[q] = looper[q] /\ LooperHolds(q)'
       /\ \A q, r \in Loopers :
              looper'[q].at # "idle" /\ looper'[r].at # "idle" /\ looper'[q].run = looper'[r].run => q = r
  <2>1. \A k2 \in DOMAIN ledgered' :
               \/ \E j \in DOMAIN ledgered : ledgered'[k2] = ledgered[j]
               \/ looper[p].at # "idle" /\ ledgered'[k2].run = looper[p].run
    BY <1>1, SameRows
  <2>2. EndedRuns \subseteq EndedRuns' BY <1>1, SameRows
  <2>3. loopPast' \in LoopHistory /\ loopPast'.begun >= loopPast.begun /\ loopPast.read \subseteq loopPast'.read
    BY <1>9
  <2>4. looper[p].at # "idle" /\ l.run = looper[p].run BY <1>2, <1>4 DEF f
  <2> QED BY <1>2, <1>3, <1>10, <2>1, <2>2, <2>3, <2>4, OthersHold
<1>12. EndedRuns' = EndedRuns /\ Unrecorded' = Unrecorded BY <1>1, SameRows
<1>13. LooperHolds(p)'
  <2>1. {"route", "debate", "convergence"} \subseteq Outputs BY DEF Outputs
  <2>2. l.at = looper[p].at BY <1>2 DEF f
  <2> QED BY <1>1, <1>2, <1>5, <1>9, <1>10, <1>11, <1>12, <2>1, <2>2 DEF LooperHolds
<1>14. LoopersHold' BY <1>11, <1>13 DEF LoopersHold
<1>15. \A g \in {"convergence", "debate"} : outputs'[g].by \in loopPast.read \cup {0}
  <2>1. {"convergence", "debate"} \subseteq Outputs BY DEF Outputs
  <2>2. \A g \in {"convergence", "debate"} : outputs[g].by \in loopPast.read \cup {0} BY DEF LoopInv, FilesBacked
  <2> QED BY <1>6, <1>8, <2>1, <2>2
<1>16. FilesBacked'
  <2>1. loopPast'.begun >= loopPast.begun BY <1>9
  <2> QED BY <1>1, <1>9, <1>10, <1>15, <2>1, SameRows, BackedStays
<1>17. LoopCount'
  <2>1. Owing' = Owing BY <1>2, <1>11 DEF Owing, f
  <2> QED BY <1>9, <1>12, <2>1, SameCount
<1>18. HalfCount' BY <1>1, <1>9, LoopTypes, HalvesStay
<1>19. SpoiledCount'
  <2>1. looper'[p].at = f /\ looper'[p].open BY <1>2, <1>11
  <2>2. \A g \in Outputs : outputs'[g] = outputs[g] \/ (looper'[p].at = g /\ looper'[p].open) BY <1>8, <2>1
  <2> QED BY <1>1, <1>9, <1>11, <2>2, SpoiledStay
<1>20. LoopTypeOK' BY <1>1, <1>8, <1>9, <1>11, LoopTypes DEF LoopTypeOK
<1> QED BY <1>14, <1>16, <1>17, <1>18, <1>19, <1>20 DEF LoopInv

\* A process that has written goes on: its place is a later one, its run the same.
LEMMA FillKeeps == ASSUME LoopInv, NEW p \in Loopers, Fill(p) PROVE LoopInv'
<1> DEFINE f == looper[p].at
           at == After[f]
           l == AtPlace(looper[p], at)
<1>1. /\ f \in Outputs /\ UNCHANGED <<candidates, ledgered, loopPast>> /\ stamp' \in Nat /\ Moves(p, at)
  BY LoopTypes DEF Fill
<1>2. PICK holds \in {"whole", "mixed"} : outputs' = [outputs EXCEPT ![f] = [holds |-> holds, by |-> looper[p].run]]
  BY DEF Fill
<1>3. /\ f \in {"provider", "route", "debate", "convergence", "markdown"}
      /\ f = "provider" => at = "settle"
      /\ f = "route" => at = "debate"
      /\ f = "debate" => at = "convergence"
      /\ f = "convergence" => at = "candidate"
      /\ f = "markdown" => at = "ledger"
  BY <1>1 DEF Outputs, After
<1>4. at \in LoopPlaces BY <1>3 DEF LoopPlaces, Outputs
<1>5. /\ l \in LoopLocal /\ l.at = at /\ l.run = looper[p].run /\ looper' = [looper EXCEPT ![p] = l]
      /\ looper' \in [Loopers -> LoopLocal] /\ looper'[p] = l
      /\ \A q \in Loopers : q # p => looper'[q] = looper[q]
  BY <1>1, <1>4, MovedTo
<1>6. LooperHolds(p) BY DEF LoopInv, LoopersHold
<1>7. /\ looper[p].run \in 1..loopPast.begun /\ looper[p].run \in loopPast.read
      /\ \A k \in DOMAIN ledgered : ledgered[k].run # looper[p].run
  BY <1>3, <1>6 DEF LooperHolds
<1>8. looper[p].run \in Nat BY <1>7, LoopTypes
<1>9. /\ outputs' \in [Outputs -> LoopOutput]
      /\ outputs'[f].holds = holds /\ outputs'[f].by = looper[p].run
      /\ \A g \in Outputs : g # f => outputs'[g] = outputs[g]
  BY <1>1, <1>2, <1>8, LoopTypes DEF LoopOutput
<1>10. loopPast' = loopPast /\ loopPast \in LoopHistory /\ loopPast.begun \in Nat BY <1>1, LoopTypes
<1>11. {"route", "debate", "convergence"} \subseteq Outputs BY DEF Outputs
<1>12. \A g \in Outputs : outputs[g].holds # "absent" => outputs'[g].holds # "absent" BY <1>9
<1> HIDE DEF l, at, f
<1>13. /\ \A q \in Loopers : q # p => looper'[q] = looper[q] /\ LooperHolds(q)'
       /\ \A q, r \in Loopers :
              looper'[q].at # "idle" /\ looper'[r].at # "idle" /\ looper'[q].run = looper'[r].run => q = r
  <2>1. \A k2 \in DOMAIN ledgered' :
               \/ \E j \in DOMAIN ledgered : ledgered'[k2] = ledgered[j]
               \/ looper[p].at # "idle" /\ ledgered'[k2].run = looper[p].run
    BY <1>1, SameRows
  <2>2. EndedRuns \subseteq EndedRuns' BY <1>1, SameRows
  <2>3. loopPast' \in LoopHistory /\ loopPast'.begun >= loopPast.begun /\ loopPast.read \subseteq loopPast'.read
    BY <1>10
  <2>4. looper[p].at # "idle" BY <1>3 DEF f
  <2> QED BY <1>5, <1>12, <2>1, <2>2, <2>3, <2>4, OthersHold
<1>14. /\ l.at \in {"debate", "convergence", "candidate", "markdown", "ledger"} => outputs'["route"].holds # "absent"
       /\ l.at \in {"convergence", "candidate", "markdown", "ledger"} => outputs'["debate"].holds # "absent"
       /\ l.at \in {"candidate", "markdown", "ledger"} => outputs'["convergence"].holds # "absent"
       /\ l.at \in {"markdown", "ledger"} => f = "markdown"
  BY <1>3, <1>5, <1>6, <1>9, <1>11 DEF LooperHolds, f
<1>15. Runs' = Runs /\ EndedRuns' = EndedRuns /\ Unrecorded' = Unrecorded BY <1>1, SameRows
<1>16. l.at \in {"markdown", "ledger"} => l.run \in EndedRuns
  BY <1>5, <1>6, <1>14 DEF LooperHolds, f
<1>17. LooperHolds(p)'
  BY <1>1, <1>5, <1>7, <1>10, <1>14, <1>15, <1>16 DEF LooperHolds
<1>18. LoopersHold' BY <1>13, <1>17 DEF LoopersHold
<1>19. \A g \in {"convergence", "debate"} : outputs'[g].by \in loopPast.read \cup {0}
  <2>1. \A g \in {"convergence", "debate"} : outputs[g].by \in loopPast.read \cup {0} BY DEF LoopInv, FilesBacked
  <2> QED BY <1>7, <1>9, <1>11, <2>1
<1>20. FilesBacked'
  <2>1. loopPast'.begun >= loopPast.begun BY <1>10
  <2> QED BY <1>1, <1>10, <1>12, <1>19, <2>1, SameRows, BackedStays
<1>21. LoopCount'
  <2>1. looper[p].at \in {"markdown", "ledger"} <=> looper'[p].at \in {"markdown", "ledger"}
    BY <1>3, <1>5 DEF f
  <2>2. Owing' = Owing BY <1>5, <2>1 DEF Owing
  <2> QED BY <1>10, <1>15, <2>2, SameCount
<1>22. HalfCount' BY <1>1, <1>10, LoopTypes, HalvesStay
<1>23. SpoiledCount'
  <2>1. \A g \in Outputs : outputs'[g] = outputs[g] \/ outputs'[g].holds \in {"whole", "mixed"} BY <1>9
  <2>2. \A g \in Outputs : looper[p].at = g /\ looper[p].open => outputs'[g].holds \in {"whole", "mixed"}
    BY <1>9 DEF f
  <2> QED BY <1>5, <1>10, <2>1, <2>2, SpoiledStay
<1>24. LoopTypeOK' BY <1>1, <1>5, <1>9, <1>10, LoopTypes DEF LoopTypeOK
<1> QED BY <1>18, <1>20, <1>21, <1>22, <1>23, <1>24 DEF LoopInv

LEMMA FillFailsKeeps == ASSUME LoopInv, NEW p \in Loopers, FillFails(p) PROVE LoopInv'
<1> DEFINE f == looper[p].at
<1>1. /\ f \in Outputs /\ UNCHANGED <<candidates, ledgered>> /\ stamp' \in Nat /\ Fails(p)
      /\ outputs' = [outputs EXCEPT ![f] = [holds |-> "cut", by |-> looper[p].run]]
  BY LoopTypes DEF FillFails
<1>2. f \in {"provider", "route", "debate", "convergence", "markdown"} BY <1>1 DEF Outputs
<1>3. looper[p].run \in 1..loopPast.begun /\ looper[p].run \in loopPast.read
  BY <1>2 DEF LoopInv, LoopersHold, LooperHolds
<1>4. looper[p].run \in Nat BY <1>3, LoopTypes
<1>5. /\ outputs' \in [Outputs -> LoopOutput]
      /\ outputs'[f].holds = "cut" /\ outputs'[f].by = looper[p].run
      /\ \A g \in Outputs : g # f => outputs'[g] = outputs[g]
  BY <1>1, <1>4, LoopTypes DEF LoopOutput
<1>6. \A g \in Outputs : outputs[g].holds # "absent" => outputs'[g].holds # "absent" BY <1>5
<1>7. \A g \in {"convergence", "debate"} : outputs'[g].by \in loopPast.read \cup {0}
  <2>1. {"convergence", "debate"} \subseteq Outputs BY DEF Outputs
  <2>2. \A g \in {"convergence", "debate"} : outputs[g].by \in loopPast.read \cup {0} BY DEF LoopInv, FilesBacked
  <2> QED BY <1>3, <1>5, <2>1, <2>2
<1>8. looper[p].at # "idle" BY <1>2
<1>9. ledgered' \in Seq(LoopRow) BY <1>1, LoopTypes
<1>10. \A k \in DOMAIN ledgered' :
           (\E j \in DOMAIN ledgered : ledgered'[k] = ledgered[j]) \/ ledgered'[k].run = looper[p].run
  BY <1>1, SameRows
<1>11. /\ Unrecorded' = Unrecorded
       /\ \A k \in DOMAIN ledgered' : ledgered'[k].run \in EndedRuns
       /\ Under("lesson_candidate_created")' \subseteq Under("routing_advice_recorded")'
  BY <1>1, SameRows
<1> QED BY <1>1, <1>5, <1>6, <1>7, <1>8, <1>9, <1>10, <1>11, FailKeeps

LEMMA SettleKeeps == ASSUME LoopInv, NEW p \in Loopers, Settle(p) PROVE LoopInv'
<1>1. looper[p].at = "settle" /\ UNCHANGED <<outputs, candidates, ledgered, loopPast>> /\ stamp' \in Nat
  BY LoopTypes DEF Settle
<1>2. loopPast.read \subseteq 1..loopPast.begun /\ loopPast \in LoopHistory /\ loopPast.begun \in Nat
  BY LoopTypes DEF LoopInv, FilesBacked
<1>3. /\ loopPast'.begun >= loopPast.begun /\ loopPast' \in LoopHistory /\ loopPast'.faults = loopPast.faults
      /\ loopPast.read \subseteq loopPast'.read /\ loopPast'.read \subseteq 1..loopPast'.begun
  BY <1>1, <1>2
<1>4. CASE Moves(p, "route")
  <2>1. "route" \in LoopPlaces BY DEF LoopPlaces, Outputs
  <2> DEFINE l == AtPlace(looper[p], "route")
  <2>2. l \in LoopLocal /\ l.at = "route" /\ l.run = looper[p].run /\ looper' = [looper EXCEPT ![p] = l]
    BY <1>4, <2>1, MovedTo
  <2> HIDE DEF l
  <2>3. looper[p].run \in loopPast.read BY <1>1 DEF LoopInv, LoopersHold, LooperHolds
  <2> QED BY <1>1, <1>3, <2>2, <2>3, EarlyKeeps
<1>5. CASE Ends(p)
  <2>1. looper' = [looper EXCEPT ![p] = Resting] BY <1>5 DEF Ends
  <2> QED BY <1>1, <1>3, <2>1, RestingFacts, EarlyKeeps
<1> QED BY <1>4, <1>5 DEF Settle

LEMMA LoopDieKeeps == ASSUME LoopInv, NEW p \in Loopers, LoopDie(p) PROVE LoopInv'
<1>1. looper[p].at # "idle" /\ Fails(p) /\ UNCHANGED <<outputs, candidates, ledgered>> /\ stamp' \in Nat
  BY LoopTypes DEF LoopDie
<1> QED BY <1>1, PlainFailKeeps

\* One more line of the candidate file.
LEMMA LineAppended ==
    ASSUME NEW cs \in Seq(LoopLine), NEW l \in LoopLine, NEW new, new = Append(cs, l)
    PROVE  /\ new \in Seq(LoopLine)
           /\ RunsOf(new, DOMAIN new) = RunsOf(cs, DOMAIN cs) \cup {l.run}
           /\ EndedOf(cs) \subseteq EndedOf(new) /\ (l.ended => l.run \in EndedOf(new))
           /\ HalvesOf(new) \subseteq HalvesOf(cs) \cup (IF l.ended THEN {} ELSE {Len(cs) + 1})
<1>1. /\ new \in Seq(LoopLine) /\ Len(new) = Len(cs) + 1 /\ Len(cs) \in Nat
      /\ \A k \in 1..Len(cs) : new[k] = cs[k]
      /\ new[Len(cs) + 1] = l
  OBVIOUS
<1>2. PICK a \in Nat : a = Len(cs) BY <1>1
<1>3. DOMAIN new = 1..(a + 1) /\ DOMAIN cs = 1..a BY <1>1, <1>2
<1>4. \A k \in DOMAIN new : k \in DOMAIN cs \/ k = a + 1 BY <1>3
<1>5. \A k \in DOMAIN cs : k \in DOMAIN new /\ new[k] = cs[k] BY <1>1, <1>2, <1>3
<1>6. a + 1 \in DOMAIN new /\ new[a + 1] = l BY <1>1, <1>2, <1>3
<1>7. RunsOf(new, DOMAIN new) = RunsOf(cs, DOMAIN cs) \cup {l.run}
  <2>1. \A k \in DOMAIN new : new[k].run \in RunsOf(cs, DOMAIN cs) \cup {l.run} BY <1>4, <1>5, <1>6 DEF RunsOf
  <2>2. \A k \in DOMAIN cs : cs[k].run \in RunsOf(new, DOMAIN new)
    <3> SUFFICES ASSUME NEW k \in DOMAIN cs PROVE cs[k].run \in RunsOf(new, DOMAIN new) OBVIOUS
    <3>1. k \in DOMAIN new /\ cs[k].run = new[k].run BY <1>5
    <3> QED BY <3>1 DEF RunsOf
  <2>3. l.run \in RunsOf(new, DOMAIN new) BY <1>6 DEF RunsOf
  <2> QED BY <2>1, <2>2, <2>3 DEF RunsOf
<1>8. EndedOf(cs) \subseteq EndedOf(new)
  <2> SUFFICES ASSUME NEW k \in DOMAIN cs, cs[k].ended PROVE cs[k].run \in EndedOf(new) BY DEF EndedOf
  <2>1. k \in DOMAIN new /\ new[k].ended /\ cs[k].run = new[k].run BY <1>5
  <2> QED BY <2>1 DEF EndedOf
<1>9. l.ended => l.run \in EndedOf(new) BY <1>6 DEF EndedOf
<1>10. HalvesOf(new) \subseteq HalvesOf(cs) \cup (IF l.ended THEN {} ELSE {a + 1})
  BY <1>4, <1>5, <1>6 DEF HalvesOf
<1> QED BY <1>1, <1>2, <1>7, <1>8, <1>9, <1>10

\* What a line adds to what is said of the candidate file.
LEMMA CandidateAppended ==
    ASSUME LoopInv, NEW run \in Nat, NEW ended \in BOOLEAN,
           candidates' = Append(candidates, [run |-> run, ended |-> ended])
    PROVE  /\ candidates' \in Seq(LoopLine) /\ Runs' = Runs \cup {run} /\ EndedRuns \subseteq EndedRuns'
           /\ ended => run \in EndedRuns'
           /\ Halves' \subseteq Halves \cup (IF ended THEN {} ELSE {Len(candidates) + 1})
<1>1. PICK cs \in Seq(LoopLine) : cs = candidates BY LoopTypes
<1>2. PICK l \in LoopLine : l = [run |-> run, ended |-> ended] BY DEF LoopLine
<1>3. PICK new : new = candidates' OBVIOUS
<1>4. new = Append(cs, l) /\ l.run = run /\ l.ended = ended BY <1>1, <1>2, <1>3
<1>5. /\ new \in Seq(LoopLine)
      /\ RunsOf(new, DOMAIN new) = RunsOf(cs, DOMAIN cs) \cup {l.run}
      /\ EndedOf(cs) \subseteq EndedOf(new) /\ (l.ended => l.run \in EndedOf(new))
      /\ HalvesOf(new) \subseteq HalvesOf(cs) \cup (IF l.ended THEN {} ELSE {Len(cs) + 1})
  BY <1>4, LineAppended
<1>6. Runs = RunsOf(cs, DOMAIN cs) /\ Runs' = RunsOf(new, DOMAIN new) BY <1>1, <1>3 DEF Runs, RunsOf
<1>7. EndedRuns = EndedOf(cs) /\ EndedRuns' = EndedOf(new) BY <1>1, <1>3 DEF EndedRuns, EndedOf
<1>8. Halves = HalvesOf(cs) /\ Halves' = HalvesOf(new) BY <1>1, <1>3 DEF Halves, HalvesOf
<1> QED BY <1>1, <1>3, <1>4, <1>5, <1>6, <1>7, <1>8

\* One more lesson to record: the process owes it, or a fault stands for it.
LEMMA OneMoreUnrecorded ==
    ASSUME LoopInv, NEW run, Runs' = Runs \cup {run}, UNCHANGED ledgered
    PROVE  /\ Cardinality(Unrecorded') \in Nat /\ Cardinality(Unrecorded) \in Nat
           /\ Cardinality(Unrecorded') <= Cardinality(Unrecorded) + 1
<1>1. \A e : Under(e)' = Under(e) BY DEF Under, RunsOf, Legible
<1>2. PICK U : U = Unrecorded OBVIOUS
<1>3. PICK V : V = Unrecorded' OBVIOUS
<1>4. V \subseteq U \cup {run} BY <1>1, <1>2, <1>3 DEF Unrecorded
<1>5. IsFiniteSet(U)
  <2>1. IsFiniteSet(Runs) BY RunsAreFinite
  <2> QED BY <1>2, <2>1, FS_Subset DEF Unrecorded
<1>6. /\ IsFiniteSet(U \cup {run}) /\ Cardinality(U) \in Nat
      /\ Cardinality(U \cup {run}) = IF run \in U THEN Cardinality(U) ELSE Cardinality(U) + 1
  BY <1>5, FS_AddElement, FS_CardinalityType
<1>7. Cardinality(V) <= Cardinality(U \cup {run}) /\ Cardinality(V) \in Nat
  BY <1>4, <1>6, FS_Subset, FS_CardinalityType
<1>8. Cardinality(V) <= Cardinality(U) + 1 BY <1>6, <1>7
<1> QED BY <1>2, <1>3, <1>6, <1>7, <1>8

LEMMA AppendCandidateKeeps == ASSUME LoopInv, NEW p \in Loopers, AppendCandidate(p) PROVE LoopInv'
<1> DEFINE run == looper[p].run
<1>1. looper[p].at = "candidate" /\ UNCHANGED <<outputs, ledgered>> /\ stamp' \in Nat
  BY LoopTypes DEF AppendCandidate
<1>2. LooperHolds(p) BY DEF LoopInv, LoopersHold
<1>3. /\ run \in 1..loopPast.begun /\ run \in loopPast.read
      /\ \A k \in DOMAIN ledgered : ledgered[k].run # run
      /\ \A f \in {"route", "debate", "convergence"} : outputs[f].holds # "absent"
  BY <1>1, <1>2 DEF LooperHolds
<1>4. run \in Nat BY <1>3, LoopTypes
<1> HIDE DEF run
<1>5. \A e : Under(e)' = Under(e) BY <1>1 DEF Under, RunsOf, Legible
<1>6. \A k \in DOMAIN ledgered' :
          \/ \E j \in DOMAIN ledgered : ledgered'[k] = ledgered[j]
          \/ looper[p].at # "idle" /\ ledgered'[k].run = looper[p].run
  BY <1>1
<1>7. \A g \in Outputs : outputs[g].holds # "absent" => outputs'[g].holds # "absent" BY <1>1
<1>8. ASSUME Runs' = Runs \cup {run}, EndedRuns \subseteq EndedRuns', loopPast' \in LoopHistory,
             loopPast'.begun = loopPast.begun, loopPast'.read = loopPast.read
      PROVE  FilesBacked'
  BY <1>1, <1>3, <1>5, <1>8 DEF LoopInv, FilesBacked
<1>9. CASE /\ candidates' = Append(candidates, [run |-> looper[p].run, ended |-> TRUE])
           /\ Moves(p, After["candidate"]) /\ UNCHANGED loopPast
  <2> DEFINE l == AtPlace(looper[p], "markdown")
  <2>1. After["candidate"] = "markdown" BY DEF After
  <2>2. "markdown" \in LoopPlaces BY DEF LoopPlaces, Outputs
  <2>3. /\ l \in LoopLocal /\ l.at = "markdown" /\ l.run = run /\ looper' = [looper EXCEPT ![p] = l]
        /\ looper' \in [Loopers -> LoopLocal] /\ looper'[p] = l
        /\ \A q \in Loopers : q # p => looper'[q] = looper[q]
    BY <1>9, <2>1, <2>2, MovedTo DEF run
  <2> HIDE DEF l
  <2>4. candidates' = Append(candidates, [run |-> run, ended |-> TRUE]) BY <1>9 DEF run
  <2>5. /\ candidates' \in Seq(LoopLine) /\ Runs' = Runs \cup {run} /\ EndedRuns \subseteq EndedRuns'
        /\ run \in EndedRuns' /\ Halves' \subseteq Halves
    BY <1>4, <2>4, CandidateAppended
  <2>6. loopPast' = loopPast /\ loopPast \in LoopHistory /\ loopPast.begun \in Nat /\ loopPast.faults \in Nat
    BY <1>9, LoopTypes
  <2>7. /\ \A q \in Loopers : q # p => looper'[q] = looper[q] /\ LooperHolds(q)'
        /\ \A q, r \in Loopers :
               looper'[q].at # "idle" /\ looper'[r].at # "idle" /\ looper'[q].run = looper'[r].run => q = r
    <3>1. loopPast' \in LoopHistory /\ loopPast'.begun >= loopPast.begun /\ loopPast.read \subseteq loopPast'.read
      BY <2>6
    <3>2. looper[p].at # "idle" /\ l.run = looper[p].run BY <1>1, <2>3 DEF run
    <3> QED BY <1>6, <1>7, <2>3, <2>5, <3>1, <3>2, OthersHold
  <2>8. LooperHolds(p)'
    BY <1>1, <1>3, <2>3, <2>5, <2>6 DEF LooperHolds
  <2>9. LoopersHold' BY <2>7, <2>8 DEF LoopersHold
  <2>10. FilesBacked' BY <1>8, <2>5, <2>6
  <2>11. LoopCount'
    <3>1. Owing' = Owing \cup {p} /\ p \notin Owing BY <1>1, <2>3 DEF Owing
    <3>2. PICK O : O = Owing OBVIOUS
    <3>3. O \subseteq Loopers BY <3>2 DEF Owing
    <3>4. IsFiniteSet(O) /\ Cardinality(O) \in Nat BY <3>3, OwingIsFinite
    <3>5. Cardinality(O \cup {p}) = Cardinality(O) + 1 BY <3>1, <3>2, <3>4, FS_AddElement
    <3>6. PICK u \in Nat : u = Cardinality(Unrecorded) BY <1>1, <2>5, OneMoreUnrecorded
    <3>7. PICK v \in Nat : v = Cardinality(Unrecorded') BY <1>1, <2>5, OneMoreUnrecorded
    <3>8. v <= u + 1 BY <1>1, <2>5, <3>6, <3>7, OneMoreUnrecorded
    <3>9. u <= loopPast.faults + Cardinality(O) BY <3>2, <3>6 DEF LoopInv, LoopCount
    <3>10. v <= loopPast.faults + Cardinality(O \cup {p}) BY <2>6, <3>4, <3>5, <3>8, <3>9
    <3> QED BY <2>6, <3>1, <3>2, <3>7, <3>10 DEF LoopCount
  <2>12. HalfCount'
    <3>1. PICK S : S = Halves OBVIOUS
    <3>2. PICK T : T = Halves' OBVIOUS
    <3>3. T \subseteq S /\ IsFiniteSet(S) BY <2>5, <3>1, <3>2, RunsAreFinite
    <3>4. Cardinality(T) <= Cardinality(S) /\ Cardinality(T) \in Nat /\ Cardinality(S) \in Nat
      BY <3>3, FS_Subset, FS_CardinalityType
    <3>5. Cardinality(S) <= loopPast.faults BY <3>1 DEF LoopInv, HalfCount
    <3>6. Cardinality(T) <= loopPast.faults BY <2>6, <3>4, <3>5
    <3> QED BY <2>6, <3>2, <3>6 DEF HalfCount
  <2>13. SpoiledCount'
    <3>1. \A f \in Outputs : ~(looper[p].at = f /\ looper[p].open) BY <1>1, OutputNames
    <3> QED BY <1>1, <2>3, <2>6, <3>1, SpoiledStay
  <2>14. LoopTypeOK' BY <1>1, <2>3, <2>5, <2>6, LoopTypes DEF LoopTypeOK
  <2> QED BY <2>9, <2>10, <2>11, <2>12, <2>13, <2>14 DEF LoopInv
<1>10. CASE candidates' = Append(candidates, [run |-> looper[p].run, ended |-> FALSE]) /\ Fails(p)
  <2>1. candidates' = Append(candidates, [run |-> run, ended |-> FALSE]) BY <1>10 DEF run
  <2>2. /\ candidates' \in Seq(LoopLine) /\ Runs' = Runs \cup {run} /\ EndedRuns \subseteq EndedRuns'
        /\ Halves' \subseteq Halves \cup {Len(candidates) + 1}
    BY <1>4, <2>1, CandidateAppended
  <2>3. /\ looper' = [looper EXCEPT ![p] = Resting] /\ looper' \in [Loopers -> LoopLocal] /\ looper'[p] = Resting
        /\ \A q \in Loopers : q # p => looper'[q] = looper[q]
        /\ loopPast' \in LoopHistory /\ loopPast'.begun = loopPast.begun /\ loopPast'.read = loopPast.read
        /\ loopPast'.faults = loopPast.faults + 1 /\ loopPast'.begun >= loopPast.begun
        /\ loopPast.faults \in Nat
    BY <1>10, FailFacts
  <2>4. /\ \A q \in Loopers : q # p => looper'[q] = looper[q] /\ LooperHolds(q)'
        /\ \A q, r \in Loopers :
               looper'[q].at # "idle" /\ looper'[r].at # "idle" /\ looper'[q].run = looper'[r].run => q = r
    <3>1. loopPast.read \subseteq loopPast'.read BY <2>3
    <3> QED BY <1>6, <1>7, <2>2, <2>3, <3>1, RestingFacts, OthersHold
  <2>5. LooperHolds(p)' BY <2>3, RestingFacts DEF LooperHolds
  <2>6. LoopersHold' BY <2>4, <2>5 DEF LoopersHold
  <2>7. FilesBacked' BY <1>8, <2>2, <2>3
  <2>8. LoopCount'
    <3>1. Owing' = Owing BY <1>1, <2>3, RestingFacts DEF Owing
    <3>2. Cardinality(Owing) \in Nat
      <4>1. Owing \subseteq Loopers BY DEF Owing
      <4> QED BY <4>1, OwingIsFinite
    <3>3. PICK o \in Nat : o = Cardinality(Owing) BY <3>2
    <3>4. PICK u \in Nat : u = Cardinality(Unrecorded) BY <1>1, <2>2, OneMoreUnrecorded
    <3>5. PICK v \in Nat : v = Cardinality(Unrecorded') BY <1>1, <2>2, OneMoreUnrecorded
    <3>6. v <= u + 1 BY <1>1, <2>2, <3>4, <3>5, OneMoreUnrecorded
    <3>7. u <= loopPast.faults + o BY <3>3, <3>4 DEF LoopInv, LoopCount
    <3>8. v <= loopPast'.faults + o BY <2>3, <3>6, <3>7
    <3> QED BY <3>1, <3>3, <3>5, <3>8 DEF LoopCount
  <2>9. HalfCount'
    <3>1. PICK S : S = Halves OBVIOUS
    <3>2. PICK T : T = Halves' OBVIOUS
    <3>3. PICK a : a = Len(candidates) + 1 OBVIOUS
    <3>4. T \subseteq S \cup {a} /\ IsFiniteSet(S) BY <2>2, <3>1, <3>2, <3>3, RunsAreFinite
    <3>5. /\ IsFiniteSet(S \cup {a}) /\ Cardinality(S) \in Nat
          /\ Cardinality(S \cup {a}) = IF a \in S THEN Cardinality(S) ELSE Cardinality(S) + 1
      BY <3>4, FS_AddElement, FS_CardinalityType
    <3>6. Cardinality(T) <= Cardinality(S \cup {a}) /\ Cardinality(T) \in Nat
      BY <3>4, <3>5, FS_Subset, FS_CardinalityType
    <3>7. Cardinality(S) <= loopPast.faults BY <3>1 DEF LoopInv, HalfCount
    <3>8. Cardinality(T) <= loopPast'.faults BY <2>3, <3>5, <3>6, <3>7
    <3> QED BY <3>2, <3>8 DEF HalfCount
  <2>10. SpoiledCount'
    <3>1. \A f \in Outputs : f # looper[p].at => outputs'[f] = outputs[f] BY <1>1
    <3> QED BY <1>10, <3>1, SpoiledByFault
  <2>11. LoopTypeOK' BY <1>1, <2>2, <2>3, LoopTypes DEF LoopTypeOK
  <2> QED BY <2>6, <2>7, <2>8, <2>9, <2>10, <2>11 DEF LoopInv
<1> QED BY <1>9, <1>10 DEF AppendCandidate

\* What the rows of a run add to what is under an event.
LEMMA UnderAppended ==
    ASSUME LoopInv, NEW run \in Nat, NEW n \in 1..3, NEW ended \in BOOLEAN,
           ledgered' = ledgered \o Rows(run, n, ended)
    PROVE  /\ ledgered' \in Seq(LoopRow)
           /\ \A k \in DOMAIN ledgered' :
                  (\E j \in DOMAIN ledgered : ledgered'[k] = ledgered[j]) \/ ledgered'[k].run = run
           /\ \A e : Under(e) \subseteq Under(e)'
           /\ Under(Lesson3)' \subseteq Under(Lesson3) \cup {run}
           /\ ~(n = 3 /\ ended) => Under(Lesson3)' \subseteq Under(Lesson3)
           /\ n = 3 /\ ended => run \in Under(Lesson3)' /\ run \in Under(Routing2)'
<1>1. PICK new : new = ledgered' OBVIOUS
<1>2. PICK old \in Seq(LoopRow) : old = ledgered BY LoopTypes
<1>3. new = WithRows(old, run, n, ended) BY <1>1, <1>2 DEF WithRows
<1>4. RowsSay(old, run, n, ended, new)
  <2>1. \A o \in Seq(LoopRow), r \in Nat, m \in 1..3, b \in BOOLEAN :
            \A w : w = WithRows(o, r, m, b) => RowsSay(o, r, m, b, w)
    BY RowsAppended
  <2> QED BY <1>3, <2>1, Zenon
<1>5. \A e : Under(e)' = UnderOf(new, e) /\ Under(e) = UnderOf(old, e)
  BY <1>1, <1>2 DEF Under, UnderOf, RunsOf, Legible
<1> QED BY <1>1, <1>2, <1>4, <1>5 DEF RowsSay

LEMMA AppendLedgerKeeps == ASSUME LoopInv, NEW p \in Loopers, AppendLedger(p) PROVE LoopInv'
<1> DEFINE run == looper[p].run
<1>1. looper[p].at = "ledger" /\ UNCHANGED <<outputs, candidates>> /\ stamp' \in Nat
  BY LoopTypes DEF AppendLedger
<1>2. LooperHolds(p) BY DEF LoopInv, LoopersHold
<1>3. /\ run \in 1..loopPast.begun /\ run \in EndedRuns
      /\ \A k \in DOMAIN ledgered : ledgered[k].run # run
  BY <1>1, <1>2 DEF LooperHolds
<1>4. run \in Nat /\ run \in Runs
  <2>1. EndedRuns \subseteq Runs BY DEF EndedRuns, Runs, RunsOf
  <2> QED BY <1>3, <2>1, LoopTypes
<1>5. Runs' = Runs /\ EndedRuns' = EndedRuns BY <1>1 DEF Runs, RunsOf, EndedRuns
<1>6. \A k \in DOMAIN ledgered : ledgered[k].run \in EndedRuns BY DEF LoopInv, FilesBacked
<1>7. Under(Lesson3) \subseteq Under(Routing2) BY DEF LoopInv, FilesBacked, Lesson3, Routing2
<1>8. \A f \in {"convergence", "debate"} : outputs'[f].by \in loopPast.read \cup {0} BY <1>1 DEF LoopInv, FilesBacked
<1>9. \A f \in Outputs : outputs[f].holds # "absent" => outputs'[f].holds # "absent" BY <1>1
<1> HIDE DEF run
<1>10. ASSUME NEW n \in 1..3, NEW ended \in BOOLEAN, n = 3 => ~ended,
              ledgered' = ledgered \o Rows(run, n, ended), Fails(p)
       PROVE  LoopInv'
  <2>1. ~(n = 3 /\ ended) BY <1>10
  <2>2. /\ ledgered' \in Seq(LoopRow)
        /\ \A k \in DOMAIN ledgered' :
               (\E j \in DOMAIN ledgered : ledgered'[k] = ledgered[j]) \/ ledgered'[k].run = run
        /\ \A e : Under(e) \subseteq Under(e)'
        /\ Under(Lesson3)' \subseteq Under(Lesson3)
    BY <1>4, <1>10, <2>1, UnderAppended
  <2>3. Under(Lesson3)' = Under(Lesson3) BY <2>2
  <2>4. Unrecorded' = Unrecorded BY <1>5, <2>3 DEF Unrecorded, Lesson3
  <2>5. \A k \in DOMAIN ledgered' : ledgered'[k].run \in EndedRuns BY <1>3, <1>6, <2>2
  <2>6. Under(Lesson3)' \subseteq Under(Routing2)' BY <1>7, <2>2, <2>3
  <2>7. Under("lesson_candidate_created")' \subseteq Under("routing_advice_recorded")' BY <2>6 DEF Lesson3, Routing2
  <2>8. \A k \in DOMAIN ledgered' :
            (\E j \in DOMAIN ledgered : ledgered'[k] = ledgered[j]) \/ ledgered'[k].run = looper[p].run
    BY <2>2 DEF run
  <2>9. looper[p].at # "idle" /\ Fails(p) BY <1>1, <1>10
  <2>10. /\ outputs' \in [Outputs -> LoopOutput]
         /\ \A f \in Outputs : f # looper[p].at => outputs'[f] = outputs[f]
    BY <1>1, LoopTypes
  <2> QED BY <1>1, <1>8, <1>9, <2>2, <2>4, <2>5, <2>7, <2>8, <2>9, <2>10, FailKeeps
<1>11. CASE ledgered' = ledgered \o Rows(run, 3, TRUE) /\ Ends(p) /\ UNCHANGED loopPast
  <2>1. looper' = [looper EXCEPT ![p] = Resting] BY <1>11 DEF Ends
  <2>2. 3 \in 1..3 /\ TRUE \in BOOLEAN OBVIOUS
  <2>3. /\ ledgered' \in Seq(LoopRow)
        /\ \A k \in DOMAIN ledgered' :
               (\E j \in DOMAIN ledgered : ledgered'[k] = ledgered[j]) \/ ledgered'[k].run = run
        /\ \A e : Under(e) \subseteq Under(e)'
        /\ Under(Lesson3)' \subseteq Under(Lesson3) \cup {run}
        /\ run \in Under(Lesson3)' /\ run \in Under(Routing2)'
    BY <1>4, <1>11, <2>2, UnderAppended
  <2>4. Under(Lesson3)' = Under(Lesson3) \cup {run} BY <2>3
  <2>5. Under(Lesson3)' \subseteq Under(Routing2)' BY <1>7, <2>3, <2>4
  <2>6. Under("lesson_candidate_created")' \subseteq Under("routing_advice_recorded")' BY <2>5 DEF Lesson3, Routing2
  <2>7. /\ loopPast' = loopPast /\ loopPast \in LoopHistory /\ loopPast.begun \in Nat /\ loopPast.faults \in Nat
    BY <1>11, LoopTypes
  <2>8. \A k \in DOMAIN ledgered' : ledgered'[k].run \in EndedRuns BY <1>3, <1>6, <2>3
  <2>9. /\ loopPast'.begun >= loopPast.begun /\ loopPast.read \subseteq loopPast'.read /\ loopPast' \in LoopHistory
        /\ loopPast'.faults \in Nat /\ loopPast'.faults >= loopPast.faults
    BY <2>7
  <2>10. /\ looper' \in [Loopers -> LoopLocal] /\ looper'[p] = Resting
         /\ \A q \in Loopers : q # p => looper'[q] = looper[q] /\ LooperHolds(q)'
         /\ \A q, r \in Loopers :
                looper'[q].at # "idle" /\ looper'[r].at # "idle" /\ looper'[q].run = looper'[r].run => q = r
    <3>1. \A k2 \in DOMAIN ledgered' :
               \/ \E j \in DOMAIN ledgered : ledgered'[k2] = ledgered[j]
               \/ looper[p].at # "idle" /\ ledgered'[k2].run = looper[p].run
      BY <1>1, <2>3 DEF run
    <3>2. EndedRuns \subseteq EndedRuns' BY <1>5
    <3> QED BY <1>9, <2>1, <2>9, <3>1, <3>2, RestingFacts, OthersHold
  <2>11. LooperHolds(p)' BY <2>10, RestingFacts DEF LooperHolds
  <2>12. LoopersHold' BY <2>10, <2>11 DEF LoopersHold
  <2>13. loopPast'.read = loopPast.read BY <2>7
  <2>14. FilesBacked' BY <1>1, <1>8, <1>9, <2>6, <2>8, <2>9, <2>13, BackedStays
  <2>15. LoopCount'
    <3>1. run \notin Under(Lesson3)
      <4>1. Under(Lesson3) \subseteq {ledgered[k].run : k \in DOMAIN ledgered} BY DEF Under, RunsOf, Legible
      <4> QED BY <1>3, <4>1
    <3>2. PICK U : U = Unrecorded OBVIOUS
    <3>3. PICK V : V = Unrecorded' OBVIOUS
    <3>4. V = U \ {run} /\ run \in U
      BY <1>4, <1>5, <2>4, <3>1, <3>2, <3>3 DEF Unrecorded, Lesson3
    <3>5. IsFiniteSet(U)
      <4>1. IsFiniteSet(Runs) BY RunsAreFinite
      <4> QED BY <3>2, <4>1, FS_Subset DEF Unrecorded
    <3>6. Cardinality(U) \in Nat BY <3>5, FS_CardinalityType
    <3>7. Cardinality(V) = Cardinality(U) - 1 BY <3>4, <3>5, FS_RemoveElement
    <3>8. PICK O : O = Owing OBVIOUS
    <3>9. PICK Q : Q = Owing' OBVIOUS
    <3>10. Q = O \ {p} /\ p \in O BY <1>1, <2>10, <3>8, <3>9, RestingFacts DEF Owing
    <3>11. IsFiniteSet(O) /\ Cardinality(O) \in Nat
      <4>1. O \subseteq Loopers BY <3>8 DEF Owing
      <4> QED BY <4>1, OwingIsFinite
    <3>12. Cardinality(Q) = Cardinality(O) - 1 BY <3>10, <3>11, FS_RemoveElement
    <3>13. Cardinality(U) <= loopPast.faults + Cardinality(O) BY <3>2, <3>8 DEF LoopInv, LoopCount
    <3>14. Cardinality(V) <= loopPast.faults + Cardinality(Q) BY <2>7, <3>6, <3>7, <3>11, <3>12, <3>13
    <3> QED BY <2>7, <3>3, <3>9, <3>14 DEF LoopCount
  <2>16. HalfCount' BY <1>1, <2>9, HalvesStay
  <2>17. SpoiledCount'
    <3>1. \A f \in Outputs : ~(looper[p].at = f /\ looper[p].open) BY <1>1, OutputNames
    <3> QED BY <1>1, <2>7, <2>10, <3>1, SpoiledStay
  <2>18. LoopTypeOK' BY <1>1, <2>3, <2>7, <2>10, LoopTypes DEF LoopTypeOK
  <2> QED BY <2>12, <2>14, <2>15, <2>16, <2>17, <2>18 DEF LoopInv
<1> QED BY <1>10, <1>11 DEF AppendLedger, run

\* A second passes, or nothing happens.
LEMMA FilesRestKeeps ==
    ASSUME LoopInv, UNCHANGED <<outputs, candidates, ledgered, looper, loopPast>>, stamp' \in Nat
    PROVE  LoopInv'
<1>1. Runs' = Runs /\ EndedRuns' = EndedRuns /\ \A e : Under(e)' = Under(e)
  BY DEF Runs, RunsOf, EndedRuns, Under, Legible
<1>2. Unrecorded' = Unrecorded /\ Owing' = Owing BY <1>1 DEF Unrecorded, Owing
<1>3. LoopCount' BY <1>2 DEF LoopInv, LoopCount
<1>4. FilesBacked' BY <1>1 DEF LoopInv, FilesBacked
<1>5. LoopersHold'
  <2>1. ASSUME NEW q \in Loopers PROVE LooperHolds(q)' BY <1>1 DEF LoopInv, LoopersHold, LooperHolds
  <2> QED BY <2>1 DEF LoopInv, LoopersHold
<1>6. LoopTypeOK' BY LoopTypes DEF LoopTypeOK
<1>7. Halves' = Halves /\ Spoiled' = Spoiled BY DEF Halves, Spoiled
<1> QED BY <1>3, <1>4, <1>5, <1>6, <1>7 DEF LoopInv, HalfCount, SpoiledCount

LEMMA LoopInitHolds == ASSUME LoopInit PROVE LoopInv
<1>1. /\ stamp = 1 /\ outputs = [f \in Outputs |-> [holds |-> "absent", by |-> 0]]
      /\ candidates = <<>> /\ ledgered = <<>>
      /\ looper = [p \in Loopers |-> Resting] /\ loopPast = [begun |-> 0, read |-> {}, faults |-> 0]
  BY DEF LoopInit
<1>2. DOMAIN candidates = {} /\ DOMAIN ledgered = {} BY <1>1
<1>3. Runs = {} /\ Halves = {} /\ \A e : Under(e) = {} BY <1>2 DEF Runs, RunsOf, Halves, Under, Legible
<1>4. Owing = {} /\ Unrecorded = {} BY <1>1, <1>3, RestingFacts DEF Owing, Unrecorded
<1>5. Spoiled = {} BY <1>1 DEF Spoiled
<1>6. LoopCount /\ HalfCount /\ SpoiledCount
  <2>1. Cardinality({}) = 0 BY FS_EmptySet
  <2> QED BY <1>1, <1>3, <1>4, <1>5, <2>1 DEF LoopCount, HalfCount, SpoiledCount
<1>7. FilesBacked
  <2>1. {"convergence", "debate"} \subseteq Outputs BY DEF Outputs
  <2> QED BY <1>1, <1>2, <1>3, <2>1 DEF FilesBacked
<1>8. LoopersHold BY <1>1, RestingFacts DEF LoopersHold, LooperHolds
<1>9. LoopTypeOK
  <2>1. outputs \in [Outputs -> LoopOutput] BY <1>1 DEF LoopOutput
  <2>2. looper \in [Loopers -> LoopLocal] BY <1>1, RestingFacts
  <2>3. loopPast \in LoopHistory BY <1>1 DEF LoopHistory
  <2> QED BY <1>1, <2>1, <2>2, <2>3 DEF LoopTypeOK
<1> QED BY <1>6, <1>7, <1>8, <1>9 DEF LoopInv

\* A run in the ledger whose candidate cannot be read stands behind a line without its end.
LEMMA UnreadCount == ASSUME LoopInv PROVE Cardinality(Under(Lesson3) \ LegibleRuns) <= loopPast.faults
<1>1. PICK n \in Nat : n = Len(candidates) /\ DOMAIN candidates = 1..n BY LoopTypes
<1> DEFINE Behind == [h \in Halves |-> IF h + 1 \in DOMAIN candidates THEN candidates[h + 1].run ELSE 0]
           Image == {Behind[h] : h \in Halves}
<1>2. Behind \in Surjection(Halves, Image) BY DEF Surjection
<1>3. IsFiniteSet(Halves) BY RunsAreFinite
<1>4. IsFiniteSet(Image) /\ Cardinality(Image) <= Cardinality(Halves) BY <1>2, <1>3, FS_Surjection
<1>5. Under(Lesson3) \ LegibleRuns \subseteq Image
  <2> SUFFICES ASSUME NEW r \in Under(Lesson3), r \notin LegibleRuns PROVE r \in Image OBVIOUS
  <2>1. r \in EndedRuns
    <3>1. Under(Lesson3) \subseteq {ledgered[k].run : k \in DOMAIN ledgered} BY DEF Under, RunsOf, Legible
    <3> QED BY <3>1 DEF LoopInv, FilesBacked
  <2>2. PICK k \in DOMAIN candidates : candidates[k].ended /\ candidates[k].run = r BY <2>1 DEF EndedRuns
  <2>3. k # 1 /\ ~candidates[k - 1].ended BY <2>2 DEF LegibleRuns, RunsOf, Legible
  <2>4. k - 1 \in DOMAIN candidates /\ (k - 1) + 1 = k BY <1>1, <2>2, <2>3
  <2>5. k - 1 \in Halves BY <2>3, <2>4 DEF Halves
  <2>6. Behind[k - 1] = r BY <2>2, <2>4, <2>5
  <2> QED BY <2>5, <2>6
<1> HIDE DEF Behind, Image
<1>6. PICK c \in Nat : c = Cardinality(Halves) BY <1>3, FS_CardinalityType
<1>7. PICK i \in Nat : i = Cardinality(Image) BY <1>4, FS_CardinalityType
<1>8. PICK U : U = Under(Lesson3) \ LegibleRuns OBVIOUS
<1>9. Cardinality(U) <= i /\ Cardinality(U) \in Nat BY <1>4, <1>5, <1>7, <1>8, FS_Subset, FS_CardinalityType
<1>10. c <= loopPast.faults BY <1>6 DEF LoopInv, HalfCount
<1>11. Cardinality(U) <= loopPast.faults BY <1>4, <1>6, <1>7, <1>9, <1>10, LoopTypes
<1> QED BY <1>8, <1>11

LEMMA LoopInvSuffices == ASSUME LoopInv PROVE LessonsAreBacked
<1>1. Under("artifact_created") \subseteq Runs
  <2>1. Under("artifact_created") \subseteq {ledgered[k].run : k \in DOMAIN ledgered} BY DEF Under, RunsOf, Legible
  <2>2. EndedRuns \subseteq Runs BY DEF EndedRuns, Runs, RunsOf
  <2> QED BY <2>1, <2>2 DEF LoopInv, FilesBacked
<1>2. Cardinality(Under("lesson_candidate_created") \ LegibleRuns) <= loopPast.faults BY UnreadCount DEF Lesson3
<1> QED BY <1>1, <1>2 DEF LoopInv, FilesBacked, LoopCount, SpoiledCount, Unrecorded, Owing, LessonsAreBacked

\* For any processes, plans and bounds, with outputs that are rewritten in place and lines
\* that may be left without their end: a lesson is drawn from three readable rounds only, and
\* a candidate without its complete record in the ledger, a recorded candidate that cannot be
\* read and an output that is left empty or cut are one fault each (run_debate_loop in
\* provider mode, _write_json_artifact, append_candidate_record, record_debate_loop_ledger).
THEOREM LessonsStayBacked == LoopSpec => []LessonsAreBacked
<1>1. LoopInit => LoopInv BY LoopInitHolds
<1>2. LoopInv /\ [LoopNext]_loopVars => LoopInv'
  <2> SUFFICES ASSUME LoopInv, [LoopNext]_loopVars PROVE LoopInv' OBVIOUS
  <2>1. ASSUME NEW p \in Loopers, Begin(p) PROVE LoopInv' BY <2>1, BeginKeeps
  <2>2. ASSUME NEW p \in Loopers, Ask(p) PROVE LoopInv' BY <2>2, AskKeeps
  <2>3. ASSUME NEW p \in Loopers, BuildRounds(p) PROVE LoopInv' BY <2>3, BuildRoundsKeeps
  <2>4. ASSUME NEW p \in Loopers, Empty(p) \/ Fill(p) \/ FillFails(p) \/ Settle(p) PROVE LoopInv'
    BY <2>4, EmptyKeeps, FillKeeps, FillFailsKeeps, SettleKeeps
  <2>5. ASSUME NEW p \in Loopers, AppendCandidate(p) PROVE LoopInv' BY <2>5, AppendCandidateKeeps
  <2>6. ASSUME NEW p \in Loopers, AppendLedger(p) PROVE LoopInv' BY <2>6, AppendLedgerKeeps
  <2>7. ASSUME NEW p \in Loopers, LoopDie(p) PROVE LoopInv' BY <2>7, LoopDieKeeps
  <2>8. CASE Second
    <3>1. UNCHANGED <<outputs, candidates, ledgered, looper, loopPast>> /\ stamp' \in Nat
      BY <2>8, LoopTypes DEF Second
    <3> QED BY <3>1, FilesRestKeeps
  <2>9. CASE UNCHANGED loopVars
    <3>1. UNCHANGED <<outputs, candidates, ledgered, looper, loopPast>> /\ stamp' \in Nat
      BY <2>9, LoopTypes DEF loopVars
    <3> QED BY <3>1, FilesRestKeeps
  <2> QED BY <2>1, <2>2, <2>3, <2>4, <2>5, <2>6, <2>7, <2>8, <2>9 DEF LoopNext
<1>3. LoopInv => LessonsAreBacked BY LoopInvSuffices
<1> QED BY <1>1, <1>2, <1>3, PTL DEF LoopSpec

-----------------------------------------------------------------------------
(* Least members and joined sequences.                                     *)

\* Some natural numbers have a least one.
LEMMA HasLeast ==
    ASSUME NEW S, S \subseteq Nat, S # {}
    PROVE  \E m \in S : \A k \in S : m <= k
  <1> DEFINE R == OpToRel(<, Nat)
  <1>1. \A x, y \in Nat : <<x, y>> \in R <=> x < y
    BY DEF OpToRel
  <1>2. IsWellFoundedOn(R, Nat)
    BY NatLessThanWellFounded
  <1> HIDE DEF R
  <1>3. PICK m \in S : \A k \in S : ~ <<k, m>> \in R
    BY <1>2, WFMin
  <1>4. ASSUME NEW k \in S PROVE m <= k
    <2>1. m \in Nat /\ k \in Nat
      OBVIOUS
    <2>2. ~ k < m
      BY <1>1, <1>3, <2>1
    <2> QED
      BY <2>1, <2>2
  <1> QED
    BY <1>4

\* The sequences joined so far, as FlattenSeq counts them.
Joins(g, s, n) == \A i \in 1..n : g[i] = IF i = 1 THEN s[i] ELSE g[i - 1] \o s[i]

\* They can be joined.
LEMMA JoinsExist ==
    ASSUME NEW S, NEW s \in Seq(Seq(S)), NEW n \in 1..Len(s)
    PROVE  \E g \in [1..n -> Seq(S)] : Joins(g, s, n)
<1> DEFINE T == {k \in 1..Len(s) : ~\E g \in [1..k -> Seq(S)] : Joins(g, s, k)}
<1>0. Len(s) \in Nat /\ \A i \in 1..Len(s) : s[i] \in Seq(S)
  OBVIOUS
<1>1. SUFFICES ASSUME T # {}
               PROVE  FALSE
  OBVIOUS
<1>2. T \subseteq Nat
  BY <1>0
<1>3. PICK m \in T : \A k \in T : m <= k
  <2> HIDE DEF T
  <2> QED
    BY <1>1, <1>2, HasLeast
<1>4. m \in 1..Len(s) /\ ~\E g \in [1..m -> Seq(S)] : Joins(g, s, m)
  OBVIOUS
<1>5. CASE m = 1
  <2>1. [i \in 1..1 |-> s[1]] \in [1..1 -> Seq(S)]
    BY <1>0, <1>4
  <2>2. Joins([i \in 1..1 |-> s[1]], s, 1)
    BY DEF Joins
  <2> QED
    BY <1>4, <1>5, <2>1, <2>2
<1>6. CASE m # 1
  <2>1. m - 1 \in 1..Len(s) /\ m - 1 \notin T
    <3>1. m - 1 \in 1..Len(s) /\ ~(m <= m - 1)
      BY <1>0, <1>4, <1>6
    <3> HIDE DEF T
    <3> QED
      BY <1>3, <3>1
  <2>2. PICK g \in [1..(m - 1) -> Seq(S)] : Joins(g, s, m - 1)
    BY <2>1
  <2>3. PICK h : h = [i \in 1..m |-> IF i < m THEN g[i] ELSE g[m - 1] \o s[m]]
    OBVIOUS
  <2>4. g[m - 1] \in Seq(S) /\ s[m] \in Seq(S)
    BY <1>0, <1>4, <1>6
  <2>5. g[m - 1] \o s[m] \in Seq(S)
    BY <2>4
  <2>6. h \in [1..m -> Seq(S)]
    BY <1>4, <2>3, <2>5
  <2>7. ASSUME NEW i \in 1..m
        PROVE  h[i] = IF i = 1 THEN s[i] ELSE h[i - 1] \o s[i]
    <3>1. CASE i < m
      <4>1. i \in 1..(m - 1) /\ (i # 1 => i - 1 \in 1..m /\ i - 1 < m)
        BY <1>4, <3>1
      <4>2. h[i] = g[i] /\ (i # 1 => h[i - 1] = g[i - 1])
        BY <2>3, <3>1, <4>1
      <4> QED
        BY <2>2, <4>1, <4>2 DEF Joins
    <3>2. CASE i = m
      <4>1. m - 1 \in 1..m /\ m - 1 < m /\ ~(m < m)
        BY <1>4, <1>6
      <4> QED
        BY <1>6, <2>3, <3>2, <4>1
    <3> QED
      BY <1>4, <3>1, <3>2
  <2> QED
    BY <1>4, <2>6, <2>7 DEF Joins
<1> QED
  BY <1>5, <1>6

\* The joined sequence is typed as the joined ones are, and has their elements.
LEMMA FlattenFacts ==
    ASSUME NEW S, NEW s \in Seq(Seq(S))
    PROVE  /\ FlattenSeq(s) \in Seq(S)
           /\ \A i \in DOMAIN s : \A j \in DOMAIN s[i] : \E k \in DOMAIN FlattenSeq(s) : FlattenSeq(s)[k] = s[i][j]
<1>0. Len(s) \in Nat /\ DOMAIN s = 1..Len(s) /\ \A i \in 1..Len(s) : s[i] \in Seq(S)
  OBVIOUS
<1>1. CASE Len(s) = 0
  <2>1. s = <<>> /\ DOMAIN s = {} /\ FlattenSeq(s) = s
    BY <1>0, <1>1 DEF FlattenSeq
  <2>2. <<>> \in Seq(S)
    OBVIOUS
  <2>3. FlattenSeq(s) = <<>>
    BY <2>1
  <2>4. FlattenSeq(s) \in Seq(S)
    BY <2>2, <2>3, Zenon
  <2> QED
    BY <2>1, <2>4, Zenon
<1>2. CASE Len(s) > 0
  <2>1. PICK f : f = [i \in 1..Len(s) |-> IF i = 1 THEN s[i] ELSE f[i - 1] \o s[i]] /\ FlattenSeq(s) = f[Len(s)]
    <3>1. PICK g \in [1..Len(s) -> Seq(S)] : Joins(g, s, Len(s))
      BY <1>0, <1>2, JoinsExist
    <3>2. g = [i \in 1..Len(s) |-> IF i = 1 THEN s[i] ELSE g[i - 1] \o s[i]]
      BY <3>1 DEF Joins
    <3>3. FlattenSeq(s) = (CHOOSE f : f = [i \in 1..Len(s) |-> IF i = 1 THEN s[i] ELSE f[i - 1] \o s[i]])[Len(s)]
      BY <1>2 DEF FlattenSeq
    <3> QED
      BY <3>2, <3>3
  <2>2. \A i \in 1..Len(s) : f[i] = IF i = 1 THEN s[i] ELSE f[i - 1] \o s[i]
    BY <2>1
  <2>3. ASSUME NEW n \in 1..Len(s)
        PROVE  f[n] \in Seq(S)
    <3> DEFINE T == {k \in 1..Len(s) : f[k] \notin Seq(S)}
    <3>1. SUFFICES ASSUME T # {}
                   PROVE  FALSE
      OBVIOUS
    <3>2. T \subseteq Nat
      BY <1>0
    <3>3. PICK m \in T : \A k \in T : m <= k
      <4> HIDE DEF T
      <4> QED
        BY <3>1, <3>2, HasLeast
    <3>4. m \in 1..Len(s) /\ f[m] \notin Seq(S)
      OBVIOUS
    <3>5. m # 1
      BY <1>0, <2>2, <3>4
    <3>6. m - 1 \in 1..Len(s) /\ ~(m <= m - 1)
      BY <1>0, <3>4, <3>5
    <3>7. m - 1 \notin T
      <4> HIDE DEF T
      <4> QED
        BY <3>3, <3>6
    <3>8. f[m - 1] \in Seq(S) /\ s[m] \in Seq(S)
      BY <1>0, <3>4, <3>6, <3>7
    <3>9. PICK p \in Seq(S), q \in Seq(S) : p = f[m - 1] /\ q = s[m]
      BY <3>8
    <3>10. f[m] = p \o q
      BY <2>2, <3>4, <3>5, <3>9
    <3> QED
      BY <3>4, <3>9, <3>10
  <2>4. ASSUME NEW i \in DOMAIN s, NEW j \in DOMAIN s[i]
        PROVE  \E k \in DOMAIN f[Len(s)] : f[Len(s)][k] = s[i][j]
    <3> DEFINE T == {n \in i..Len(s) : ~\E k \in DOMAIN f[n] : f[n][k] = s[i][j]}
    <3>1. SUFFICES ASSUME T # {}
                   PROVE  FALSE
      <4>1. Len(s) \in i..Len(s)
        BY <1>0
      <4> QED
        BY <4>1
    <3>2. T \subseteq Nat /\ i \in 1..Len(s)
      BY <1>0
    <3>3. PICK m \in T : \A k \in T : m <= k
      <4> HIDE DEF T
      <4> QED
        BY <3>1, <3>2, HasLeast
    <3>4. m \in i..Len(s) /\ ~\E k \in DOMAIN f[m] : f[m][k] = s[i][j]
      OBVIOUS
    <3>5. m \in 1..Len(s)
      BY <1>0, <3>2, <3>4
    <3>6. f[m] = IF m = 1 THEN s[m] ELSE f[m - 1] \o s[m]
      BY <2>2, <3>5
    <3>7. CASE m = 1
      BY <1>0, <3>2, <3>4, <3>5, <3>6, <3>7
    <3>8. CASE m # 1
      <4>1. m - 1 \in 1..Len(s)
        BY <1>0, <3>5, <3>8
      <4>2. PICK p : p = f[m - 1]
        OBVIOUS
      <4>3. p \in Seq(S) /\ s[m] \in Seq(S) /\ f[m] = p \o s[m]
        BY <1>0, <2>3, <3>5, <3>6, <3>8, <4>1, <4>2
      <4>4. CASE m = i
        <5>1. j \in 1..Len(s[m])
          BY <4>3, <4>4
        <5>2. Len(p) + j \in DOMAIN f[m] /\ f[m][Len(p) + j] = s[m][j]
          BY <4>3, <5>1
        <5> QED
          BY <3>4, <4>4, <5>2
      <4>5. CASE m # i
        <5>1. m - 1 \in i..Len(s) /\ ~(m <= m - 1)
          BY <1>0, <3>2, <3>4, <4>5
        <5>2. m - 1 \notin T
          <6> HIDE DEF T
          <6> QED
            BY <3>3, <5>1
        <5>3. PICK k \in DOMAIN p : p[k] = s[i][j]
          BY <4>2, <5>1, <5>2
        <5>4. k \in DOMAIN f[m] /\ f[m][k] = p[k]
          BY <4>3, <5>3
        <5> QED
          BY <3>4, <5>3, <5>4
      <4> QED
        BY <4>4, <4>5
    <3> QED
      BY <3>7, <3>8
  <2>5. Len(s) \in 1..Len(s)
    BY <1>0, <1>2
  <2> QED
    <3>1. PICK all : all = f[Len(s)]
      OBVIOUS
    <3>2. all \in Seq(S) /\ FlattenSeq(s) = all
      BY <2>1, <2>3, <2>5, <3>1
    <3>3. \A i \in DOMAIN s : \A j \in DOMAIN s[i] : \E k \in DOMAIN all : all[k] = s[i][j]
      BY <2>4, <3>1
    <3> QED
      BY <3>2, <3>3, Zenon
<1> QED
  BY <1>0, <1>1, <1>2

-----------------------------------------------------------------------------
(* DebateLoop: types and the inductive invariant.                          *)

External == {<<"external", i>> : i \in Nat}
Place == {<<"place", i, j>> : i \in Nat, j \in Nat}
Given == [id : Named \cup {None} \cup External, severity : {"critical", "high", "low", "absent"},
          status : Unsettled \cup Settled \cup {"absent"}, addresses : Named \cup {None}]
Told == [id : Named \cup External \cup Place, severity : {"critical", "high", "low"},
         status : Unsettled \cup Settled, addresses : Named \cup {None}]
Round == [objections : Seq(Given), external : BOOLEAN]

\* What _inject_external_action_blocks adds to round i.
Block(i) == [id |-> <<"external", i>>, severity |-> "critical", status |-> "needs_user_decision", addresses |-> None]

\* The objections that nothing answers.
Unanswered(os) == {n \in DOMAIN os : os[n].status \in Unsettled /\ os[n].id \notin Addressed(os)}

\* A debate that run_debate has made.
DebateIs(d) ==
    /\ d.objections \in Seq(Told) /\ Valid(d.objections)
    /\ d.unresolved = {d.objections[n].id : n \in Unanswered(d.objections)}
    /\ d.status = CASE Unanswered(d.objections) = {} -> "converged"
                    [] \E n \in Unanswered(d.objections) : d.objections[n].status = "needs_user_decision" -> "waiting_for_user"
                    [] OTHER -> "running"

ReasonHolds ==
    stage # "input" =>
        /\ reason \in {"early_no_unresolved_high_critical", "input_exhausted"} => Unresolved(rounds) = {}
        /\ reason = "input_exhausted_with_unresolved_blockers" => Unresolved(rounds) # {}

BlocksHold ==
    stage # "input" =>
        \A i \in DOMAIN rounds : rounds[i].external =>
            \E j \in DOMAIN rounds[i].objections : rounds[i].objections[j] = Block(i)

DebateInv ==
    /\ rounds \in Seq(Round) /\ ReasonHolds /\ BlocksHold
    /\ stage \in {"input", "selected", "debated", "converged", "refused"}
    /\ stage \in {"debated", "converged"} =>
           debate.objections = Objections(Normalized(rounds)) /\ DebateIs(debate)
    /\ stage = "converged" => convergence = Converged(debate)

-----------------------------------------------------------------------------
(* The debate and its convergence.                                         *)

\* Of two objections with one id there is one; what is addressed is open and came before.
LEMMA DebateOrder ==
    ASSUME NEW os \in Seq(Told), Valid(os)
    PROVE  /\ \A m, n \in DOMAIN os : os[m].id = os[n].id => m = n
           /\ \A k, n \in DOMAIN os : os[k].addresses = os[n].id =>
                 n < k /\ os[n].status \in Unsettled /\ os[k].status \in Settled \cup {"needs_user_decision"}
           /\ \A n \in DOMAIN os : os[n].id # None /\ os[n].status \in Unsettled \cup Settled
<1>0. Len(os) \in Nat /\ DOMAIN os = 1..Len(os) /\ \A n \in DOMAIN os : os[n] \in Told
  OBVIOUS
<1>1. ASSUME NEW m \in DOMAIN os, NEW n \in DOMAIN os, os[m].id = os[n].id
      PROVE  m = n
  <2>1. m \in Nat /\ n \in Nat
    BY <1>0
  <2>2. CASE m < n
    <3>1. m \in 1..(n - 1)
      BY <1>0, <2>1, <2>2
    <3> QED
      BY <1>1, <3>1 DEF Valid
  <2>3. CASE n < m
    <3>1. n \in 1..(m - 1)
      BY <1>0, <2>1, <2>3
    <3> QED
      BY <1>1, <3>1 DEF Valid
  <2> QED
    BY <2>1, <2>2, <2>3
<1>2. \A n \in DOMAIN os : os[n].id # None
  <2>1. ASSUME NEW n \in DOMAIN os
        PROVE  os[n].id # None
    <3>1. PICK id \in Named \cup External \cup Place : id = os[n].id
      BY <1>0 DEF Told
    <3>2. id[1] \in {"named", "external", "place"}
      BY DEF Named, External, Place
    <3>3. None[1] = "none"
      BY DEF None
    <3> QED
      BY <3>1, <3>2, <3>3
  <2> QED
    BY <2>1
<1>3. ASSUME NEW k \in DOMAIN os, NEW n \in DOMAIN os, os[k].addresses = os[n].id
      PROVE  n < k /\ os[n].status \in Unsettled /\ os[k].status \in Settled \cup {"needs_user_decision"}
  <2>1. os[k].addresses # None
    BY <1>2, <1>3
  <2>2. PICK m \in 1..(k - 1) : os[m].id = os[k].addresses /\ os[m].status \in Unsettled
    BY <2>1 DEF Valid
  <2>3. m \in DOMAIN os /\ m < k
    BY <1>0, <2>2
  <2>4. m = n
    BY <1>1, <1>3, <2>2, <2>3
  <2> QED
    BY <2>1, <2>2, <2>3, <2>4 DEF Valid
<1>4. \A n \in DOMAIN os : os[n].status \in Unsettled \cup Settled
  <2>1. \A o \in Told : o.status \in Unsettled \cup Settled
    BY DEF Told
  <2> QED
    BY <1>0, <2>1
<1> QED
  BY <1>1, <1>2, <1>3, <1>4

\* The sections of the convergence, objection by objection.
SectionsAre(os, unresolved, c) ==
    /\ \A n \in DOMAIN os : os[n].id \in c.accepted <=> os[n].status = "accepted"
    /\ \A n \in DOMAIN os : os[n].id \in c.rejected <=> os[n].status = "rejected"
    /\ \A x : x \in c.carried <=> \E n \in Unanswered(os) : x = <<os[n].id, CarriedTo(os[n])>>
    /\ \A x : x \in c.decisions <=> \E n \in Unanswered(os) : x = os[n].id /\ CarriedTo(os[n]) = "user_decision"
    /\ c.decision = IF c.decisions # {} THEN "needs_user_decision"
                    ELSE IF c.carried # {} THEN "needs_more_evidence" ELSE "accepted"
    /\ \A n \in DOMAIN os : os[n].id \in unresolved <=> n \in Unanswered(os)

LEMMA Sections ==
    ASSUME NEW d, DebateIs(d), NEW os, os = d.objections, NEW c, c = Converged(d)
    PROVE  SectionsAre(os, d.unresolved, c)
<1>0. os \in Seq(Told) /\ Valid(os) /\ d.unresolved = {os[n].id : n \in Unanswered(os)} /\ Unanswered(os) \subseteq DOMAIN os
  BY DEF DebateIs, Unanswered
<1>1. ToSet(os) = {os[n] : n \in DOMAIN os}
  BY DEF ToSet
<1>u. \A m, n \in DOMAIN os : os[m].id = os[n].id => m = n
  BY <1>0, DebateOrder
<1>c. /\ c.accepted = {o.id : o \in {x \in ToSet(os) : x.status = "accepted"}}
      /\ c.rejected = {o.id : o \in {x \in ToSet(os) : x.status = "rejected"}}
      /\ c.carried = {<<o.id, CarriedTo(o)>> : o \in {x \in ToSet(os) : x.status \in Unsettled /\ x.id \in d.unresolved}}
      /\ c.decisions = {x[1] : x \in {y \in c.carried : y[2] = "user_decision"}}
      /\ c.decision = IF c.decisions # {} THEN "needs_user_decision"
                      ELSE IF c.carried # {} THEN "needs_more_evidence" ELSE "accepted"
  BY DEF Converged
<1>2. \A n \in DOMAIN os : os[n].id \in d.unresolved <=> n \in Unanswered(os)
  BY <1>0, <1>u
<1>3. ASSUME NEW n \in DOMAIN os
      PROVE  /\ os[n].id \in c.accepted <=> os[n].status = "accepted"
             /\ os[n].id \in c.rejected <=> os[n].status = "rejected"
  BY <1>1, <1>u, <1>c
<1>4. ASSUME NEW x
      PROVE  x \in c.carried <=> \E n \in Unanswered(os) : x = <<os[n].id, CarriedTo(os[n])>>
  <2>1. \A n \in Unanswered(os) : n \in DOMAIN os /\ os[n].status \in Unsettled /\ os[n].id \in d.unresolved
    BY <1>0, <1>2 DEF Unanswered
  <2>2. \A o \in ToSet(os) : o.status \in Unsettled /\ o.id \in d.unresolved => \E n \in Unanswered(os) : o = os[n]
    BY <1>1, <1>2
  <2> QED
    BY <1>1, <1>c, <2>1, <2>2
<1>5. ASSUME NEW x
      PROVE  x \in c.decisions <=> \E n \in Unanswered(os) : x = os[n].id /\ CarriedTo(os[n]) = "user_decision"
  <2>1. ASSUME x \in c.decisions
        PROVE  \E n \in Unanswered(os) : x = os[n].id /\ CarriedTo(os[n]) = "user_decision"
    <3>1. PICK y \in c.carried : x = y[1] /\ y[2] = "user_decision"
      BY <1>c, <2>1
    <3>2. PICK n \in Unanswered(os) : y = <<os[n].id, CarriedTo(os[n])>>
      BY <1>4, <3>1
    <3> QED
      BY <3>1, <3>2
  <2>2. ASSUME NEW n \in Unanswered(os), x = os[n].id, CarriedTo(os[n]) = "user_decision"
        PROVE  x \in c.decisions
    <3>1. PICK y : y = <<os[n].id, CarriedTo(os[n])>>
      OBVIOUS
    <3>2. y \in c.carried
      BY <1>4, <3>1
    <3>3. y[1] = x /\ y[2] = "user_decision"
      BY <2>2, <3>1
    <3> QED
      BY <1>c, <3>2, <3>3
  <2> QED
    BY <2>1, <2>2
<1> QED
  BY <1>0, <1>2, <1>3, <1>4, <1>5, <1>c DEF SectionsAre

\* What is settled by an objection is settled by a later one.
LEMMA Answers ==
    ASSUME NEW os \in Seq(Told), Valid(os), NEW k \in DOMAIN os
    PROVE  /\ os[k].id \in Addressed(os) <=>
                 \E m \in k + 1 .. Len(os) : os[m].addresses = os[k].id /\ os[m].status \in Settled
           /\ os[k].id \in Addressed(os) => os[k].status \in Unsettled
<1>0. Len(os) \in Nat /\ DOMAIN os = 1..Len(os) /\ k \in Nat
  OBVIOUS
<1>1. \A m \in DOMAIN os : os[m].addresses = os[k].id => k < m /\ os[k].status \in Unsettled
  BY DebateOrder
<1>2. \A m \in DOMAIN os : k < m => m \in k + 1 .. Len(os)
  BY <1>0
<1>3. \A m \in k + 1 .. Len(os) : m \in DOMAIN os
  BY <1>0
<1>4. os[k].id \in Addressed(os) <=> \E m \in DOMAIN os : os[m].addresses = os[k].id /\ os[m].status \in Settled
  BY DEF Addressed
<1> QED
  BY <1>1, <1>2, <1>3, <1>4

\* convergence.py accepts its own record.
LEMMA ConvergePasses ==
    ASSUME NEW d, DebateIs(d)
    PROVE  Checks(Converged(d), d)
<1>1. PICK os, c : os = d.objections /\ c = Converged(d)
  OBVIOUS
<1> DEFINE ids == {x[1] : x \in c.carried}
           critical == {o.id : o \in {x \in ToSet(os) : x.severity = "critical"}}
<1>0. os \in Seq(Told) /\ Valid(os) /\ Unanswered(os) \subseteq DOMAIN os /\ ToSet(os) = {os[n] : n \in DOMAIN os}
  BY <1>1 DEF DebateIs, Unanswered, ToSet
<1>u. \A m, n \in DOMAIN os : os[m].id = os[n].id => m = n
  BY <1>0, DebateOrder
<1>a. SectionsAre(os, d.unresolved, c)
  BY <1>1, Sections
<1>s. /\ \A n \in DOMAIN os : os[n].id \in c.accepted <=> os[n].status = "accepted"
      /\ \A n \in DOMAIN os : os[n].id \in c.rejected <=> os[n].status = "rejected"
      /\ \A x : x \in c.carried <=> \E n \in Unanswered(os) : x = <<os[n].id, CarriedTo(os[n])>>
      /\ \A x : x \in c.decisions <=> \E n \in Unanswered(os) : x = os[n].id /\ CarriedTo(os[n]) = "user_decision"
      /\ c.decision = IF c.decisions # {} THEN "needs_user_decision"
                      ELSE IF c.carried # {} THEN "needs_more_evidence" ELSE "accepted"
  BY <1>a DEF SectionsAre
<1>2. \A n \in Unanswered(os) : os[n].id \in ids
  <2>1. ASSUME NEW n \in Unanswered(os) PROVE os[n].id \in ids
    <3>1. PICK y : y = <<os[n].id, CarriedTo(os[n])>>
      OBVIOUS
    <3>2. y \in c.carried /\ y[1] = os[n].id
      BY <1>s, <3>1
    <3> QED
      BY <3>2
  <2> QED
    BY <2>1
<1>3. d.unresolved \subseteq ids
  BY <1>1, <1>2 DEF DebateIs
<1>4. critical \subseteq c.accepted \cup c.rejected \cup ids \cup Addressed(os)
  <2>1. ASSUME NEW n \in DOMAIN os
        PROVE  os[n].id \in c.accepted \cup c.rejected \cup ids \cup Addressed(os)
    <3>1. os[n].status \in Unsettled \cup Settled
      BY <1>0, DebateOrder
    <3>2. CASE os[n].status \in Settled
      BY <1>s, <3>2 DEF Settled
    <3>3. CASE os[n].status \in Unsettled /\ os[n].id \notin Addressed(os)
      BY <1>2, <3>3 DEF Unanswered
    <3> QED
      BY <3>1, <3>2, <3>3
  <2>2. \A x \in critical : \E n \in DOMAIN os : x = os[n].id
    BY <1>0
  <2> QED
    BY <2>1, <2>2
<1>5. c.decision = "accepted" => critical \cap ids = {}
  BY <1>s
<1>6. ASSUME NEW x \in c.carried, x[1] \in critical
      PROVE  x[2] = "user_decision" /\ x[1] \in c.decisions
  <2>1. PICK n \in Unanswered(os) : x = <<os[n].id, CarriedTo(os[n])>>
    BY <1>s
  <2>2. PICK m \in DOMAIN os : os[m].severity = "critical" /\ x[1] = os[m].id
    BY <1>0, <1>6
  <2>3. m = n
    BY <1>0, <1>u, <2>1, <2>2
  <2>4. CarriedTo(os[n]) = "user_decision"
    BY <2>2, <2>3 DEF CarriedTo
  <2> QED
    BY <1>s, <2>1, <2>4
<1> QED
  BY <1>1, <1>3, <1>4, <1>5, <1>6 DEF Checks

\* Of the numbers to four a set has one.
LEMMA OneOfFour ==
    ASSUME NEW S, \A n \in S : n = 1 \/ n = 2 \/ n = 3 \/ n = 4,
           1 \in S \/ 2 \in S \/ 3 \in S \/ 4 \in S,
           ~(1 \in S /\ 2 \in S), ~(1 \in S /\ 3 \in S), ~(1 \in S /\ 4 \in S),
           ~(2 \in S /\ 3 \in S), ~(2 \in S /\ 4 \in S), ~(3 \in S /\ 4 \in S)
    PROVE  Cardinality(S) = 1
<1>1. S = {1} \/ S = {2} \/ S = {3} \/ S = {4}
  OBVIOUS
<1>2. PICK p : S = {p}
  BY <1>1
<1> QED
  BY <1>2, FS_Singleton

\* Each objection of a debate is in one place of its convergence.
LEMMA InOnePlace ==
    ASSUME NEW d, DebateIs(d), NEW c, c = Converged(d), NEW k \in DOMAIN d.objections
    PROVE  LET o == d.objections[k]
               Carried == \E x \in c.carried : x[1] = o.id
               Answered == \E m \in k + 1 .. Len(d.objections) :
                   /\ d.objections[m].addresses = o.id
                   /\ d.objections[m].id \in c.accepted \cup c.rejected
           IN  Cardinality({n \in 1..4 : CASE n = 1 -> o.id \in c.accepted
                                            [] n = 2 -> o.id \in c.rejected
                                            [] n = 3 -> Carried
                                            [] n = 4 -> Answered}) = 1
<1>1. PICK os : os = d.objections
  OBVIOUS
<1>0. /\ os \in Seq(Told) /\ Valid(os) /\ Unanswered(os) \subseteq DOMAIN os /\ Len(os) \in Nat /\ DOMAIN os = 1..Len(os)
      /\ k \in DOMAIN os
  BY <1>1 DEF DebateIs, Unanswered
<1>u. \A m, n \in DOMAIN os : os[m].id = os[n].id => m = n
  BY <1>0, DebateOrder
<1>a. SectionsAre(os, d.unresolved, c)
  BY <1>1, Sections
<1>s. /\ \A n \in DOMAIN os : os[n].id \in c.accepted <=> os[n].status = "accepted"
      /\ \A n \in DOMAIN os : os[n].id \in c.rejected <=> os[n].status = "rejected"
      /\ \A x : x \in c.carried <=> \E n \in Unanswered(os) : x = <<os[n].id, CarriedTo(os[n])>>
  BY <1>a DEF SectionsAre
<1> DEFINE Carried == \E x \in c.carried : x[1] = os[k].id
           Answered == \E m \in k + 1 .. Len(os) :
               os[m].addresses = os[k].id /\ os[m].id \in c.accepted \cup c.rejected
           places == {n \in 1..4 : CASE n = 1 -> os[k].id \in c.accepted
                                      [] n = 2 -> os[k].id \in c.rejected
                                      [] n = 3 -> Carried
                                      [] n = 4 -> Answered}
<1>2. os[k].id \in c.accepted <=> os[k].status = "accepted"
  BY <1>0, <1>s
<1>3. os[k].id \in c.rejected <=> os[k].status = "rejected"
  BY <1>0, <1>s
<1>4. Carried <=> os[k].status \in Unsettled /\ os[k].id \notin Addressed(os)
  <2>1. ASSUME NEW x \in c.carried, x[1] = os[k].id PROVE k \in Unanswered(os)
    <3>1. PICK n \in Unanswered(os) : x = <<os[n].id, CarriedTo(os[n])>>
      BY <1>s
    <3>2. os[n].id = os[k].id
      BY <2>1, <3>1
    <3> QED
      BY <1>0, <1>u, <3>2
  <2>2. ASSUME k \in Unanswered(os) PROVE Carried
    <3>1. PICK y : y = <<os[k].id, CarriedTo(os[k])>>
      OBVIOUS
    <3>2. y \in c.carried /\ y[1] = os[k].id
      BY <1>s, <2>2, <3>1
    <3> QED
      BY <3>2
  <2>3. k \in Unanswered(os) <=> os[k].status \in Unsettled /\ os[k].id \notin Addressed(os)
    BY <1>0 DEF Unanswered
  <2> QED
    BY <2>1, <2>2, <2>3
<1>5. Answered <=> os[k].id \in Addressed(os)
  <2>1. \A m \in k + 1 .. Len(os) : m \in DOMAIN os
    BY <1>0
  <2>2. \A m \in DOMAIN os : os[m].id \in c.accepted \cup c.rejected <=> os[m].status \in Settled
    BY <1>s DEF Settled
  <2>3. os[k].id \in Addressed(os) <=>
            \E m \in k + 1 .. Len(os) : os[m].addresses = os[k].id /\ os[m].status \in Settled
    BY <1>0, Answers
  <2> QED
    BY <2>1, <2>2, <2>3
<1>6. os[k].status \in Unsettled \cup Settled
  BY <1>0, DebateOrder
<1>7. os[k].id \in Addressed(os) => os[k].status \in Unsettled
  BY <1>0, Answers
<1>8. 1 \in places <=> os[k].id \in c.accepted
  <2> HIDE DEF Carried, Answered
  <2> QED
    OBVIOUS
<1>9. 2 \in places <=> os[k].id \in c.rejected
  <2> HIDE DEF Carried, Answered
  <2> QED
    OBVIOUS
<1>10. 3 \in places <=> Carried
  <2> HIDE DEF Carried, Answered
  <2> QED
    OBVIOUS
<1>11. 4 \in places <=> Answered
  <2> HIDE DEF Carried, Answered
  <2> QED
    OBVIOUS
<1>12. \A n \in places : n = 1 \/ n = 2 \/ n = 3 \/ n = 4
  <2> HIDE DEF Carried, Answered
  <2> QED
    OBVIOUS
<1>13. Cardinality(places) = 1
  <2> HIDE DEF Carried, Answered, places
  <2>1. 1 \in places \/ 2 \in places \/ 3 \in places \/ 4 \in places
    BY <1>2, <1>3, <1>4, <1>5, <1>6, <1>8, <1>9, <1>10, <1>11 DEF Settled
  <2>2. /\ ~(1 \in places /\ 2 \in places) /\ ~(1 \in places /\ 3 \in places) /\ ~(1 \in places /\ 4 \in places)
        /\ ~(2 \in places /\ 3 \in places) /\ ~(2 \in places /\ 4 \in places) /\ ~(3 \in places /\ 4 \in places)
    BY <1>2, <1>3, <1>4, <1>5, <1>7, <1>8, <1>9, <1>10, <1>11 DEF Unsettled
  <2> QED
    BY <1>12, <2>1, <2>2, OneOfFour
<1> QED
  BY <1>1, <1>13

-----------------------------------------------------------------------------
(* The rounds and their debate.                                            *)

\* run_debate fills in what the rounds leave out.
LEMMA NormalizedIsTold ==
    ASSUME NEW rs \in Seq(Round)
    PROVE  /\ Len(rs) \in Nat /\ DOMAIN rs = 1..Len(rs) /\ \A i \in DOMAIN rs : rs[i] \in Round
           /\ DOMAIN Normalized(rs) = DOMAIN rs
           /\ \A i \in DOMAIN rs : Normalized(rs)[i].objections \in Seq(Told)
           /\ \A i \in DOMAIN rs : DOMAIN Normalized(rs)[i].objections = DOMAIN rs[i].objections
           /\ \A i \in DOMAIN rs : \A j \in DOMAIN rs[i].objections :
                 Specified(rs[i].objections[j]) => Normalized(rs)[i].objections[j] = rs[i].objections[j]
<1>0. Len(rs) \in Nat /\ DOMAIN rs = 1..Len(rs) /\ \A i \in DOMAIN rs : rs[i] \in Round
  OBVIOUS
<1> DEFINE Or(value, default) == IF value = "absent" THEN default ELSE value
           Filled(o, i, j) == [id |-> IF o.id = None THEN <<"place", i, j>> ELSE o.id,
                               severity |-> Or(o.severity, "low"), status |-> Or(o.status, "raised"),
                               addresses |-> o.addresses]
<1>1. DOMAIN Normalized(rs) = DOMAIN rs
  BY DEF Normalized
<1>2. ASSUME NEW i \in DOMAIN rs
      PROVE  Normalized(rs)[i].objections =
                 [j \in DOMAIN rs[i].objections |-> Filled(rs[i].objections[j], i, j)]
  <2>1. PICK r \in Round : r = rs[i]
    BY <1>0
  <2>2. Normalized(rs)[i] = [r EXCEPT !.objections = [j \in DOMAIN @ |-> Filled(@[j], i, j)]]
    BY <2>1 DEF Normalized
  <2>3. "objections" \in DOMAIN r
    BY DEF Round
  <2> HIDE DEF Filled
  <2>4. [r EXCEPT !.objections = [j \in DOMAIN @ |-> Filled(@[j], i, j)]].objections
            = [j \in DOMAIN r.objections |-> Filled(r.objections[j], i, j)]
    BY <2>3
  <2> QED
    BY <2>1, <2>2, <2>4
<1>3. ASSUME NEW i \in DOMAIN rs, NEW j \in DOMAIN rs[i].objections
      PROVE  /\ Filled(rs[i].objections[j], i, j) \in Told
             /\ Specified(rs[i].objections[j]) => Filled(rs[i].objections[j], i, j) = rs[i].objections[j]
  <2>1. PICK r \in Round : r = rs[i]
    BY <1>0
  <2>2. r.objections \in Seq(Given) /\ j \in DOMAIN r.objections
    BY <2>1 DEF Round
  <2>3. PICK o \in Given : o = rs[i].objections[j]
    BY <2>1, <2>2
  <2>4. i \in Nat /\ j \in Nat
    BY <1>0, <2>2
  <2>5. <<"place", i, j>> \in Place
    BY <2>4 DEF Place
  <2>6. o.id \in Named \cup {None} \cup External /\ o.addresses \in Named \cup {None}
    BY DEF Given
  <2>7. o.severity \in {"critical", "high", "low", "absent"} /\ o.status \in Unsettled \cup Settled \cup {"absent"}
    BY DEF Given
  <2>8. Or(o.severity, "low") \in {"critical", "high", "low"} /\ Or(o.status, "raised") \in Unsettled \cup Settled
    BY <2>7 DEF Unsettled
  <2>9. (IF o.id = None THEN <<"place", i, j>> ELSE o.id) \in Named \cup External \cup Place
    BY <2>5, <2>6
  <2>10. Filled(o, i, j) \in Told
    <3> HIDE DEF Or
    <3> QED
      BY <2>6, <2>8, <2>9 DEF Told
  <2>11. Specified(o) => Filled(o, i, j) = o
    <3>1. SUFFICES ASSUME Specified(o) PROVE Filled(o, i, j) = o
      OBVIOUS
    <3>2. Filled(o, i, j) = [id |-> o.id, severity |-> o.severity, status |-> o.status, addresses |-> o.addresses]
      BY <3>1 DEF Specified
    <3>3. o = [id |-> o.id, severity |-> o.severity, status |-> o.status, addresses |-> o.addresses]
      BY DEF Given
    <3> QED
      BY <3>2, <3>3
  <2> QED
    BY <2>3, <2>10, <2>11
<1>4. ASSUME NEW i \in DOMAIN rs
      PROVE  Normalized(rs)[i].objections \in Seq(Told) /\ DOMAIN Normalized(rs)[i].objections = DOMAIN rs[i].objections
  <2>1. PICK r \in Round : r = rs[i]
    BY <1>0
  <2>2. r.objections \in Seq(Given)
    BY DEF Round
  <2>3. PICK n \in Nat : DOMAIN r.objections = 1..n
    BY <2>2
  <2>4. PICK f : f = Normalized(rs)[i].objections
    OBVIOUS
  <2> HIDE DEF Filled
  <2>5. f = [j \in 1..n |-> Filled(rs[i].objections[j], i, j)]
    BY <1>2, <2>1, <2>3, <2>4
  <2>6. \A j \in 1..n : Filled(rs[i].objections[j], i, j) \in Told
    BY <1>3, <2>1, <2>3
  <2>7. f \in Seq(Told)
    BY <2>5, <2>6
  <2> QED
    BY <2>1, <2>3, <2>4, <2>5, <2>7
<1>5. ASSUME NEW i \in DOMAIN rs, NEW j \in DOMAIN rs[i].objections, Specified(rs[i].objections[j])
      PROVE  Normalized(rs)[i].objections[j] = rs[i].objections[j]
  <2> HIDE DEF Filled
  <2>1. Normalized(rs)[i].objections[j] = Filled(rs[i].objections[j], i, j)
    BY <1>2
  <2> QED
    BY <1>3, <1>5, <2>1
<1> QED
  BY <1>0, <1>1, <1>4, <1>5

\* The objections of a debate are typed, and it has each that its rounds specify.
LEMMA DebateHasAll ==
    ASSUME NEW rs \in Seq(Round), NEW os, os = Objections(Normalized(rs))
    PROVE  /\ os \in Seq(Told)
           /\ \A i \in DOMAIN rs : \A j \in DOMAIN rs[i].objections :
                 Specified(rs[i].objections[j]) => \E k \in DOMAIN os : os[k] = rs[i].objections[j]
<1>1. PICK s : s = [i \in DOMAIN Normalized(rs) |-> Normalized(rs)[i].objections]
  OBVIOUS
<1>2. PICK n \in Nat : n = Len(rs) /\ DOMAIN rs = 1..n
  BY NormalizedIsTold
<1>3. s = [i \in 1..n |-> Normalized(rs)[i].objections]
  BY <1>1, <1>2, NormalizedIsTold
<1>4. \A i \in 1..n : Normalized(rs)[i].objections \in Seq(Told)
  BY <1>2, NormalizedIsTold
<1>5. s \in Seq(Seq(Told))
  BY <1>3, <1>4
<1>6. os = FlattenSeq(s)
  BY <1>1 DEF Objections
<1>7. os \in Seq(Told)
  BY <1>5, <1>6, FlattenFacts
<1>8. \A i \in DOMAIN s : \A j \in DOMAIN s[i] : \E k \in DOMAIN os : os[k] = s[i][j]
  BY <1>5, <1>6, FlattenFacts
<1>9. ASSUME NEW i \in DOMAIN rs, NEW j \in DOMAIN rs[i].objections, Specified(rs[i].objections[j])
      PROVE  \E k \in DOMAIN os : os[k] = rs[i].objections[j]
  <2>1. i \in DOMAIN s /\ s[i] = Normalized(rs)[i].objections
    BY <1>2, <1>3
  <2>2. j \in DOMAIN s[i] /\ s[i][j] = rs[i].objections[j]
    BY <1>9, <2>1, NormalizedIsTold
  <2> QED
    BY <1>8, <2>1, <2>2
<1> QED
  BY <1>7, <1>9

\* Rounds that specify every objection are debated as they are.
LEMMA SpecifiedIsKept ==
    ASSUME NEW rs \in Seq(Round), \A o \in ToSet(Objections(rs)) : Specified(o)
    PROVE  Objections(Normalized(rs)) = Objections(rs)
<1>1. PICK s : s = [i \in DOMAIN rs |-> rs[i].objections]
  OBVIOUS
<1>2. PICK n \in Nat : n = Len(rs) /\ DOMAIN rs = 1..n
  BY NormalizedIsTold
<1>3. \A i \in 1..n : rs[i].objections \in Seq(Given)
  <2>1. \A r \in Round : r.objections \in Seq(Given)
    BY DEF Round
  <2> QED
    BY <1>2, <2>1, NormalizedIsTold
<1>4. s = [i \in 1..n |-> rs[i].objections]
  BY <1>1, <1>2
<1>5. s \in Seq(Seq(Given))
  BY <1>3, <1>4
<1>6. Objections(rs) = FlattenSeq(s)
  BY <1>1 DEF Objections
<1>7. \A i \in 1..n : \A j \in DOMAIN rs[i].objections : Specified(rs[i].objections[j])
  <2>1. ASSUME NEW i \in 1..n, NEW j \in DOMAIN rs[i].objections
        PROVE  Specified(rs[i].objections[j])
    <3>1. i \in DOMAIN s /\ s[i] = rs[i].objections
      BY <1>4
    <3>2. PICK k \in DOMAIN FlattenSeq(s) : FlattenSeq(s)[k] = s[i][j]
      BY <1>5, <3>1, FlattenFacts
    <3>3. rs[i].objections[j] \in ToSet(Objections(rs))
      BY <1>6, <3>1, <3>2 DEF ToSet
    <3> QED
      BY <3>3
  <2> QED
    BY <2>1
<1>8. ASSUME NEW i \in 1..n
      PROVE  Normalized(rs)[i].objections = rs[i].objections
  <2>1. PICK p \in Seq(Told), q \in Seq(Given) : p = Normalized(rs)[i].objections /\ q = rs[i].objections
    BY <1>2, <1>3, NormalizedIsTold
  <2>2. DOMAIN p = DOMAIN q
    BY <1>2, <2>1, NormalizedIsTold
  <2>3. \A j \in DOMAIN q : p[j] = q[j]
    BY <1>2, <1>7, <2>1, NormalizedIsTold
  <2>4. p = q
    BY <2>2, <2>3
  <2> QED
    BY <2>1, <2>4
<1>9. [i \in DOMAIN Normalized(rs) |-> Normalized(rs)[i].objections] = s
  <2>1. DOMAIN Normalized(rs) = 1..n
    BY <1>2, NormalizedIsTold
  <2> QED
    BY <1>4, <1>8, <2>1
<1> QED
  BY <1>1, <1>9 DEF Objections

\* Blockers that the loop finds unresolved are those of the debate.
LEMMA SameBlockers ==
    ASSUME NEW rs, NEW d, DebateIs(d), d.objections = Objections(rs)
    PROVE  Unresolved(rs) = {} <=> Serious(d) = {}
<1>1. PICK os : os = d.objections /\ os = Objections(rs)
  OBVIOUS
<1>0. os \in Seq(Told) /\ Valid(os)
  BY <1>1 DEF DebateIs
<1> DEFINE Blocks(n) == os[n].severity \in {"critical", "high"} /\ os[n].status \in Unsettled
           Found(n) == /\ os[n].id # None /\ Blocks(n)
                       /\ ~\E m \in n + 1 .. Len(os) :
                             os[m].id # None /\ os[m].addresses = os[n].id /\ os[m].status \in Settled
<1>2. Unresolved(rs) = {os[n].id : n \in {k \in DOMAIN os : Found(k)}}
  BY <1>1 DEF Unresolved
<1>3. \A n \in DOMAIN os : os[n].id \in d.unresolved <=> n \in Unanswered(os)
  <2>1. PICK c : c = Converged(d)
    OBVIOUS
  <2> QED
    BY <1>1, <2>1, Sections DEF SectionsAre
<1>4. ASSUME NEW n \in DOMAIN os
      PROVE  Found(n) <=> n \in Serious(d)
  <2>1. Len(os) \in Nat /\ \A m \in n + 1 .. Len(os) : m \in DOMAIN os
    BY <1>0
  <2>2. \A m \in DOMAIN os : os[m].id # None
    BY <1>0, DebateOrder
  <2>3. os[n].id \in Addressed(os) <=>
            \E m \in n + 1 .. Len(os) : os[m].addresses = os[n].id /\ os[m].status \in Settled
    BY <1>0, Answers
  <2>4. Found(n) <=> Blocks(n) /\ os[n].id \notin Addressed(os)
    BY <2>1, <2>2, <2>3
  <2>5. n \in Unanswered(os) <=> os[n].status \in Unsettled /\ os[n].id \notin Addressed(os)
    BY DEF Unanswered
  <2>6. n \in Serious(d) <=> os[n].severity \in {"critical", "high"} /\ os[n].id \in d.unresolved
    BY <1>1 DEF Serious
  <2> QED
    BY <1>3, <2>4, <2>5, <2>6
<1>5. \A n \in Serious(d) : n \in DOMAIN os
  BY <1>1 DEF Serious
<1> HIDE DEF Found
<1> QED
  BY <1>2, <1>4, <1>5

\* What asks for the user, or for an action outside, decides the convergence.
LEMMA UserDecides ==
    ASSUME DebateInv, stage = "converged"
    PROVE  DecisionIsWarranted
<1>1. PICK os, d, c : os = debate.objections /\ d = debate /\ c = convergence
  OBVIOUS
<1>0. /\ os = Objections(Normalized(rounds)) /\ DebateIs(d) /\ c = Converged(d) /\ rounds \in Seq(Round)
      /\ os \in Seq(Told) /\ Valid(os) /\ Unanswered(os) \subseteq DOMAIN os
  BY <1>1 DEF DebateInv, DebateIs, Unanswered
<1>a. SectionsAre(os, d.unresolved, c)
  BY <1>0, <1>1, Sections
<1>s. /\ \A x : x \in c.carried <=> \E n \in Unanswered(os) : x = <<os[n].id, CarriedTo(os[n])>>
      /\ \A x : x \in c.decisions <=> \E n \in Unanswered(os) : x = os[n].id /\ CarriedTo(os[n]) = "user_decision"
      /\ c.decision = IF c.decisions # {} THEN "needs_user_decision"
                      ELSE IF c.carried # {} THEN "needs_more_evidence" ELSE "accepted"
      /\ \A n \in DOMAIN os : os[n].id \in d.unresolved <=> n \in Unanswered(os)
  BY <1>a DEF SectionsAre
<1>2. ASSUME NEW n \in Unanswered(os), os[n].severity = "critical" \/ os[n].status = "needs_user_decision"
      PROVE  os[n].id \in c.decisions /\ c.decision = "needs_user_decision"
  <2>1. CarriedTo(os[n]) = "user_decision"
    BY <1>2 DEF CarriedTo
  <2> QED
    BY <1>s, <2>1
<1>3. ASSUME NEW i \in DOMAIN rounds, rounds[i].external
      PROVE  c.decision = "needs_user_decision"
  <2>1. PICK j \in DOMAIN rounds[i].objections : rounds[i].objections[j] = Block(i)
    <3>1. BlocksHold /\ stage # "input"
      BY DEF DebateInv
    <3> QED
      BY <1>3, <3>1 DEF BlocksHold
  <2>2. i \in Nat /\ <<"external", i>> \in External
    BY <1>0 DEF External
  <2>3. \A a \in Named \cup {None} : a # <<"external", i>>
    <3>1. \A a \in Named \cup {None} : a[1] \in {"named", "none"}
      BY DEF Named, None
    <3>2. <<"external", i>>[1] = "external"
      OBVIOUS
    <3> QED
      BY <3>1, <3>2
  <2>4. Specified(Block(i))
    BY <2>3 DEF Specified, Block
  <2>5. PICK k \in DOMAIN os : os[k] = Block(i)
    BY <1>0, <2>1, <2>4, DebateHasAll
  <2>6. \A n \in DOMAIN os : os[n].addresses # <<"external", i>>
    <3>1. \A o \in Told : o.addresses \in Named \cup {None}
      BY DEF Told
    <3>2. \A n \in DOMAIN os : os[n] \in Told
      BY <1>0
    <3> QED
      BY <2>3, <3>1, <3>2
  <2>7. k \in Unanswered(os)
    <3>1. os[k].id \notin Addressed(os)
      BY <2>5, <2>6 DEF Addressed, Block
    <3>2. os[k].status \in Unsettled
      BY <2>5 DEF Block, Unsettled
    <3> QED
      BY <3>1, <3>2 DEF Unanswered
  <2>8. os[k].severity = "critical"
    BY <2>5 DEF Block
  <2> QED
    BY <1>2, <2>7, <2>8
<1>4. ASSUME NEW o \in ToSet(os), o.id \in d.unresolved, o.severity = "critical" \/ o.status = "needs_user_decision"
      PROVE  o.id \in c.decisions
  <2>1. PICK n \in DOMAIN os : o = os[n]
    BY DEF ToSet
  <2>2. n \in Unanswered(os)
    BY <1>4, <1>s, <2>1
  <2> QED
    BY <1>2, <1>4, <2>1, <2>2
<1>5. d.status = CASE Unanswered(os) = {} -> "converged"
                   [] \E n \in Unanswered(os) : os[n].status = "needs_user_decision" -> "waiting_for_user"
                   [] OTHER -> "running"
  BY <1>0, <1>1 DEF DebateIs
<1>6. d.status = "waiting_for_user" => c.decision = "needs_user_decision"
  <2>1. d.status = "waiting_for_user" => \E n \in Unanswered(os) : os[n].status = "needs_user_decision"
    BY <1>5
  <2> QED
    BY <1>2, <2>1
<1>7. (c.decision = "accepted") <=> (d.status = "converged")
  <2>1. d.status = "converged" <=> Unanswered(os) = {}
    BY <1>5
  <2>2. CASE Unanswered(os) = {}
    <3>1. c.carried = {} /\ c.decisions = {}
      BY <1>s, <2>2
    <3> QED
      BY <1>s, <2>1, <2>2, <3>1
  <2>3. CASE Unanswered(os) # {}
    <3>1. PICK n \in Unanswered(os) : TRUE
      BY <2>3
    <3>2. c.carried # {}
      BY <1>s, <3>1
    <3> QED
      BY <1>s, <2>1, <2>3, <3>2
  <2> QED
    BY <2>2, <2>3
<1> QED
  BY <1>1, <1>3, <1>4, <1>6, <1>7 DEF DecisionIsWarranted

\* The inductive invariant is strong enough.
LEMMA DebateFollows ==
    ASSUME DebateInv
    PROVE  DebateHolds
<1>1. ReasonIsTrue
  <2>1. SUFFICES ASSUME stage \in {"debated", "converged"}, \A o \in ToSet(Objections(rounds)) : Specified(o)
                 PROVE  /\ reason \in {"early_no_unresolved_high_critical", "input_exhausted"} => Serious(debate) = {}
                        /\ reason = "input_exhausted_with_unresolved_blockers" => Serious(debate) # {}
    BY DEF ReasonIsTrue
  <2>2. DebateIs(debate) /\ debate.objections = Objections(rounds)
    BY <2>1, SpecifiedIsKept DEF DebateInv
  <2>3. Unresolved(rounds) = {} <=> Serious(debate) = {}
    BY <2>2, SameBlockers
  <2>4. ReasonHolds /\ stage # "input"
    BY <2>1 DEF DebateInv
  <2> QED
    BY <2>3, <2>4 DEF ReasonHolds
<1>2. NothingIsDropped
  <2>1. stage # "failed"
    BY DEF DebateInv
  <2>2. ASSUME stage = "converged"
        PROVE  DebateIs(debate) /\ convergence = Converged(debate)
    BY <2>2 DEF DebateInv
  <2> QED
    BY <2>1, <2>2, InOnePlace DEF NothingIsDropped
<1>3. DecisionIsWarranted
  <2>1. CASE stage = "converged"
    BY <2>1, UserDecides
  <2>2. CASE stage # "converged"
    BY <2>2 DEF DecisionIsWarranted
  <2> QED
    BY <2>1, <2>2
<1> QED
  BY <1>1, <1>2, <1>3 DEF DebateHolds

-----------------------------------------------------------------------------
(* The steps.                                                              *)

\* The guard against external actions blocks each round that suggests one.
LEMMA GuardedBlocks ==
    ASSUME NEW rs \in Seq(Round)
    PROVE  /\ Guarded(rs) \in Seq(Round) /\ Len(Guarded(rs)) = Len(rs)
           /\ \A i \in DOMAIN Guarded(rs) : Guarded(rs)[i].external =>
                 \E j \in DOMAIN Guarded(rs)[i].objections : Guarded(rs)[i].objections[j] = Block(i)
<1>0. PICK n \in Nat : n = Len(rs) /\ DOMAIN rs = 1..n /\ \A i \in 1..n : rs[i] \in Round
  OBVIOUS
<1>1. PICK g : g = Guarded(rs)
  OBVIOUS
<1>2. g = [i \in 1..n |-> IF ~rs[i].external THEN rs[i]
                          ELSE [rs[i] EXCEPT !.objections = Append(@, Block(i))]]
  BY <1>0, <1>1 DEF Guarded, Block
<1>3. ASSUME NEW i \in 1..n
      PROVE  /\ g[i] \in Round
             /\ g[i].external => \E j \in DOMAIN g[i].objections : g[i].objections[j] = Block(i)
  <2>1. PICK r \in Round : r = rs[i]
    BY <1>0
  <2>2. r.objections \in Seq(Given) /\ r.external \in BOOLEAN
        /\ r = [objections |-> r.objections, external |-> r.external]
    BY DEF Round
  <2>3. CASE ~r.external
    BY <1>2, <2>1, <2>3
  <2>4. CASE r.external
    <3>1. PICK b : b = Block(i)
      OBVIOUS
    <3>2. b \in Given
      <4>1. <<"external", i>> \in External
        BY <1>0 DEF External
      <4> QED
        BY <3>1, <4>1 DEF Given, Block, Unsettled
    <3>p. PICK p \in Seq(Given) : p = r.objections
      BY <2>2
    <3>q. PICK q : q = Append(p, b)
      OBVIOUS
    <3>3. q \in Seq(Given)
      BY <3>2, <3>q
    <3>4. g[i] = [r EXCEPT !.objections = q]
      BY <1>2, <2>1, <2>4, <3>1, <3>p, <3>q
    <3>5. g[i] = [objections |-> q, external |-> r.external]
      BY <2>2, <3>4
    <3>6. g[i] \in Round
      BY <2>2, <3>3, <3>5 DEF Round
    <3>7. Len(p) + 1 \in DOMAIN q /\ q[Len(p) + 1] = b
      BY <3>2, <3>q
    <3>8. g[i].objections = q
      BY <3>5
    <3> QED
      BY <3>1, <3>6, <3>7, <3>8
  <2> QED
    BY <2>3, <2>4
<1>4. g \in Seq(Round) /\ Len(g) = n /\ DOMAIN g = 1..n
  <2>1. g = [i \in 1..n |-> g[i]]
    BY <1>2
  <2>2. \A i \in 1..n : g[i] \in Round
    BY <1>3
  <2> QED
    BY <2>1, <2>2
<1> QED
  BY <1>0, <1>1, <1>3, <1>4

LEMMA InputKeeps ==
    ASSUME DebateInv, AddRound \/ AddObjection
    PROVE  DebateInv'
<1>1. stage = "input" /\ stage' = "input" /\ rounds \in Seq(Round)
  BY DEF AddRound, AddObjection, DebateInv
<1>2. CASE AddRound
  <2>1. PICK external \in BOOLEAN : rounds' = Append(rounds, [objections |-> <<>>, external |-> external])
    BY <1>2 DEF AddRound
  <2>2. PICK e : e = <<>>
    OBVIOUS
  <2>3. e \in Seq(Given)
    BY <2>2
  <2>4. [objections |-> e, external |-> external] \in Round
    BY <2>3 DEF Round
  <2>5. rounds' \in Seq(Round)
    BY <1>1, <2>1, <2>2, <2>4
  <2> QED
    BY <1>1, <2>5 DEF DebateInv, ReasonHolds, BlocksHold
<1>3. CASE AddObjection
  <2>1. PICK o \in Objection : rounds' = [rounds EXCEPT ![Len(rounds)].objections = Append(@, o)]
    BY <1>3 DEF AddObjection
  <2>2. o \in Given
    BY DebateAssumption DEF Objection, Given, Named
  <2>3. PICK n \in Nat : n = Len(rounds) /\ n > 0
    BY <1>1, <1>3 DEF AddObjection
  <2>4. PICK r \in Round : r = rounds[n]
    BY <1>1, <2>3
  <2>5. r.objections \in Seq(Given) /\ r.external \in BOOLEAN
        /\ r = [objections |-> r.objections, external |-> r.external]
    BY DEF Round
  <2>p. PICK p \in Seq(Given) : p = r.objections
    BY <2>5
  <2>q. PICK q : q = Append(p, o)
    OBVIOUS
  <2>6. q \in Seq(Given)
    BY <2>2, <2>q
  <2>7. [r EXCEPT !.objections = q] = [objections |-> q, external |-> r.external]
    BY <2>5
  <2>8. PICK s \in Round : s = [r EXCEPT !.objections = q]
    BY <2>5, <2>6, <2>7 DEF Round
  <2>9. rounds' = [rounds EXCEPT ![n] = s]
    BY <2>1, <2>3, <2>4, <2>p, <2>q, <2>8
  <2>10. rounds' \in Seq(Round)
    BY <1>1, <2>3, <2>9
  <2> QED
    BY <1>1, <2>10 DEF DebateInv, ReasonHolds, BlocksHold
<1> QED
  BY <1>2, <1>3

LEMMA SelectKeeps ==
    ASSUME DebateInv, Select
    PROVE  DebateInv'
<1>1. PICK g : g = Guarded(rounds)
  OBVIOUS
<1>2. /\ g \in Seq(Round)
      /\ \A i \in DOMAIN g : g[i].external => \E j \in DOMAIN g[i].objections : g[i].objections[j] = Block(i)
  BY <1>1, GuardedBlocks DEF DebateInv
<1> DEFINE limit == IF Len(g) < MaxRounds THEN Len(g) ELSE MaxRounds
           early == {n \in MinRounds..limit : Unresolved(Prefix(g, n)) = {}}
           used  == IF early = {} THEN limit ELSE CHOOSE n \in early : \A m \in early : n <= m
<1>3. PICK len \in Nat : len = Len(g) /\ DOMAIN g = 1..len
  BY <1>2
<1>4. limit \in Nat /\ limit <= len /\ MinRounds \in Nat
  BY <1>3, DebateAssumption
<1>5. used \in 0..len /\ (early # {} => Unresolved(Prefix(g, used)) = {})
  <2>1. CASE early = {}
    <3> HIDE DEF early, limit
    <3> QED
      BY <1>4, <2>1
  <2>2. CASE early # {}
    <3>1. early \subseteq Nat /\ \A n \in early : n <= len /\ Unresolved(Prefix(g, n)) = {}
      <4> HIDE DEF limit
      <4> QED
        BY <1>4
    <3> HIDE DEF early, limit
    <3>2. \E n \in early : \A m \in early : n <= m
      BY <2>2, <3>1, HasLeast
    <3>3. used \in early
      BY <2>2, <3>2
    <3> HIDE DEF used
    <3>4. used \in Nat /\ used <= len /\ Unresolved(Prefix(g, used)) = {}
      BY <3>1, <3>3
    <3> QED
      BY <3>4
  <2> QED
    BY <2>1, <2>2
<1>6. /\ rounds' = Prefix(g, used)
      /\ reason' = IF len > MaxRounds /\ used = MaxRounds THEN "round_cap_5"
                   ELSE IF early # {} THEN "early_no_unresolved_high_critical"
                   ELSE IF Unresolved(Prefix(g, used)) # {} THEN "input_exhausted_with_unresolved_blockers"
                   ELSE "input_exhausted"
      /\ stage' = "selected"
  BY <1>1, <1>3 DEF Select, Selection
<1> HIDE DEF used, early, limit
<1>7. PICK n \in 0..len : n = used
  BY <1>5
<1>8. rounds' \in Seq(Round) /\ DOMAIN rounds' = 1..n /\ \A i \in 1..n : rounds'[i] = g[i]
  BY <1>2, <1>3, <1>6, <1>7 DEF Prefix
<1>9. ReasonHolds'
  <2>1. PICK u : u = Unresolved(rounds')
    OBVIOUS
  <2>2. /\ reason' = IF len > MaxRounds /\ used = MaxRounds THEN "round_cap_5"
                     ELSE IF early # {} THEN "early_no_unresolved_high_critical"
                     ELSE IF u # {} THEN "input_exhausted_with_unresolved_blockers"
                     ELSE "input_exhausted"
        /\ early # {} => u = {}
    BY <1>5, <1>6, <2>1
  <2>3. /\ reason' \in {"early_no_unresolved_high_critical", "input_exhausted"} => u = {}
        /\ reason' = "input_exhausted_with_unresolved_blockers" => u # {}
    BY <2>2
  <2> QED
    BY <2>1, <2>3 DEF ReasonHolds
<1>10. BlocksHold'
  <2>1. \A i \in 1..n : i \in DOMAIN g
    BY <1>3, <1>7
  <2> QED
    BY <1>2, <1>8, <2>1 DEF BlocksHold
<1> QED
  BY <1>6, <1>8, <1>9, <1>10 DEF DebateInv

LEMMA RunDebateKeeps ==
    ASSUME DebateInv, RunDebate
    PROVE  DebateInv'
<1>1. PICK os : os = Objections(Normalized(rounds))
  OBVIOUS
<1>2. os \in Seq(Told)
  BY <1>1, DebateHasAll DEF DebateInv
<1>3. rounds' = rounds /\ reason' = reason /\ stage = "selected" /\ stage' \in {"refused", "debated"}
  BY DEF RunDebate
<1>4. Unanswered(os) = {n \in DOMAIN os : os[n].status \in Unsettled /\ os[n].id \notin Addressed(os)}
  BY DEF Unanswered
<1>5. ASSUME stage' = "debated"
      PROVE  debate'.objections = os /\ DebateIs(debate')
  <2>1. Valid(os)
    BY <1>1, <1>5 DEF RunDebate
  <2>2. debate' = [objections |-> os, unresolved |-> {os[n].id : n \in Unanswered(os)},
                   status |-> CASE Unanswered(os) = {} -> "converged"
                                [] \E n \in Unanswered(os) : os[n].status = "needs_user_decision" -> "waiting_for_user"
                                [] OTHER -> "running"]
    BY <1>1, <1>4, <1>5 DEF RunDebate
  <2> QED
    BY <1>2, <2>1, <2>2 DEF DebateIs
<1>6. ReasonHolds' /\ BlocksHold'
  BY <1>3 DEF DebateInv, ReasonHolds, BlocksHold
<1> QED
  BY <1>1, <1>3, <1>5, <1>6 DEF DebateInv

LEMMA ConvergeKeeps ==
    ASSUME DebateInv, Converge
    PROVE  DebateInv'
<1>1. DebateIs(debate) /\ stage = "debated"
  BY DEF Converge, DebateInv
<1>2. Checks(Converged(debate), debate)
  BY <1>1, ConvergePasses
<1>3. convergence' = Converged(debate) /\ stage' = "converged" /\ rounds' = rounds /\ reason' = reason /\ debate' = debate
  BY <1>2 DEF Converge
<1>4. ReasonHolds' /\ BlocksHold'
  BY <1>1, <1>3 DEF DebateInv, ReasonHolds, BlocksHold
<1> QED
  BY <1>1, <1>3, <1>4 DEF DebateInv

\* What run_debate and converge conclude agrees with the rounds they were given, of any
\* length: the loop reports its true reason, no objection gets lost, and what asks for the
\* user is put to the user.
THEOREM DebatesHold == DebateInit /\ [][DebateNext]_debateVars => []DebateHolds
<1>1. DebateInit => DebateInv
  <2>1. SUFFICES ASSUME DebateInit PROVE DebateInv
    OBVIOUS
  <2>2. PICK e : e = <<>>
    OBVIOUS
  <2>3. e \in Seq(Round) /\ rounds = e
    BY <2>1, <2>2 DEF DebateInit
  <2>4. rounds \in Seq(Round) /\ stage = "input"
    BY <2>1, <2>3 DEF DebateInit
  <2> QED
    BY <2>4 DEF DebateInv, ReasonHolds, BlocksHold
<1>2. DebateInv /\ [DebateNext]_debateVars => DebateInv'
  <2>1. CASE DebateInv /\ UNCHANGED debateVars
    <3>1. /\ rounds' = rounds /\ stage' = stage /\ reason' = reason /\ debate' = debate
          /\ convergence' = convergence
      BY <2>1 DEF debateVars
    <3> QED
      BY <2>1, <3>1 DEF DebateInv, ReasonHolds, BlocksHold
  <2> QED
    BY <2>1, InputKeeps, SelectKeeps, RunDebateKeeps, ConvergeKeeps DEF DebateNext
<1> QED
  BY <1>1, <1>2, DebateFollows, PTL

-----------------------------------------------------------------------------
(* ModelRouting: the choice of the models.                                 *)

Model == [role : STRING, roles : SUBSET STRING, able : SUBSET STRING]

\* What _build_selection has cast before it looks at part k.
NobodyCast == [selected |-> {}, used |-> {}]
CastBy(pool, part, cast) ==
    [selected |-> cast.selected \cup {<<Chosen(pool, part, cast.used), part.role>>},
     used |-> cast.used \cup {Chosen(pool, part, cast.used)}]
CastsTo(pool, parts, n, f) == f = [k \in 0..n |-> IF k = 0 THEN NobodyCast ELSE CastBy(pool, parts[k], f[k - 1])]

LEMMA CastsExist ==
    ASSUME NEW pool, NEW parts, NEW n \in Nat
    PROVE  \E f : CastsTo(pool, parts, n, f)
<1> DEFINE T == {k \in 0..n : ~\E f : CastsTo(pool, parts, k, f)}
<1>1. SUFFICES ASSUME T # {}
               PROVE  FALSE
  OBVIOUS
<1>2. T \subseteq Nat
  OBVIOUS
<1>3. PICK m \in T : \A k \in T : m <= k
  <2> HIDE DEF T
  <2> QED
    BY <1>1, <1>2, HasLeast
<1>4. m \in 0..n /\ ~\E f : CastsTo(pool, parts, m, f)
  OBVIOUS
<1>5. CASE m = 0
  <2>1. PICK f : f = [k \in 0..0 |-> NobodyCast]
    OBVIOUS
  <2>2. f = [k \in 0..0 |-> IF k = 0 THEN NobodyCast ELSE CastBy(pool, parts[k], f[k - 1])]
    BY <2>1
  <2> QED
    BY <1>4, <1>5, <2>2 DEF CastsTo
<1>6. CASE m # 0
  <2>1. m - 1 \in 0..n /\ ~(m <= m - 1)
    BY <1>4, <1>6
  <2>2. m - 1 \notin T
    <3> HIDE DEF T
    <3> QED
      BY <1>3, <2>1
  <2>3. PICK g : CastsTo(pool, parts, m - 1, g)
    BY <2>1, <2>2
  <2>4. PICK h : h = [k \in 0..m |-> IF k < m THEN g[k] ELSE CastBy(pool, parts[m], g[m - 1])]
    OBVIOUS
  <2>5. ASSUME NEW k \in 0..m
        PROVE  h[k] = IF k = 0 THEN NobodyCast ELSE CastBy(pool, parts[k], h[k - 1])
    <3>1. CASE k < m
      <4>1. k \in 0..(m - 1) /\ (k # 0 => k - 1 \in 0..m /\ k - 1 < m)
        BY <1>4, <3>1
      <4>2. h[k] = g[k] /\ (k # 0 => h[k - 1] = g[k - 1])
        BY <2>4, <3>1, <4>1
      <4>3. g[k] = IF k = 0 THEN NobodyCast ELSE CastBy(pool, parts[k], g[k - 1])
        BY <2>3, <4>1 DEF CastsTo
      <4> QED
        BY <4>1, <4>2, <4>3
    <3>2. CASE k = m
      <4>1. m - 1 \in 0..m /\ m - 1 < m /\ ~(m < m) /\ m \in 0..m
        BY <1>4, <1>6
      <4>2. h[m] = CastBy(pool, parts[m], g[m - 1]) /\ h[m - 1] = g[m - 1]
        BY <2>4, <4>1
      <4> QED
        BY <1>6, <3>2, <4>2
    <3> QED
      BY <1>4, <3>1, <3>2
  <2>6. h = [k \in 0..m |-> IF k = 0 THEN NobodyCast ELSE CastBy(pool, parts[k], h[k - 1])]
    BY <2>4, <2>5
  <2> QED
    BY <1>4, <2>6 DEF CastsTo
<1> QED
  BY <1>5, <1>6

\* Each part of a cast goes to the best of its candidates, given those of the parts before.
GivenTo(pool, parts, n, w) ==
    /\ \A k \in 1..n : w[k] = Chosen(pool, parts[k], {w[j] : j \in 1..(k - 1)})
    /\ Cast(pool, parts) = {<<w[k], parts[k].role>> : k \in 1..n}

LEMMA CastIs ==
    ASSUME NEW pool, NEW parts, NEW n \in Nat, Len(parts) = n
    PROVE  \E w : GivenTo(pool, parts, n, w)
<1>1. PICK f : CastsTo(pool, parts, n, f) /\ Cast(pool, parts) = f[n].selected
  <2>1. PICK g : CastsTo(pool, parts, n, g)
    BY CastsExist
  <2>2. Cast(pool, parts) = (CHOOSE f : CastsTo(pool, parts, n, f))[n].selected
    BY DEF Cast, CastsTo, CastBy, NobodyCast
  <2> QED
    BY <2>1, <2>2
<1>2. PICK w : w = [k \in 1..n |-> Chosen(pool, parts[k], f[k - 1].used)]
  OBVIOUS
<1>3. \A k \in 0..n : f[k] = IF k = 0 THEN NobodyCast ELSE CastBy(pool, parts[k], f[k - 1])
  BY <1>1 DEF CastsTo
<1> DEFINE Good(m) == /\ f[m].used = {w[j] : j \in 1..m}
                      /\ f[m].selected = {<<w[j], parts[j].role>> : j \in 1..m}
           T == {k \in 0..n : ~Good(k)}
<1>4. ASSUME NEW k \in 0..n PROVE Good(k)
  <2>1. SUFFICES ASSUME T # {} PROVE FALSE
    OBVIOUS
  <2>2. T \subseteq Nat
    OBVIOUS
  <2>3. PICK m \in T : \A i \in T : m <= i
    <3> HIDE DEF T
    <3> QED
      BY <2>1, <2>2, HasLeast
  <2>4. m \in 0..n /\ ~Good(m)
    OBVIOUS
  <2>5. m # 0
    <3>1. ASSUME m = 0 PROVE Good(m)
      <4>1. f[m] = NobodyCast /\ 1..m = {}
        BY <1>3, <2>4, <3>1
      <4> QED
        BY <4>1 DEF NobodyCast
    <3> QED
      BY <2>4, <3>1
  <2>6. m - 1 \in 0..n /\ ~(m <= m - 1) /\ m \in 1..n /\ 1..m = 1..(m - 1) \cup {m}
    BY <2>4, <2>5
  <2>7. Good(m - 1)
    <3>1. m - 1 \notin T
      <4> HIDE DEF T
      <4> QED
        BY <2>3, <2>6
    <3> HIDE DEF Good
    <3> QED
      BY <2>6, <3>1
  <2>8. f[m] = CastBy(pool, parts[m], f[m - 1]) /\ w[m] = Chosen(pool, parts[m], f[m - 1].used)
    BY <1>2, <1>3, <2>4, <2>5, <2>6
  <2>9. /\ f[m].used = f[m - 1].used \cup {w[m]}
        /\ f[m].selected = f[m - 1].selected \cup {<<w[m], parts[m].role>>}
    BY <2>8 DEF CastBy
  <2>10. /\ {w[j] : j \in 1..m} = {w[j] : j \in 1..(m - 1)} \cup {w[m]}
         /\ {<<w[j], parts[j].role>> : j \in 1..m} = {<<w[j], parts[j].role>> : j \in 1..(m - 1)} \cup {<<w[m], parts[m].role>>}
    BY <2>6
  <2> QED
    BY <2>4, <2>7, <2>9, <2>10
<1>5. ASSUME NEW k \in 1..n
      PROVE  w[k] = Chosen(pool, parts[k], {w[j] : j \in 1..(k - 1)})
  <2>1. k - 1 \in 0..n
    OBVIOUS
  <2>2. f[k - 1].used = {w[j] : j \in 1..(k - 1)}
    BY <1>4, <2>1
  <2> QED
    BY <1>2, <2>2
<1>6. f[n].selected = {<<w[k], parts[k].role>> : k \in 1..n}
  <2>1. n \in 0..n
    OBVIOUS
  <2> QED
    BY <1>4, <2>1
<1> QED
  BY <1>1, <1>5, <1>6 DEF GivenTo

\* The best candidate is one, has the least score, and is unused if any is.
LEMMA ChosenIsBest ==
    ASSUME NEW pool, NEW part, NEW used, DOMAIN pool \subseteq Nat, Candidates(pool, part.role) # {}
    PROVE  /\ Chosen(pool, part, used) \in Candidates(pool, part.role)
           /\ \A m \in Candidates(pool, part.role) :
                 Score(pool, Chosen(pool, part, used), part, used) <= Score(pool, m, part, used)
           /\ (\E m \in Candidates(pool, part.role) : m \notin used) => Chosen(pool, part, used) \notin used
<1>1. PICK C : C = Candidates(pool, part.role)
  OBVIOUS
<1>2. C # {} /\ C \subseteq Nat
  BY <1>1 DEF Candidates
<1> DEFINE S(m) == Score(pool, m, part, used)
<1>3. \A m \in C : S(m) \in 0..7 /\ (m \in used => S(m) >= 4) /\ (m \notin used => S(m) <= 3)
  BY DEF Score, Cost
<1> HIDE DEF S
<1>v. PICK values : /\ \A m \in C : S(m) \in values
                    /\ \A v \in values : \E m \in C : v = S(m)
  <2>1. PICK values : values = {S(m) : m \in C}
    OBVIOUS
  <2> QED
    BY <2>1
<1>4. PICK s \in values : \A t \in values : s <= t
  <2>0. \A v \in values : v \in Nat
    <3>1. ASSUME NEW v \in values PROVE v \in Nat
      <4>1. PICK m \in C : v = S(m)
        BY <1>v
      <4>2. S(m) \in 0..7
        BY <1>3
      <4> QED
        BY <4>1, <4>2
    <3> QED
      BY <3>1
  <2>1. values \subseteq Nat /\ values # {}
    BY <1>2, <1>v, <2>0
  <2> QED
    BY <2>1, HasLeast
<1>5. PICK b \in {m \in C : S(m) = s} : \A m \in {k \in C : S(k) = s} : b <= m
  <2>1. PICK least : least = {m \in C : S(m) = s}
    OBVIOUS
  <2>2. least \subseteq Nat /\ least # {}
    BY <1>2, <1>4, <1>v, <2>1
  <2>3. \E b \in least : \A m \in least : b <= m
    BY <2>2, HasLeast
  <2> QED
    BY <2>1, <2>3
<1>6. b \in C /\ \A n \in C : S(b) < S(n) \/ (S(b) = S(n) /\ b <= n)
  <2>1. ASSUME NEW n \in C PROVE S(b) < S(n) \/ (S(b) = S(n) /\ b <= n)
    <3>1. s <= S(n) /\ S(b) = s /\ s \in Nat /\ S(n) \in Nat
      BY <1>3, <1>4, <1>5, <1>v
    <3>2. S(n) = s => b <= n
      BY <1>5
    <3> QED
      BY <3>1, <3>2
  <2> QED
    BY <1>5, <2>1
<1>7. PICK c : c = Chosen(pool, part, used)
  OBVIOUS
<1>8. c = CHOOSE m \in C : \A n \in C : S(m) < S(n) \/ (S(m) = S(n) /\ m <= n)
  BY <1>1, <1>7 DEF Chosen, S
<1>9. c \in C /\ \A n \in C : S(c) < S(n) \/ (S(c) = S(n) /\ c <= n)
  BY <1>6, <1>8
<1>10. \A n \in C : S(c) <= S(n)
  <2>1. ASSUME NEW n \in C PROVE S(c) <= S(n)
    <3>1. S(c) \in Int /\ S(n) \in Int
      BY <1>3, <1>9
    <3> QED
      BY <1>9, <3>1
  <2> QED
    BY <2>1
<1>11. ASSUME NEW m \in C, m \notin used PROVE c \notin used
  <2>1. S(c) <= S(m) /\ S(m) \in 0..7 /\ S(m) <= 3 /\ S(c) \in 0..7 /\ (c \in used => S(c) >= 4)
    BY <1>3, <1>9, <1>10, <1>11
  <2> QED
    BY <2>1
<1> QED
  BY <1>1, <1>7, <1>9, <1>10, <1>11 DEF S

\* A route as it is found: nothing, a refusal, or a cast that passes every test.
Fits(card, pool) ==
    LET type == RouteType(card, pool) IN
    /\ Assignable(pool, Apart(type, card))
    /\ \A k \in DOMAIN Parts(type, card) : Candidates(pool, Parts(type, card)[k].role) # {}
    /\ Distinct(type, card, Cast(pool, Parts(type, card)))

LEMMA RouteIs ==
    ASSUME NEW card, NEW pool
    PROVE  /\ RouteOf(card, pool).status \in {"selected", "no distinct assignment", "no model", "not distinct"}
           /\ RouteOf(card, pool).status = "selected" <=> Fits(card, pool)
           /\ RouteOf(card, pool).status = "selected" =>
                 /\ RouteOf(card, pool).type = RouteType(card, pool)
                 /\ RouteOf(card, pool).selected = Cast(pool, Parts(RouteType(card, pool), card))
           /\ RouteOf(card, pool).status # "selected" => RouteOf(card, pool).selected = {}
<1>1. PICK type, parts, selected : /\ type = RouteType(card, pool) /\ parts = Parts(type, card)
                                  /\ selected = Cast(pool, parts)
  OBVIOUS
<1> DEFINE found == [status |-> "selected", type |-> type, selected |-> selected,
                     rejected |-> DOMAIN pool \ {s[1] : s \in selected}]
<1>2. RouteOf(card, pool) =
          IF ~Assignable(pool, Apart(type, card)) THEN Refused("no distinct assignment")
          ELSE IF \E k \in DOMAIN parts : Candidates(pool, parts[k].role) = {} THEN Refused("no model")
          ELSE IF ~Distinct(type, card, selected) THEN Refused("not distinct") ELSE found
  BY <1>1 DEF RouteOf
<1>3. Fits(card, pool) <=> /\ Assignable(pool, Apart(type, card))
                           /\ ~\E k \in DOMAIN parts : Candidates(pool, parts[k].role) = {}
                           /\ Distinct(type, card, selected)
  BY <1>1 DEF Fits
<1>4. found.status = "selected" /\ found.type = type /\ found.selected = selected
  OBVIOUS
<1>5. \A why : Refused(why).status = why /\ Refused(why).selected = {}
  BY DEF Refused
<1> HIDE DEF found
<1>6. CASE Fits(card, pool)
  <2>1. RouteOf(card, pool) = found
    BY <1>2, <1>3, <1>6
  <2> QED
    BY <1>1, <1>4, <1>6, <2>1
<1>7. CASE ~Fits(card, pool)
  <2>1. PICK why \in {"no distinct assignment", "no model", "not distinct"} : RouteOf(card, pool) = Refused(why)
    BY <1>2, <1>3, <1>7
  <2> QED
    BY <1>5, <1>7, <2>1
<1> QED
  BY <1>6, <1>7

\* What a route of each type selects: w[k] is given part k.
Card == [needs : SUBSET STRING, hint : {"none", "low", "medium", "high"}, disputed : BOOLEAN]

LEMMA TypesOfRoutes ==
    ASSUME NEW card \in Card, NEW pool
    PROVE  /\ RouteType(card, pool) \in {"single_model", "producer_reviewer", "dual_review", "multi_review", "manual_convergence"}
           /\ Risk(card) = "disputed" <=> RouteType(card, pool) = "manual_convergence"
<1>1. card.hint \in {"none", "low", "medium", "high"} /\ card.disputed \in BOOLEAN
  BY DEF Card
<1>2. Risk(card) \in {"disputed", "high", "medium", "low"}
  BY <1>1 DEF Risk
<1> QED
  BY <1>2 DEF RouteType

LEMMA PartsOf ==
    ASSUME NEW card, NEW type, type \in {"producer_reviewer", "dual_review", "multi_review", "manual_convergence", "single_model"}
    PROVE  \E n \in 1..5 :
             /\ Len(Parts(type, card)) = n /\ DOMAIN Parts(type, card) = 1..n
             /\ type = "producer_reviewer" => n = 2
             /\ type = "dual_review" => n = 4
             /\ type = "multi_review" => n = 5
             /\ type = "manual_convergence" => n = 4
<1>1. CASE type = "single_model"
  <2>1. PICK p : p = <<Part(Soloist(card), "none")>> /\ Parts(type, card) = p
    BY <1>1 DEF Parts
  <2> QED
    BY <1>1, <2>1
<1>2. CASE type = "producer_reviewer"
  <2>1. PICK a, b : Parts(type, card) = <<a, b>>
    BY <1>2 DEF Parts
  <2> QED
    BY <1>2, <2>1
<1>3. CASE type = "dual_review"
  <2>1. PICK a, b, c, d : Parts(type, card) = <<a, b, c, d>>
    BY <1>3 DEF Parts
  <2> QED
    BY <1>3, <2>1
<1>4. CASE type = "multi_review"
  <2>1. PICK a, b, c, d, e : Parts(type, card) = <<a, b, c, d, e>>
    BY <1>4 DEF Parts
  <2> QED
    BY <1>4, <2>1
<1>5. CASE type = "manual_convergence"
  <2>1. PICK a, b, c, d : Parts(type, card) = <<a, b, c, d>>
    BY <1>5 DEF Parts
  <2> QED
    BY <1>5, <2>1
<1> QED
  BY <1>1, <1>2, <1>3, <1>4, <1>5

\* The roles of the parts.
LEMMA RolesOf ==
    ASSUME NEW card
    PROVE  /\ Parts("producer_reviewer", card)[1].role = Producer(card)
           /\ Parts("producer_reviewer", card)[2].role = "reviewer"
           /\ Parts("dual_review", card)[1].role = "producer" /\ Parts("dual_review", card)[2].role = "reviewer"
           /\ Parts("dual_review", card)[3].role = "reviewer"
           /\ Parts("dual_review", card)[4].role = "convergence_editor"
           /\ Parts("multi_review", card)[1].role = Producer(card) /\ Parts("multi_review", card)[2].role = "reviewer"
           /\ Parts("multi_review", card)[3].role = "adversary" /\ Parts("multi_review", card)[4].role = "verifier"
           /\ Parts("multi_review", card)[5].role = "convergence_editor"
           /\ Parts("manual_convergence", card)[1].role = "reviewer"
           /\ Parts("manual_convergence", card)[2].role = "adversary"
           /\ Parts("manual_convergence", card)[3].role = "convergence_editor"
           /\ Parts("manual_convergence", card)[4].role = "human_decision"
           /\ Producer(card) \in {"producer", "coder"}
BY DEF Parts, Part, Producer

\* Whatever is cast has the part's role or can stand in for it.
LEMMA CastIsAble ==
    ASSUME NEW pool, DOMAIN pool \subseteq Nat, NEW parts, NEW n \in Nat, Len(parts) = n, DOMAIN parts = 1..n,
           \A k \in 1..n : Candidates(pool, parts[k].role) # {}
    PROVE  \A s \in Cast(pool, parts) : s[1] \in Candidates(pool, s[2])
<1>1. PICK w : GivenTo(pool, parts, n, w)
  BY CastIs
<1>2. ASSUME NEW k \in 1..n PROVE w[k] \in Candidates(pool, parts[k].role)
  <2>1. PICK used, part : w[k] = Chosen(pool, part, used) /\ part = parts[k]
    BY <1>1 DEF GivenTo
  <2> QED
    BY <2>1, ChosenIsBest
<1>3. ASSUME NEW s \in Cast(pool, parts) PROVE s[1] \in Candidates(pool, s[2])
  <2>1. PICK k \in 1..n : s = <<w[k], parts[k].role>>
    BY <1>1 DEF GivenTo
  <2>2. s[1] = w[k] /\ s[2] = parts[k].role
    BY <2>1
  <2> QED
    BY <1>2, <2>2
<1> QED
  BY <1>3

\* Of a route that is found, somebody who reviews did not produce.
ReviewedApart(selected) ==
    \E s \in CastAs(selected, {"reviewer", "adversary"}) :
        <<s[1], "producer">> \notin selected /\ <<s[1], "coder">> \notin selected

LEMMA ReviewersAreApart ==
    ASSUME NEW card \in Card, NEW pool, DOMAIN pool \subseteq Nat, Fits(card, pool),
           NEW type, type = RouteType(card, pool), type \notin {"single_model", "manual_convergence"},
           NEW selected, selected = Cast(pool, Parts(type, card))
    PROVE  ReviewedApart(selected)
<1>1. type \in {"producer_reviewer", "dual_review", "multi_review"}
  BY TypesOfRoutes
<1>2. PICK n \in 1..5 : /\ Len(Parts(type, card)) = n /\ DOMAIN Parts(type, card) = 1..n
                        /\ type = "producer_reviewer" => n = 2
                        /\ type = "dual_review" => n = 4
                        /\ type = "multi_review" => n = 5
  BY <1>1, PartsOf
<1>3. PICK parts : parts = Parts(type, card)
  OBVIOUS
<1>4. PICK w : GivenTo(pool, parts, n, w)
  BY <1>2, <1>3, CastIs
<1>5. /\ \A k \in 1..n : w[k] = Chosen(pool, parts[k], {w[j] : j \in 1..(k - 1)})
      /\ selected = {<<w[k], parts[k].role>> : k \in 1..n}
  BY <1>3, <1>4 DEF GivenTo
<1>6. ASSUME NEW k \in 1..n, parts[k].role \in {"reviewer", "adversary"},
             \A j \in 1..n : parts[j].role \in {"producer", "coder"} => w[j] # w[k]
      PROVE  ReviewedApart(selected)
  <2>1. PICK s : s = <<w[k], parts[k].role>>
    OBVIOUS
  <2>2. s \in CastAs(selected, {"reviewer", "adversary"}) /\ s[1] = w[k]
    BY <1>5, <1>6, <2>1 DEF CastAs
  <2>3. \A j \in 1..n : \A role \in {"producer", "coder"} : <<w[j], parts[j].role>> # <<w[k], role>>
    BY <1>6
  <2>4. <<s[1], "producer">> \notin selected /\ <<s[1], "coder">> \notin selected
    BY <1>5, <2>2, <2>3
  <2> QED
    BY <2>2, <2>4 DEF ReviewedApart
<1>7. CASE type = "producer_reviewer"
  <2>1. n = 2 /\ 1..n = {1, 2} /\ parts[1].role = Producer(card) /\ parts[2].role = "reviewer"
        /\ Producer(card) \in {"producer", "coder"}
    BY <1>2, <1>3, <1>7, RolesOf
  <2>2. w[1] # w[2]
    <3>1. PICK s, t : s = <<w[1], Producer(card)>> /\ t = <<w[2], "reviewer">>
      OBVIOUS
    <3>2. s \in selected /\ t \in selected /\ s # t /\ s[1] = w[1] /\ t[1] = w[2] /\ s[2] = Producer(card)
          /\ t[2] = "reviewer"
      BY <1>5, <2>1, <3>1
    <3>3. PICK roles : roles = {Apart(type, card)[k] : k \in 1..2}
      OBVIOUS
    <3>4. Producer(card) \in roles /\ "reviewer" \in roles
      <4>1. PICK a : a = <<Producer(card), "reviewer">>
        OBVIOUS
      <4>2. Apart(type, card) = a
        BY <1>7, <4>1 DEF Apart
      <4>3. a[1] = Producer(card) /\ a[2] = "reviewer"
        BY <4>1
      <4> QED
        BY <3>3, <4>2, <4>3
    <3>5. \A x, y \in CastAs(selected, roles) : x # y => x[1] # y[1]
      BY <1>7, <3>3 DEF Fits, Distinct
    <3>6. s \in CastAs(selected, roles) /\ t \in CastAs(selected, roles)
      BY <3>2, <3>4 DEF CastAs
    <3> QED
      BY <3>2, <3>5, <3>6
  <2> QED
    BY <1>6, <2>1, <2>2
<1>8. CASE type = "dual_review"
  <2>1. n = 4 /\ 1..n = {1, 2, 3, 4} /\ parts[1].role = "producer" /\ parts[2].role = "reviewer"
        /\ parts[3].role = "reviewer" /\ parts[4].role = "convergence_editor"
    BY <1>2, <1>3, <1>8, RolesOf
  <2>2. \E m \in Candidates(pool, "reviewer") : m # w[1]
    <3>1. PICK a : a = <<"reviewer", "reviewer">>
      OBVIOUS
    <3>2. Apart(type, card) = a /\ a[1] = "reviewer" /\ a[2] = "reviewer" /\ a # <<>>
      BY <1>8, <3>1 DEF Apart
    <3>3. \E x \in Candidates(pool, "reviewer"), y \in Candidates(pool, "reviewer") : x # y
      BY <3>2 DEF Fits, Assignable
    <3> QED
      BY <3>3
  <2>3. w[2] # w[1]
    <3>1. PICK used, part : used = {w[j] : j \in 1..1} /\ part = parts[2]
      OBVIOUS
    <3>2. used = {w[1]} /\ w[2] = Chosen(pool, part, used)
      BY <1>5, <2>1, <3>1
    <3>3. part.role = "reviewer"
      BY <2>1, <3>1
    <3>4. Candidates(pool, part.role) # {} /\ \E m \in Candidates(pool, part.role) : m \notin used
      BY <2>2, <3>2, <3>3
    <3>5. Chosen(pool, part, used) \notin used
      BY <3>4, ChosenIsBest
    <3> QED
      BY <3>2, <3>5
  <2>4. 2 \in 1..n /\ \A j \in 1..n : parts[j].role \in {"producer", "coder"} => j = 1
    BY <2>1
  <2> QED
    BY <1>6, <2>1, <2>3, <2>4
<1>9. CASE type = "multi_review"
  <2>1. n = 5 /\ 1..n = {1, 2, 3, 4, 5} /\ parts[1].role = Producer(card) /\ parts[2].role = "reviewer"
        /\ parts[3].role = "adversary" /\ parts[4].role = "verifier" /\ parts[5].role = "convergence_editor"
        /\ Producer(card) \in {"producer", "coder"}
    BY <1>2, <1>3, <1>9, RolesOf
  <2>2. w[2] # w[3]
    <3>1. PICK s, t : s = <<w[2], "reviewer">> /\ t = <<w[3], "adversary">>
      OBVIOUS
    <3>2. s \in selected /\ t \in selected /\ s # t /\ s[1] = w[2] /\ t[1] = w[3] /\ s[2] = "reviewer"
          /\ t[2] = "adversary"
      BY <1>5, <2>1, <3>1
    <3>3. PICK roles : roles = {Apart(type, card)[k] : k \in 1..2}
      OBVIOUS
    <3>4. "adversary" \in roles /\ "reviewer" \in roles
      <4>1. PICK a : a = <<"reviewer", "adversary">>
        OBVIOUS
      <4>2. Apart(type, card) = a
        BY <1>9, <4>1 DEF Apart
      <4>3. a[1] = "reviewer" /\ a[2] = "adversary"
        BY <4>1
      <4> QED
        BY <3>3, <4>2, <4>3
    <3>5. \A x, y \in CastAs(selected, roles) : x # y => x[1] # y[1]
      BY <1>9, <3>3 DEF Fits, Distinct
    <3>6. s \in CastAs(selected, roles) /\ t \in CastAs(selected, roles)
      BY <3>2, <3>4 DEF CastAs
    <3> QED
      BY <3>2, <3>5, <3>6
  <2>p. 2 \in 1..n /\ 3 \in 1..n /\ \A j \in 1..n : parts[j].role \in {"producer", "coder"} => j = 1
    BY <2>1
  <2>3. CASE w[2] # w[1]
    BY <1>6, <2>1, <2>p, <2>3
  <2>4. CASE w[3] # w[1]
    BY <1>6, <2>1, <2>p, <2>4
  <2> QED
    BY <2>2, <2>3, <2>4
<1> QED
  BY <1>1, <1>7, <1>8, <1>9

\* The models of the package itself.
LEMMA DefaultCandidates ==
    /\ DOMAIN DefaultPool = 1..5 /\ Len(DefaultPool) = 5
    /\ Candidates(DefaultPool, "producer") = {1} /\ Candidates(DefaultPool, "coder") = {3}
    /\ Candidates(DefaultPool, "reviewer") = {2, 3} /\ Candidates(DefaultPool, "adversary") = {3}
    /\ Candidates(DefaultPool, "verifier") # {} /\ Candidates(DefaultPool, "convergence_editor") # {}
    /\ Candidates(DefaultPool, "human_decision") # {}
    /\ DefaultPool[2].role = "reviewer" /\ DefaultPool[3].role = "coder" /\ "code_review" \in DefaultPool[2].able
<1>1. PICK a, b, c, d, e :
         /\ a = Member("producer", {"planner", "writer", "convergence_editor"}, {"planning", "writing", "convergence"})
         /\ b = Member("reviewer", {"source_auditor"}, {"code_review", "source_audit", "planning"})
         /\ c = Member("coder", {"reviewer", "adversary", "verifier"},
                       {"coding", "code_review", "adversary", "verification", "security_review", "file_io"})
         /\ d = Member("verifier", {}, {"verification", "file_io"})
         /\ e = Member("human_decision", {"orchestrator"}, {"convergence"})
  OBVIOUS
<1>2. PICK pool : pool = DefaultPool
  OBVIOUS
<1>3. pool = <<a, b, c, d, e>>
  BY <1>1, <1>2 DEF DefaultPool
<1>4. DOMAIN pool = {1, 2, 3, 4, 5} /\ Len(pool) = 5 /\ 1..5 = {1, 2, 3, 4, 5}
  BY <1>3
<1>5. pool[1] = a /\ pool[2] = b /\ pool[3] = c /\ pool[4] = d /\ pool[5] = e
  BY <1>3
<1>6. /\ pool[1].roles = {"producer", "planner", "writer", "convergence_editor"}
      /\ pool[2].roles = {"reviewer", "source_auditor"}
      /\ pool[3].roles = {"coder", "reviewer", "adversary", "verifier"}
      /\ pool[4].roles = {"verifier"}
      /\ pool[5].roles = {"human_decision", "orchestrator"}
  BY <1>1, <1>5 DEF Member
<1>7. pool[2].role = "reviewer" /\ pool[3].role = "coder" /\ "code_review" \in pool[2].able
  BY <1>1, <1>5 DEF Member
<1>9. {m \in DOMAIN pool : "producer" \in pool[m].roles} = {1}
  BY <1>4, <1>6
<1>10. {m \in DOMAIN pool : "coder" \in pool[m].roles} = {3}
  BY <1>4, <1>6
<1>11. {m \in DOMAIN pool : "reviewer" \in pool[m].roles} = {2, 3}
  BY <1>4, <1>6
<1>12. {m \in DOMAIN pool : "adversary" \in pool[m].roles} = {3}
  BY <1>4, <1>6
<1>13. 3 \in {m \in DOMAIN pool : "verifier" \in pool[m].roles}
  BY <1>4, <1>6
<1>14. 1 \in {m \in DOMAIN pool : "convergence_editor" \in pool[m].roles}
  BY <1>4, <1>6
<1>15. 5 \in {m \in DOMAIN pool : "human_decision" \in pool[m].roles}
  BY <1>4, <1>6
<1>16. Candidates(pool, "producer") = {1}
  BY <1>9 DEF Candidates
<1>17. Candidates(pool, "coder") = {3}
  BY <1>10 DEF Candidates
<1>18. Candidates(pool, "reviewer") = {2, 3}
  BY <1>11 DEF Candidates
<1>19. Candidates(pool, "adversary") = {3}
  BY <1>12 DEF Candidates
<1>20. Candidates(pool, "verifier") # {}
  BY <1>13 DEF Candidates
<1>21. Candidates(pool, "convergence_editor") # {}
  BY <1>14 DEF Candidates
<1>22. Candidates(pool, "human_decision") # {}
  BY <1>15 DEF Candidates
<1> QED
  BY <1>2, <1>4, <1>7, <1>16, <1>17, <1>18, <1>19, <1>20, <1>21, <1>22

\* The reviewer of the package itself reviews.
LEMMA DefaultReviewer ==
    ASSUME NEW used, 2 \notin used, NEW part, part = Part("reviewer", "code_review")
    PROVE  Chosen(DefaultPool, part, used) = 2
<1>1. part.role = "reviewer" /\ part.hint = "code_review"
  BY DEF Part
<1>2. PICK c, pool : c = Chosen(DefaultPool, part, used) /\ pool = DefaultPool
  OBVIOUS
<1>3. DOMAIN pool \subseteq Nat /\ Candidates(pool, part.role) = {2, 3}
  BY <1>1, <1>2, DefaultCandidates
<1>4. c \in {2, 3} /\ Score(pool, c, part, used) <= Score(pool, 2, part, used)
  BY <1>2, <1>3, ChosenIsBest
<1>5. Score(pool, 2, part, used) = 0
  BY <1>1, <1>2, DefaultCandidates DEF Score, Cost
<1>6. Score(pool, 3, part, used) >= 1
  BY <1>1, <1>2, DefaultCandidates DEF Score, Cost
<1>7. Score(pool, 3, part, used) \in Int
  BY DEF Score, Cost
<1>8. c # 3
  BY <1>4, <1>5, <1>6, <1>7
<1> QED
  BY <1>2, <1>4, <1>8

\* They serve every card.
LEMMA DefaultFits ==
    ASSUME NEW card \in Card
    PROVE  Fits(card, DefaultPool)
<1>1. PICK pool, type, parts : pool = DefaultPool /\ type = RouteType(card, pool) /\ parts = Parts(type, card)
  OBVIOUS
<1>2. type \in {"producer_reviewer", "dual_review", "multi_review", "manual_convergence"}
  <2>1. type \in {"single_model", "producer_reviewer", "dual_review", "multi_review", "manual_convergence"}
    BY <1>1, TypesOfRoutes
  <2>2. type # "single_model"
    <3>1. Len(pool) >= 2
      BY <1>1, DefaultCandidates
    <3>2. card.hint \in {"none", "low", "medium", "high"} /\ card.disputed \in BOOLEAN
      BY DEF Card
    <3>3. Risk(card) \in {"disputed", "high", "medium", "low"}
      BY <3>2 DEF Risk
    <3> QED
      BY <1>1, <3>1, <3>3 DEF RouteType
  <2> QED
    BY <2>1, <2>2
<1>3. PICK n \in 1..5 : /\ Len(parts) = n /\ DOMAIN parts = 1..n
                        /\ type = "producer_reviewer" => n = 2
                        /\ type = "dual_review" => n = 4
                        /\ type = "multi_review" => n = 5
                        /\ type = "manual_convergence" => n = 4
  BY <1>1, <1>2, PartsOf
<1>4. PICK w : GivenTo(pool, parts, n, w)
  BY <1>3, CastIs
<1>5. PICK selected : selected = Cast(pool, parts)
  OBVIOUS
<1>6. /\ \A k \in 1..n : w[k] = Chosen(pool, parts[k], {w[j] : j \in 1..(k - 1)})
      /\ selected = {<<w[k], parts[k].role>> : k \in 1..n}
  BY <1>4, <1>5 DEF GivenTo
<1>7. /\ Candidates(pool, "producer") = {1} /\ Candidates(pool, "coder") = {3}
      /\ Candidates(pool, "reviewer") = {2, 3} /\ Candidates(pool, "adversary") = {3}
      /\ Candidates(pool, "verifier") # {} /\ Candidates(pool, "convergence_editor") # {}
      /\ Candidates(pool, "human_decision") # {} /\ DOMAIN pool \subseteq Nat
  BY <1>1, DefaultCandidates
<1>8. ASSUME NEW a, NEW b, Apart(type, card) = <<a, b>>,
             \E x \in Candidates(pool, a), y \in Candidates(pool, b) : x # y
      PROVE  Assignable(pool, Apart(type, card))
  <2>1. PICK r : r = <<a, b>> /\ r = Apart(type, card)
    BY <1>8
  <2>2. r[1] = a /\ r[2] = b
    BY <2>1
  <2> QED
    BY <1>8, <2>1, <2>2 DEF Assignable
<1>9. Producer(card) \in {"producer", "coder"}
  BY RolesOf
<1>10. Assignable(pool, Apart(type, card))
  <2>1. CASE type = "producer_reviewer"
    <3>1. Apart(type, card) = <<Producer(card), "reviewer">>
      BY <2>1 DEF Apart
    <3>2. \E x \in Candidates(pool, Producer(card)), y \in Candidates(pool, "reviewer") : x # y
      BY <1>7, <1>9
    <3> QED
      BY <1>8, <3>1, <3>2
  <2>2. CASE type = "dual_review"
    <3>1. Apart(type, card) = <<"reviewer", "reviewer">>
      BY <2>2 DEF Apart
    <3>2. \E x \in Candidates(pool, "reviewer"), y \in Candidates(pool, "reviewer") : x # y
      BY <1>7
    <3> QED
      BY <1>8, <3>1, <3>2
  <2>3. CASE type \in {"multi_review", "manual_convergence"}
    <3>1. Apart(type, card) = <<"reviewer", "adversary">>
      BY <2>3 DEF Apart
    <3>2. \E x \in Candidates(pool, "reviewer"), y \in Candidates(pool, "adversary") : x # y
      BY <1>7
    <3> QED
      BY <1>8, <3>1, <3>2
  <2> QED
    BY <1>2, <2>1, <2>2, <2>3
<1>11. \A k \in 1..n : parts[k].role \in {"producer", "coder", "reviewer", "adversary", "verifier",
                                         "convergence_editor", "human_decision"}
  <2>1. 1..2 = {1, 2} /\ 1..4 = {1, 2, 3, 4} /\ 1..5 = {1, 2, 3, 4, 5}
    OBVIOUS
  <2>2. CASE type = "producer_reviewer"
    BY <1>1, <1>3, <2>1, <2>2, RolesOf
  <2>3. CASE type = "dual_review"
    BY <1>1, <1>3, <2>1, <2>3, RolesOf
  <2>4. CASE type = "multi_review"
    BY <1>1, <1>3, <2>1, <2>4, RolesOf
  <2>5. CASE type = "manual_convergence"
    BY <1>1, <1>3, <2>1, <2>5, RolesOf
  <2> QED
    BY <1>2, <2>2, <2>3, <2>4, <2>5
<1>12. \A k \in 1..n : Candidates(pool, parts[k].role) # {}
  BY <1>7, <1>11
<1>13. ASSUME NEW k \in 1..n, NEW used, used = {w[j] : j \in 1..(k - 1)}, NEW part, part = parts[k]
       PROVE  w[k] = Chosen(pool, part, used) /\ w[k] \in Candidates(pool, part.role)
  <2>1. w[k] = Chosen(pool, part, used)
    BY <1>6, <1>13
  <2>2. Candidates(pool, part.role) # {}
    BY <1>12, <1>13
  <2> QED
    BY <1>7, <2>1, <2>2, ChosenIsBest
<1>14. Distinct(type, card, selected)
  <2>1. CASE type = "manual_convergence"
    BY <2>1 DEF Distinct
  <2>2. CASE type = "dual_review"
    <3>1. PICK roles : roles = {Apart(type, card)[k] : k \in 1..2}
      OBVIOUS
    <3>2. roles = {"reviewer"}
      <4>1. PICK a : a = <<"reviewer", "reviewer">>
        OBVIOUS
      <4>2. a[1] = "reviewer" /\ a[2] = "reviewer" /\ Apart(type, card) = a /\ 1..2 = {1, 2}
        BY <2>2, <4>1 DEF Apart
      <4> QED
        BY <3>1, <4>2
    <3>3. ASSUME NEW s \in CastAs(selected, roles), NEW t \in CastAs(selected, roles), s # t
          PROVE  s[1] # t[1]
      <4>1. s \in selected /\ t \in selected /\ s[2] = "reviewer" /\ t[2] = "reviewer"
        BY <3>2 DEF CastAs
      <4>2. PICK j \in 1..n : s = <<w[j], parts[j].role>>
        BY <1>6, <4>1
      <4>3. PICK k \in 1..n : t = <<w[k], parts[k].role>>
        BY <1>6, <4>1
      <4> QED
        BY <3>3, <4>1, <4>2, <4>3
    <3> QED
      BY <3>1, <3>3 DEF Distinct
  <2>3. ASSUME type \in {"producer_reviewer", "multi_review"}
        PROVE  w[1] \in {1, 3} /\ w[2] = 2
    <3>1. /\ parts[1].role = Producer(card) /\ parts[2] = Part("reviewer", "code_review")
          /\ 1 \in 1..n /\ 2 \in 1..n
      BY <1>1, <1>3, <2>3 DEF Parts, Part
    <3>2. w[1] \in {1, 3}
      <4>1. PICK used, part : used = {w[j] : j \in 1..(1 - 1)} /\ part = parts[1]
        OBVIOUS
      <4>2. w[1] \in Candidates(pool, part.role)
        BY <1>13, <3>1, <4>1
      <4> QED
        BY <1>7, <1>9, <3>1, <4>1, <4>2
    <3>3. w[2] = 2
      <4>1. PICK used, part : used = {w[j] : j \in 1..(2 - 1)} /\ part = parts[2]
        OBVIOUS
      <4>2. w[2] = Chosen(pool, part, used)
        BY <1>13, <3>1, <4>1
      <4>3. used = {w[1]}
        BY <4>1
      <4>4. 2 \notin used
        BY <3>2, <4>3
      <4> QED
        BY <1>1, <3>1, <4>1, <4>2, <4>4, DefaultReviewer
    <3> QED
      BY <3>2, <3>3
  <2>4. CASE type = "producer_reviewer"
    <3>1. PICK roles : roles = {Apart(type, card)[k] : k \in 1..2}
      OBVIOUS
    <3>2. n = 2 /\ 1..n = {1, 2}
      BY <1>3, <2>4
    <3>3. ASSUME NEW s \in CastAs(selected, roles), NEW t \in CastAs(selected, roles), s # t
          PROVE  s[1] # t[1]
      <4>1. PICK j \in 1..n : s = <<w[j], parts[j].role>>
        BY <1>6 DEF CastAs
      <4>2. PICK k \in 1..n : t = <<w[k], parts[k].role>>
        BY <1>6 DEF CastAs
      <4>3. j # k /\ s[1] = w[j] /\ t[1] = w[k]
        BY <3>3, <4>1, <4>2
      <4> QED
        BY <2>3, <2>4, <3>2, <4>3
    <3> QED
      BY <3>1, <3>3 DEF Distinct
  <2>5. CASE type = "multi_review"
    <3>1. PICK roles : roles = {Apart(type, card)[k] : k \in 1..2}
      OBVIOUS
    <3>2. roles = {"reviewer", "adversary"}
      <4>1. PICK a : a = <<"reviewer", "adversary">>
        OBVIOUS
      <4>2. a[1] = "reviewer" /\ a[2] = "adversary" /\ Apart(type, card) = a /\ 1..2 = {1, 2}
        BY <2>5, <4>1 DEF Apart
      <4> QED
        BY <3>1, <4>2
    <3>3. /\ n = 5 /\ 1..n = {1, 2, 3, 4, 5} /\ parts[1].role = Producer(card) /\ parts[3].role = "adversary"
          /\ parts[4].role = "verifier" /\ parts[5].role = "convergence_editor"
      BY <1>1, <1>3, <2>5, RolesOf
    <3>4. w[3] = 3
      <4>1. PICK used, part : used = {w[j] : j \in 1..(3 - 1)} /\ part = parts[3]
        OBVIOUS
      <4>2. 3 \in 1..n
        BY <3>3
      <4>3. w[3] \in Candidates(pool, part.role)
        BY <1>13, <4>1, <4>2
      <4> QED
        BY <1>7, <3>3, <4>1, <4>3
    <3>5. ASSUME NEW s \in CastAs(selected, roles), NEW t \in CastAs(selected, roles), s # t
          PROVE  s[1] # t[1]
      <4>1. PICK j \in 1..n : s = <<w[j], parts[j].role>>
        BY <1>6 DEF CastAs
      <4>2. PICK k \in 1..n : t = <<w[k], parts[k].role>>
        BY <1>6 DEF CastAs
      <4>3. s[2] \in {"reviewer", "adversary"} /\ t[2] \in {"reviewer", "adversary"}
        BY <3>2 DEF CastAs
      <4>4. j # k /\ s[1] = w[j] /\ t[1] = w[k] /\ s[2] = parts[j].role /\ t[2] = parts[k].role
        BY <3>5, <4>1, <4>2
      <4>5. j \in {2, 3} /\ k \in {2, 3}
        BY <1>9, <3>3, <4>3, <4>4
      <4> QED
        BY <2>3, <2>5, <3>4, <4>4, <4>5
    <3> QED
      BY <3>1, <3>5 DEF Distinct
  <2> QED
    BY <1>2, <2>1, <2>2, <2>4, <2>5
<1> QED
  BY <1>1, <1>3, <1>5, <1>10, <1>12, <1>14 DEF Fits

\* A disputed card is put to who decides for the humans.
LEMMA HumansDecide ==
    ASSUME NEW card, NEW pool, NEW selected, selected = Cast(pool, Parts("manual_convergence", card))
    PROVE  CastAs(selected, {"human_decision"}) # {}
<1>1. PICK parts : parts = Parts("manual_convergence", card)
  OBVIOUS
<1>2. Len(parts) = 4 /\ parts[4].role = "human_decision" /\ 4 \in 1..4
  <2>1. PICK n \in 1..5 : Len(parts) = n /\ n = 4
    BY <1>1, PartsOf
  <2> QED
    BY <1>1, <2>1, RolesOf
<1>3. PICK w : GivenTo(pool, parts, 4, w)
  BY <1>2, CastIs
<1>4. PICK s : s = <<w[4], "human_decision">>
  OBVIOUS
<1>5. s \in selected /\ s[2] = "human_decision"
  BY <1>1, <1>2, <1>3, <1>4 DEF GivenTo
<1> QED
  BY <1>5 DEF CastAs

RoutingInv ==
    /\ routing.card \in Card /\ DOMAIN routing.pool \subseteq Nat
    /\ routing = [card |-> routing.card, pool |-> routing.pool, route |-> routing.route]
    /\ routing.route \in {NoRoute, RouteOf(routing.card, routing.pool)}

LEMMA RoutingFollows ==
    ASSUME RoutingInv
    PROVE  RoutesAreIndependent
<1>1. PICK card, pool, route : card = routing.card /\ pool = routing.pool /\ route = routing.route
  OBVIOUS
<1>2. card \in Card /\ DOMAIN pool \subseteq Nat /\ route \in {NoRoute, RouteOf(card, pool)}
  BY <1>1 DEF RoutingInv
<1>3. NoRoute.status = "none" /\ NoRoute.selected = {}
  BY DEF NoRoute, Refused
<1>4. PICK type, parts, selected : /\ type = RouteType(card, pool) /\ parts = Parts(type, card)
                                  /\ selected = Cast(pool, parts)
  OBVIOUS
<1>5. route.status # "selected" => route.selected = {}
  BY <1>2, <1>3, RouteIs
<1>6. route.status = "selected" => Fits(card, pool) /\ route.type = type /\ route.selected = selected
  BY <1>2, <1>3, <1>4, RouteIs
<1>7. route.status = "selected" /\ route.type \notin {"single_model", "manual_convergence"} =>
          ReviewedApart(route.selected)
  BY <1>2, <1>4, <1>6, ReviewersAreApart
<1>8. route.status = "selected" /\ Risk(card) = "disputed" => CastAs(route.selected, {"human_decision"}) # {}
  BY <1>2, <1>4, <1>6, TypesOfRoutes, HumansDecide
<1>9. \A s \in route.selected : s[1] \in Candidates(pool, s[2])
  <2>1. CASE route.status = "selected"
    <3>1. type \in {"single_model", "producer_reviewer", "dual_review", "multi_review", "manual_convergence"}
      BY <1>2, <1>4, TypesOfRoutes
    <3>2. PICK n \in 1..5 : Len(parts) = n /\ DOMAIN parts = 1..n
      BY <1>4, <3>1, PartsOf
    <3>3. \A k \in 1..n : Candidates(pool, parts[k].role) # {}
      BY <1>4, <1>6, <2>1, <3>2 DEF Fits
    <3>4. n \in Nat
      OBVIOUS
    <3>5. \A s \in selected : s[1] \in Candidates(pool, s[2])
      BY <1>2, <1>4, <3>2, <3>3, <3>4, CastIsAble
    <3> QED
      BY <1>6, <2>1, <3>5
  <2>2. CASE route.status # "selected"
    BY <1>5, <2>2
  <2> QED
    BY <2>1, <2>2
<1>10. pool = DefaultPool => route.status \in {"none", "selected"}
  BY <1>2, <1>3, DefaultFits, RouteIs
<1> QED
  BY <1>1, <1>7, <1>8, <1>9, <1>10 DEF RoutesAreIndependent, Selected, ReviewedApart

\* Whatever models there are and whatever the card: a route that is found has a reviewer who
\* did not produce, puts a disputed card to who decides for the humans, and gives no model a
\* role that it cannot fill; and the models of the package itself serve every card (route).
THEOREM RoutesStayIndependent == RoutingInit /\ [][Route]_routing => []RoutesAreIndependent
<1>1. RoutingInit => RoutingInv
  <2>1. SUFFICES ASSUME RoutingInit PROVE RoutingInv
    OBVIOUS
  <2>2. PICK card \in Tasks, pool \in Pools : routing = [card |-> card, pool |-> pool, route |-> NoRoute]
    BY <2>1 DEF RoutingInit
  <2>3. card \in Card /\ pool \in Seq(Model)
    BY RoutingAssumption DEF Card, Model
  <2>4. DOMAIN pool \subseteq Nat
    <3>1. DOMAIN pool = 1..Len(pool) /\ Len(pool) \in Nat
      BY <2>3
    <3> QED
      BY <3>1
  <2> QED
    BY <2>2, <2>3, <2>4 DEF RoutingInv
<1>2. RoutingInv /\ [Route]_routing => RoutingInv'
  <2>1. SUFFICES ASSUME RoutingInv, [Route]_routing PROVE RoutingInv'
    OBVIOUS
  <2>2. CASE Route
    <3>1. routing' = [card |-> routing.card, pool |-> routing.pool, route |-> RouteOf(routing.card, routing.pool)]
      BY <2>1, <2>2 DEF RoutingInv, Route
    <3> QED
      BY <2>1, <3>1 DEF RoutingInv
  <2>3. CASE routing' = routing
    BY <2>1, <2>3 DEF RoutingInv
  <2> QED
    BY <2>1, <2>2, <2>3
<1> QED
  BY <1>1, <1>2, RoutingFollows, PTL
=============================================================================
