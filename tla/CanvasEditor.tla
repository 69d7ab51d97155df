---------------------------- MODULE CanvasEditor ----------------------------
(***************************************************************************)
(* The workflow editor of the web client, canvas-client-page.tsx: one open *)
(* document with its undo history, its autosave queue, the preview of an   *)
(* assistant's operations and the generations that answer into it.         *)
(*                                                                         *)
(* A document is a stamp and the tracked nodes' states.  React compares    *)
(* nodes and connections by identity: every setNodes makes a new document, *)
(* even one that changes nothing, and gets a new stamp; undo, redo and the *)
(* end of a preview bring a document back with the stamp it had.  A render *)
(* and the effects it triggers are one step with the event that caused it; *)
(* timers, promise chains, requests and their answers are steps of their   *)
(* own.  Leaving the page and coming back is a new mount: its queue is     *)
(* new, while requests of the earlier mount may still reach the server.    *)
(***************************************************************************)
EXTENDS Naturals, SequencesExt

CONSTANTS
  Nodes,          (* nodes whose generation is followed                     *)
  Titles,
  HistoryLimit,   (* 50: past.slice(-49) and one more                       *)
  MaxStamp,       (* bound: documents made in a behaviour                   *)
  QueueBound,     (* bound: jobs in the save queue                          *)
  ActBound,       (* bound: undos, redos, presses, previews, titles, shares, departures *)
  None

ASSUME LimitAssumption == HistoryLimit \in Nat \ {0}
ASSUME BoundAssumption == /\ MaxStamp \in Nat
                          /\ QueueBound \in Nat
                          /\ ActBound \in Nat

VARIABLES
  page,           (* "away", "hydrating" (fetched, images being resolved), "open" *)
  doc, title,     (* nodes, connections and style; currentProject.title     *)
  (* historyRef, lastHistoryRef, historyCommitTimerRef, applyingHistoryRef  *)
  past, future, last, commitTimer, applying,
  restores,       (* the setTimeout(0) of applyHistory not run yet, oldest first *)
  drag,           (* "none", "pressed" or "moved": not "none" is historyPausedRef *)
  preview,        (* agentPreview: its document and its run_generation nodes *)
  (* autosave: the 600 ms timer, saveQueueRef, what became of the request of *)
  (* its head, saveStatus                                                   *)
  saveTimer, queue, request, saveStatus,
  running,        (* runningNodeIdsRef: generations not answered            *)
  server,         (* the row of the workflow                                *)
  orphans,        (* requests of earlier mounts still under way             *)
  stamps, acts,   (* counted for the bounds                                 *)
  (* history: the last change came while the save effect was paused; an      *)
  (* orphan was stored after this mount had read the row; a snapshot or a    *)
  (* preview was put in the place of the document                           *)
  deaf, overtaken, rewound

historyVars == <<past, future, last, commitTimer, applying, restores>>
saveVars == <<saveTimer, queue, request, saveStatus>>
serverVars == <<server, orphans, overtaken>>
countVars == <<stamps, acts>>
vars == <<page, doc, title, historyVars, drag, preview, saveVars, running,
          serverVars, countVars, deaf, rewound>>

States == {"gone", "idle", "loading", "done", "failed"}
Documents == [stamp : 0..MaxStamp, nodes : [Nodes -> States]]
Saved == [doc : Documents, title : Titles]
Previews == [doc : Documents, runs : SUBSET Nodes]
ASSUME NoneAssumption == None \notin Previews
Jobs == [kind : {"auto", "share"}, doc : Documents, title : Titles, live : BOOLEAN]

Init ==
  /\ page = "away"
  /\ server \in {[doc |-> [stamp |-> 0, nodes |-> f], title |-> t] :
                   f \in [Nodes -> {"idle", "loading"}], t \in Titles}
  /\ doc = server.doc /\ title = server.title
  /\ past = <<>> /\ future = <<>> /\ last = doc
  /\ commitTimer = FALSE /\ applying = FALSE /\ restores = <<>>
  /\ drag = "none" /\ preview = None
  /\ saveTimer = FALSE /\ queue = <<>> /\ request = "none" /\ saveStatus = "idle"
  /\ running = {}
  /\ orphans = {} /\ overtaken = FALSE
  /\ stamps = 0 /\ acts = 0
  /\ deaf = FALSE /\ rewound = FALSE

(* A new document of these nodes, the k-th made in this step. *)
Stamped(f, k) == [stamp |-> stamps + k, nodes |-> f]
Stamps(k) == /\ stamps + k <= MaxStamp
             /\ stamps' = stamps + k
Acts == /\ acts < ActBound
        /\ acts' = acts + 1
Set(n, s) == [doc.nodes EXCEPT ![n] = s]

-----------------------------------------------------------------------------
(* The two effects.  Each runs after a render that changed one of its      *)
(* dependencies; the cleanup of its previous run, which clears its timer,  *)
(* runs first, even when the new run returns at once.                      *)

Paused(g, p) == g # "none" \/ p # None

(* Lines 425-449.  d is the document rendered, a whether applyHistory is   *)
(* under way, l what lastHistoryRef holds.                                 *)
HistoryEffect(d, g, p, a, l) ==
  commitTimer' = (~Paused(g, p) /\ ~a /\ d.stamp # l.stamp)

(* Jobs not sent: those of autosaves whose effect was cleaned up return when *)
(* their turn comes; they are taken away at once.  What stays is the share, *)
(* of which there is one at most.                                          *)
Unsent(q) ==
  IF \E i \in DOMAIN q : q[i].kind = "share"
  THEN <<q[CHOOSE i \in DOMAIN q : q[i].kind = "share"]>> ELSE <<>>
(* The cleanup of an autosave; the answer to its request under way is not   *)
(* listened to any more.                                                   *)
Cancel(q) ==
  IF request = "none" THEN Unsent(q)
  ELSE <<[Head(q) EXCEPT !.live = (@ /\ Head(q).kind = "share")]>> \o Unsent(Tail(q))

(* Lines 451-471. *)
SaveEffect(g, p) ==
  /\ queue' = Cancel(queue)
  /\ saveTimer' = ~Paused(g, p)
  /\ deaf' = Paused(g, p)
  /\ saveStatus' = IF Paused(g, p) THEN saveStatus ELSE "saving"

(* setNodes outside a restore: both effects see the new document. *)
Render(d, g, p) ==
  /\ doc' = d
  /\ HistoryEffect(d, g, p, applying, last)
  /\ SaveEffect(g, p)

-----------------------------------------------------------------------------
(* The page *)

(* fetchWorkflow answered: the row as it is now. *)
Fetch ==
  /\ page = "away"
  /\ page' = "hydrating"
  /\ doc' = server.doc /\ title' = server.title
  /\ overtaken' = FALSE
  /\ UNCHANGED <<historyVars, drag, preview, saveVars, running, server, orphans,
                 countVars, deaf, rewound>>

(* A fault to be caught: what was loading stays so. *)
Interrupted_Kept(f) == f
(* resetInterruptedGeneration: nobody waits for what was saved as loading. *)
Interrupted(f) == [n \in Nodes |-> IF f[n] = "loading" THEN "failed" ELSE f[n]]

(* The images are resolved: the document and an empty history; projectLoaded *)
(* lets the effects run, of which the second saves what was just read.     *)
Restore ==
  /\ page = "hydrating"
  /\ page' = "open"
  /\ LET f == Interrupted(doc.nodes)
         d == IF f = doc.nodes THEN doc ELSE Stamped(f, 1)
     IN /\ Stamps(IF f = doc.nodes THEN 0 ELSE 1)
        /\ doc' = d /\ last' = d
        /\ HistoryEffect(d, "none", None, FALSE, d)
        /\ SaveEffect("none", None)
  /\ past' = <<>> /\ future' = <<>>
  /\ UNCHANGED <<rewound, title, applying, restores, drag, preview, request, running,
                 serverVars, acts>>

(* The snapshots that may still reach the server once the page is left: the *)
(* request under way, and shares, which ask nobody whether to go on.       *)
Underway ==
  {[doc |-> IF i = 1 /\ request = "sent" THEN queue[i].doc ELSE doc, title |-> queue[i].title] :
     i \in {j \in DOMAIN queue : (j = 1 /\ request = "sent")
                                 \/ (queue[j].kind = "share" /\ (j = 1 => request = "none"))}}

Dropped == "none"
(* Another page, a reload or another account: the component is gone, with  *)
(* its timers, its queue and those who wait for a generation.              *)
Leave ==
  /\ page = "open"
  /\ Acts
  /\ page' = "away"
  /\ orphans' = orphans \cup Underway
  /\ queue' = <<>> /\ request' = Dropped /\ saveTimer' = FALSE /\ saveStatus' = "idle"
  /\ commitTimer' = FALSE /\ applying' = FALSE /\ restores' = <<>>
  /\ past' = <<>> /\ future' = <<>>
  /\ drag' = "none" /\ preview' = None /\ running' = {} /\ deaf' = FALSE /\ rewound' = FALSE
  /\ UNCHANGED <<doc, title, last, server, overtaken, stamps>>

(* A request of an earlier mount is stored, or never arrives. *)
OrphanStored(o) ==
  /\ o \in orphans
  /\ orphans' = orphans \ {o}
  /\ server' = o
  /\ overtaken' = (overtaken \/ page # "away")
  /\ UNCHANGED <<page, doc, title, historyVars, drag, preview, saveVars, running,
                 countVars, deaf, rewound>>
OrphanLost(o) ==
  /\ o \in orphans
  /\ orphans' = orphans \ {o}
  /\ UNCHANGED <<page, doc, title, historyVars, drag, preview, saveVars, running,
                 server, overtaken, countVars, deaf, rewound>>

-----------------------------------------------------------------------------
(* Edits.  During a preview the canvas, its toolbar and the keyboard do    *)
(* nothing; the buttons of the top bar still work.                         *)

(* A fault to be caught: a handler changes the nodes of an earlier render. *)
Current_Captured == last.nodes
(* setNodes(prev => ...), or nodesRef, which each render sets. *)
Current == doc.nodes

(* Any change of nodes, connections or style but the deletion of a followed *)
(* node: creating, moving, resizing, pasting, uploading, connecting...      *)
Edit ==
  /\ page = "open" /\ preview = None
  /\ Stamps(1)
  /\ Render(Stamped(Current, 1), drag, None)
  /\ UNCHANGED <<page, title, past, future, last, applying, restores, drag, preview,
                 request, running, serverVars, acts, rewound>>

DeleteNode(n) ==
  /\ page = "open" /\ preview = None
  /\ doc.nodes[n] # "gone"
  /\ Stamps(1)
  /\ Render(Stamped(Set(n, "gone"), 1), drag, None)
  /\ UNCHANGED <<page, title, past, future, last, applying, restores, drag, preview,
                 request, running, serverVars, acts, rewound>>

(* finishTitleEditing.  The title is no part of the undo history. *)
EditTitle(t) ==
  /\ page = "open" /\ t # title
  /\ Acts
  /\ title' = t
  /\ SaveEffect(drag, preview)
  /\ UNCHANGED <<page, doc, historyVars, drag, preview, request, running, serverVars,
                 stamps, rewound>>

(* handleNodeMouseDown: historyPausedRef is a ref, no effect runs. *)
PressNode ==
  /\ page = "open" /\ preview = None /\ drag = "none"
  /\ Acts
  /\ drag' = "pressed"
  /\ UNCHANGED <<page, doc, title, historyVars, preview, saveVars, running, serverVars,
                 stamps, deaf, rewound>>

(* handleGlobalMouseMove: the nodes follow the pointer from the first pixel, *)
(* hasMoved is set from the fourth.                                        *)
MoveNode(far) ==
  /\ page = "open" /\ drag # "none"
  /\ drag' = IF far THEN "moved" ELSE drag
  /\ Stamps(1)
  /\ Render(Stamped(doc.nodes, 1), drag', preview)
  /\ UNCHANGED <<page, title, past, future, last, applying, restores, preview,
                 request, running, serverVars, acts, rewound>>

(* finishNodeDrag at a place: the nodes are set where they were dropped. *)
DropNode ==
  /\ page = "open" /\ drag = "moved"
  /\ drag' = "none"
  /\ Stamps(1)
  /\ Render(Stamped(doc.nodes, 1), "none", preview)
  /\ UNCHANGED <<page, title, past, future, last, applying, restores, preview,
                 request, running, serverVars, acts, rewound>>

(* finishNodeDrag after a click, or without a place (pointercancel, blur): *)
(* nothing the effects depend on changes, so that neither runs.            *)
ReleaseNode ==
  /\ page = "open" /\ drag # "none"
  /\ drag' = "none"
  /\ UNCHANGED <<page, doc, title, historyVars, preview, saveVars, running, serverVars,
                 countVars, deaf, rewound>>

-----------------------------------------------------------------------------
(* Undo and redo *)

(* past.slice(-49) *)
Recent(s) == IF Len(s) >= HistoryLimit THEN Tail(s) ELSE s

(* The 180 ms timer. *)
Commit ==
  /\ commitTimer
  /\ commitTimer' = FALSE
  /\ past' = Append(Recent(past), last)
  /\ future' = <<>>
  /\ last' = doc
  /\ UNCHANGED <<page, doc, title, applying, restores, drag, preview, saveVars, running,
                 serverVars, countVars, deaf, rewound>>

(* applyHistory: the document is put back at once, lastHistoryRef only when *)
(* its timeout runs.                                                       *)
ApplyHistory(d) ==
  /\ doc' = d
  /\ applying' = TRUE
  /\ restores' = Append(restores, d)
  /\ commitTimer' = FALSE
  /\ IF d = doc THEN UNCHANGED <<queue, saveTimer, saveStatus, deaf>>
                ELSE SaveEffect(drag, preview)
  /\ rewound' = TRUE

(* A fault to be caught: the document shown is put aside, not lastHistoryRef. *)
PutAside_Shown == doc
PutAside == last

Undo ==
  /\ Acts
  /\ page = "open" /\ past # <<>>
  /\ past' = Front(past)
  /\ future' = Append(future, PutAside)
  /\ ApplyHistory(Last(past))
  /\ UNCHANGED <<page, title, last, drag, preview, request, running, serverVars, stamps>>

Redo ==
  /\ Acts
  /\ page = "open" /\ future # <<>>
  /\ future' = Front(future)
  /\ past' = Append(past, PutAside)
  /\ ApplyHistory(Last(future))
  /\ UNCHANGED <<page, title, last, drag, preview, request, running, serverVars, stamps>>

RestoreDone ==
  /\ restores # <<>>
  /\ restores' = Tail(restores)
  /\ last' = Head(restores)
  /\ applying' = FALSE
  /\ UNCHANGED <<page, doc, title, past, future, commitTimer, drag, preview, saveVars,
                 running, serverVars, countVars, deaf, rewound>>

-----------------------------------------------------------------------------
(* Generations into a node of the canvas.  Their requests outlive what the *)
(* user does meanwhile; setNodes(prev => ...) finds the document of then.  *)

Answered(n, s) == IF doc.nodes[n] = "gone" THEN doc.nodes ELSE Set(n, s)

(* handleGenerateNode, handleRetryNode: not while one is running. *)
Generate(n) ==
  /\ page = "open" /\ preview = None
  /\ n \notin running
  /\ doc.nodes[n] \in {"idle", "failed"}
  /\ running' = running \cup {n}
  /\ Stamps(1)
  /\ Render(Stamped(Set(n, "loading"), 1), drag, None)
  /\ UNCHANGED <<page, title, past, future, last, applying, restores, drag, preview,
                 request, serverVars, acts, rewound>>

(* The answer, or the error, and the finally of its handler. *)
Answer(n, s) ==
  /\ n \in running
  /\ running' = running \ {n}
  /\ Stamps(1)
  /\ Render(Stamped(Answered(n, s), 1), drag, preview)
  /\ UNCHANGED <<page, title, past, future, last, applying, restores, drag, preview,
                 request, serverVars, acts, rewound>>

-----------------------------------------------------------------------------
(* The preview of an assistant's operations *)

(* startAgentPreview: applied to the preview shown, else to the document.  *)
(* An operation adds, moves or links (no followed node changes) or deletes *)
(* one; run_generation is remembered for the confirmation.                 *)
StartPreview(f, R) ==
  /\ page = "open"
  /\ Acts
  /\ LET d == IF preview = None THEN doc ELSE preview.doc
     IN f \in {d.nodes} \cup {[d.nodes EXCEPT ![n] = "gone"] : n \in Nodes}
  /\ Stamps(1)
  /\ preview' = [doc |-> Stamped(f, 1),
                 runs |-> R \cup (IF preview = None THEN {} ELSE preview.runs)]
  /\ HistoryEffect(doc, drag, preview', applying, last)
  /\ SaveEffect(drag, preview')
  /\ UNCHANGED <<page, doc, title, past, future, last, applying, restores, drag, request,
                 running, serverVars, rewound>>

CancelPreview ==
  /\ preview # None
  /\ preview' = None
  /\ HistoryEffect(doc, drag, None, applying, last)
  /\ SaveEffect(drag, None)
  /\ UNCHANGED <<page, doc, title, past, future, last, applying, restores, drag, request,
                 running, serverVars, countVars, rewound>>

(* confirmAgentPreview: the preview takes the place of the document, and   *)
(* generations start in it unless one of the same node is running.         *)
ConfirmPreview ==
  /\ preview # None
  /\ LET R == {n \in preview.runs \ running : preview.doc.nodes[n] # "gone"}
         f == [n \in Nodes |-> IF n \in R THEN "loading" ELSE preview.doc.nodes[n]]
         d == IF R = {} THEN preview.doc ELSE Stamped(f, 1)
     IN /\ Stamps(IF R = {} THEN 0 ELSE 1)
        /\ running' = running \cup R
        /\ Render(d, drag, None)
  /\ preview' = None
  /\ rewound' = TRUE
  /\ UNCHANGED <<page, title, past, future, last, applying, restores, drag, request,
                 serverVars, acts>>

-----------------------------------------------------------------------------
(* Saving *)

(* The 600 ms timer: the snapshot of its effect, which is of the document  *)
(* shown, since any change would have cleared it.                          *)
SaveDue ==
  /\ saveTimer /\ Len(queue) < QueueBound
  /\ saveTimer' = FALSE
  /\ queue' = Append(queue, [kind |-> "auto", doc |-> doc, title |-> title, live |-> TRUE])
  /\ UNCHANGED <<page, doc, title, historyVars, drag, preview, request, saveStatus, running,
                 serverVars, countVars, deaf, rewound>>

(* A fault to be caught: what is shown is saved, a preview included. *)
Shown_Preview == IF preview = None THEN doc ELSE preview.doc
Shown == doc
(* submitShare: the title of now, the document of when its turn comes. *)
Share ==
  /\ page = "open" /\ Len(queue) < QueueBound
  /\ Acts
  /\ \A i \in DOMAIN queue : queue[i].kind # "share"
  /\ queue' = Append(queue, [kind |-> "share", doc |-> doc, title |-> title, live |-> TRUE])
  /\ UNCHANGED <<page, doc, title, historyVars, drag, preview, saveTimer, request, saveStatus,
                 running, serverVars, stamps, deaf, rewound>>

Send ==
  /\ queue # <<>> /\ request = "none"
  /\ request' = "sent"
  /\ queue' = IF Head(queue).kind = "share" THEN [queue EXCEPT ![1].doc = Shown] ELSE queue
  /\ UNCHANGED <<page, doc, title, historyVars, drag, preview, saveTimer, saveStatus, running,
                 serverVars, countVars, deaf, rewound>>

Store ==
  /\ request = "sent"
  /\ request' = "stored"
  /\ server' = [doc |-> Head(queue).doc, title |-> Head(queue).title]
  /\ UNCHANGED <<page, doc, title, historyVars, drag, preview, saveTimer, queue, saveStatus,
                 running, orphans, overtaken, countVars, deaf, rewound>>

(* The answer to a share sets the project, its title included, whatever was *)
(* typed since.                                                            *)
ShareAnswered ==
  /\ request = "stored" /\ Head(queue).kind = "share"
  /\ request' = "none"
  /\ title' = Head(queue).title
  /\ IF title' = title
     THEN queue' = Tail(queue) /\ UNCHANGED <<saveTimer, saveStatus, deaf>>
     ELSE /\ queue' = Unsent(Tail(queue))
          /\ saveTimer' = ~Paused(drag, preview)
          /\ deaf' = Paused(drag, preview)
          /\ saveStatus' = IF Paused(drag, preview) THEN saveStatus ELSE "saving"
  /\ UNCHANGED <<page, doc, historyVars, drag, preview, running, serverVars, countVars,
                 rewound>>

(* A fault to be caught: an answer counts whatever happened since. *)
Listening_Always(j) == j.kind = "auto"
Listening(j) == j.kind = "auto" /\ j.live

SaveAnswered ==
  /\ request = "stored" /\ Head(queue).kind = "auto"
  /\ request' = "none"
  /\ queue' = Tail(queue)
  /\ saveStatus' = IF Listening(Head(queue)) THEN "saved" ELSE saveStatus
  /\ UNCHANGED <<page, doc, title, historyVars, drag, preview, saveTimer, running,
                 serverVars, countVars, deaf, rewound>>

(* No answer, whether it was stored or not.  Nothing tries again. *)
SaveFailed ==
  /\ request \in {"sent", "stored"}
  /\ request' = "none"
  /\ queue' = Tail(queue)
  /\ saveStatus' = IF Listening(Head(queue)) THEN "error" ELSE saveStatus
  /\ UNCHANGED <<page, doc, title, historyVars, drag, preview, saveTimer, running,
                 serverVars, countVars, deaf, rewound>>

-----------------------------------------------------------------------------
User ==
  \/ \E far \in BOOLEAN : MoveNode(far)
  \/ Leave \/ Edit \/ PressNode \/ DropNode \/ ReleaseNode \/ Undo \/ Redo
  \/ CancelPreview \/ ConfirmPreview \/ Share
  \/ \E n \in Nodes : DeleteNode(n) \/ Generate(n)
  \/ \E t \in Titles : EditTitle(t)
  \/ \E f \in [Nodes -> States], R \in SUBSET Nodes : StartPreview(f, R)
Saving == SaveDue \/ Send \/ Store \/ ShareAnswered \/ SaveAnswered \/ SaveFailed
Timers == Commit \/ RestoreDone
Network ==
  \/ Fetch \/ Restore
  \/ \E o \in orphans : OrphanStored(o) \/ OrphanLost(o)
  \/ \E n \in running, s \in {"done", "failed"} : Answer(n, s)
Next == User \/ Saving \/ Timers \/ Network

Spec == Init /\ [][Next]_vars

-----------------------------------------------------------------------------
(* Properties *)

(* Every register keeps its type, and a request is of the queue's head. *)
TypeOK ==
  /\ page \in {"away", "hydrating", "open"}
  /\ doc \in Documents /\ title \in Titles /\ last \in Documents
  /\ past \in Seq(Documents) /\ future \in Seq(Documents) /\ restores \in Seq(Documents)
  /\ commitTimer \in BOOLEAN /\ applying \in BOOLEAN
  /\ drag \in {"none", "pressed", "moved"}
  /\ preview \in Previews \cup {None}
  /\ queue \in Seq(Jobs) /\ saveTimer \in BOOLEAN
  /\ saveStatus \in {"idle", "saving", "saved", "error"}
  /\ request \in {"none", "sent", "stored"} /\ (request # "none" => queue # <<>>)
  /\ running \subseteq Nodes
  /\ server \in Saved /\ orphans \subseteq Saved /\ overtaken \in BOOLEAN
  /\ stamps \in 0..MaxStamp /\ acts \in 0..ActBound
  /\ deaf \in BOOLEAN /\ rewound \in BOOLEAN

(* docs/canvas-shortcuts.md: at most 50 steps are kept.  Only the commit cuts *)
(* the past; redo appends to it uncut, which is safe because undo and redo *)
(* move entries between two stacks that never hold more together.          *)
HistoryBounded == Len(past) + Len(future) <= HistoryLimit

(* What undo and redo walk along: the past, the document applyHistory put  *)
(* back last, the future.                                                  *)
Cursor == IF restores = <<>> THEN last ELSE Last(restores)
Timeline == past \o <<Cursor>> \o Reverse(future)
Steady == Len(restores) <= 1 /\ applying = (restores # <<>>)
(* Undo and redo only walk: no state of the canvas drops out of the history *)
(* or enters it but by a commit, which drops the future and the oldest     *)
(* entry beyond the limit.  Two of them before the first one's timeout has *)
(* run are left out: that loses an entry.                                  *)
Recorded == Timeline' = Recent(past) \o <<last, doc>>
TimelineKept ==
  [][page = "open" /\ page' = "open" /\ Steady /\ Steady'
       => Timeline' = Timeline \/ Recorded]_vars

(* "Saved" is shown only of what the server has.  Left out: changes no effect *)
(* has heard of (a drag that was not dropped, results during a drag or a   *)
(* preview), and a request of an earlier mount stored after this one's read. *)
SavedMeansSaved ==
  page = "open" /\ saveStatus = "saved" /\ ~deaf /\ ~overtaken
    => server = [doc |-> doc, title |-> title]

(* docs/pending-test.md:146: dragging, resizing and node changes are saved *)
(* 600 ms later.  When no timer, job, drag or preview is left, the server  *)
(* has what is shown, unless an error is.                                  *)
EverythingSaved ==
  page = "open" /\ ~saveTimer /\ queue = <<>> /\ drag = "none" /\ preview = None
  /\ saveStatus # "error" /\ ~overtaken
    => server = [doc |-> doc, title |-> title]

(* A node that shows a generation under way has one: after a reload, after *)
(* an error and after edits, until a snapshot or a preview takes the place *)
(* of the document.                                                        *)
NothingLoadsUnwatched ==
  page = "open" /\ ~rewound => \A n \in Nodes : doc.nodes[n] = "loading" => n \in running

(* docs/pending-test.md:146 and 204: while a preview is shown no autosave is *)
(* sent, and no answer to an earlier one is applied.                       *)
PreviewPausesSaving ==
  [][preview # None /\ preview' # None
       => /\ saveStatus' = saveStatus
          /\ request = "none" /\ request' = "sent" => Head(queue).kind = "share"]_vars

(* A preview that was not confirmed is nowhere but on the screen: not in   *)
(* the history, not in the queue, not on the server.                       *)
Kept == {doc, last, server.doc} \cup ToSet(past) \cup ToSet(future) \cup ToSet(restores)
        \cup {j.doc : j \in ToSet(queue)} \cup {o.doc : o \in orphans}
PreviewIsApart == preview # None => preview.doc \notin Kept

(* A result that arrived is lost only by the user's own deletion, undo, redo *)
(* or confirmation: edits, saves and other answers that ran in between have *)
(* read a document without it.  Left out: a result that redo brought back  *)
(* while the node was drawn again.                                         *)
ResultsSurvive ==
  [][\A n \in Nodes \ running :
       page = "open" /\ doc.nodes[n] = "done" /\ page' = "open"
       => \/ doc'.nodes[n] = "done"
          \/ Len(restores') > Len(restores) \/ (preview # None /\ preview' = None)
          \/ doc' = Stamped(Set(n, "gone"), 1)]_vars
=============================================================================
