------------------------- MODULE CanvasEditorProofs -------------------------
(***************************************************************************)
(* Theorems of CanvasEditor for every set of nodes and titles, every       *)
(* HistoryLimit and every bound.                                           *)
(***************************************************************************)
EXTENDS CanvasEditor, SequenceTheorems, TLAPS

Statuses == {"idle", "saving", "saved", "error"}

-----------------------------------------------------------------------------
(* Types *)

(* A new document of known nodes is a document. *)
LEMMA StampedType ==
  ASSUME NEW f \in [Nodes -> States], NEW k \in Nat, stamps \in Nat, stamps + k <= MaxStamp
  PROVE  Stamped(f, k) \in Documents
BY BoundAssumption DEF Stamped, Documents

LEMMA SetType ==
  ASSUME doc \in Documents, NEW n \in Nodes, NEW s \in States
  PROVE  Set(n, s) \in [Nodes -> States] /\ doc.nodes \in [Nodes -> States]
BY DEF Set, Documents

(* What stays of a queue is a queue. *)
LEMMA UnsentType ==
  ASSUME NEW q \in Seq(Jobs)
  PROVE  Unsent(q) \in Seq(Jobs)
<1>1. CASE \E i \in DOMAIN q : q[i].kind = "share"
  <2> DEFINE j == CHOOSE i \in DOMAIN q : q[i].kind = "share"
  <2>1. j \in DOMAIN q
    BY <1>1
  <2>2. q[j] \in Jobs
    BY <2>1
  <2>3. <<q[j]>> \in Seq(Jobs)
    BY <2>2
  <2> QED BY <1>1, <2>3 DEF Unsent
<1>2. CASE ~\E i \in DOMAIN q : q[i].kind = "share"
  BY <1>2 DEF Unsent
<1> QED BY <1>1, <1>2

(* The cleanup of an autosave leaves a queue, with the job of the request   *)
(* under way at its head.                                                  *)
LEMMA CancelType ==
  ASSUME TypeOK
  PROVE  /\ Cancel(queue) \in Seq(Jobs)
         /\ request # "none" => Cancel(queue) # <<>>
<1>1. CASE request = "none"
  BY <1>1, UnsentType DEF Cancel, TypeOK
<1>2. CASE request # "none"
  <2>1. queue \in Seq(Jobs) /\ queue # <<>>
    BY <1>2 DEF TypeOK
  <2>2. Head(queue) \in Jobs /\ Tail(queue) \in Seq(Jobs)
    BY <2>1
  <2> DEFINE h == [Head(queue) EXCEPT !.live = (@ /\ Head(queue).kind = "share")]
  <2>3. Head(queue).live \in BOOLEAN
    BY <2>2 DEF Jobs
  <2>4. (Head(queue).live /\ Head(queue).kind = "share") \in BOOLEAN
    OBVIOUS
  <2>5. h \in Jobs
    BY <2>2, <2>4 DEF Jobs
  <2>6. <<h>> \in Seq(Jobs) /\ Len(<<h>>) = 1
    BY <2>5
  <2>7. Unsent(Tail(queue)) \in Seq(Jobs)
    BY <2>2, UnsentType
  <2>8. /\ <<h>> \o Unsent(Tail(queue)) \in Seq(Jobs)
        /\ Len(<<h>> \o Unsent(Tail(queue))) >= 1
    BY <2>6, <2>7
  <2>9. <<h>> \o Unsent(Tail(queue)) # <<>>
    BY <2>8
  <2> QED BY <1>2, <2>8, <2>9 DEF Cancel
<1> QED BY <1>1, <1>2

(* The registers of the save effect. *)
SavingTyped ==
  /\ queue \in Seq(Jobs) /\ saveTimer \in BOOLEAN /\ deaf \in BOOLEAN
  /\ saveStatus \in Statuses

LEMMA SaveEffectTypes ==
  ASSUME TypeOK, NEW g, NEW p, SaveEffect(g, p)
  PROVE  SavingTyped' /\ (request # "none" => queue' # <<>>)
BY CancelType DEF SaveEffect, SavingTyped, Statuses, TypeOK, Paused

LEMMA RenderTypes ==
  ASSUME TypeOK, NEW d \in Documents, NEW g, NEW p, Render(d, g, p)
  PROVE  /\ doc' \in Documents /\ commitTimer' \in BOOLEAN
         /\ SavingTyped' /\ (request # "none" => queue' # <<>>)
<1>1. SaveEffect(g, p)
  BY DEF Render
<1>2. SavingTyped' /\ (request # "none" => queue' # <<>>)
  BY <1>1, SaveEffectTypes
<1> QED BY <1>2 DEF Render, HistoryEffect

(* Without its first or last entry a sequence is one. *)
LEMMA ShorterTypes ==
  ASSUME NEW T, NEW s \in Seq(T), s # <<>>
  PROVE  /\ Front(s) \in Seq(T) /\ Len(Front(s)) = Len(s) - 1
         /\ Tail(s) \in Seq(T) /\ Len(Tail(s)) = Len(s) - 1
         /\ Last(s) \in T /\ Head(s) \in T
<1>1. Len(s) \in Nat \ {0}
  BY EmptySeq
<1>2. Front(s) \in Seq(T) /\ Len(Front(s)) = Len(s) - 1
  <2>1. PICK n \in Nat : n = Len(s) - 1
    BY <1>1
  <2>2. \A i \in 1..n : s[i] \in T
    BY <1>1, <2>1, ElementOfSeq
  <2>3. SubSeq(s, 1, n) \in Seq(T)
    BY <2>1, <2>2, SMT
  <2>4. Len(SubSeq(s, 1, n)) = n
    BY <2>1, <2>2, SMT
  <2> QED BY <2>1, <2>3, <2>4, Zenon DEF Front
<1>3. Last(s) \in T
  BY <1>1, ElementOfSeq DEF Last
<1> QED BY <1>2, <1>3, HeadTailProperties

LEMMA RecentType ==
  ASSUME NEW s \in Seq(Documents)
  PROVE  /\ Recent(s) \in Seq(Documents)
         /\ Len(s) <= HistoryLimit => Len(Recent(s)) < HistoryLimit
         /\ Len(Recent(s)) <= Len(s)
<1>1. CASE Len(s) >= HistoryLimit
  <2>1. s # <<>>
    BY <1>1, LimitAssumption
  <2> QED BY <1>1, <2>1, ShorterTypes, LimitAssumption DEF Recent
<1>2. CASE ~(Len(s) >= HistoryLimit)
  BY <1>2, LimitAssumption DEF Recent
<1> QED BY <1>1, <1>2

(* What a mount leaves under way are snapshots of the document. *)
LEMMA UnderwayType ==
  ASSUME TypeOK
  PROVE  Underway \subseteq Saved
<1> SUFFICES ASSUME NEW o \in Underway
             PROVE  o \in Saved
  OBVIOUS
<1>1. PICK i \in DOMAIN queue :
        o = [doc |-> IF i = 1 /\ request = "sent" THEN queue[i].doc ELSE doc,
             title |-> queue[i].title]
  BY DEF Underway
<1>2. queue[i] \in Jobs
  BY <1>1 DEF TypeOK
<1> QED BY <1>1, <1>2 DEF Jobs, Saved, TypeOK

(* The registers a render sets. *)
RenderTyped ==
  /\ doc \in Documents /\ commitTimer \in BOOLEAN
  /\ SavingTyped /\ (request # "none" => queue # <<>>)

(* Edits, answers and drags: a new document is shown, the rest is kept. *)
LEMMA DocumentSteps ==
  ASSUME TypeOK,
         \/ Edit
         \/ \E n \in Nodes : DeleteNode(n) \/ Generate(n)
         \/ \E n \in running, s \in {"done", "failed"} : Answer(n, s)
         \/ \E far \in BOOLEAN : MoveNode(far)
         \/ DropNode
  PROVE  TypeOK'
<1> USE BoundAssumption
<1>0. stamps \in Nat
  BY DEF TypeOK
<1>1. CASE Edit
  <2>1. Stamped(Current, 1) \in Documents
    BY <1>1, <1>0, StampedType DEF Edit, Stamps, Current, TypeOK, Documents
  <2>2. RenderTyped'
    BY <1>1, <2>1, RenderTypes DEF Edit, RenderTyped
  <2> QED BY <1>1, <2>2
          DEF Edit, Stamps, TypeOK, RenderTyped, SavingTyped, Statuses,
              serverVars
<1>2. CASE \E n \in Nodes : DeleteNode(n)
  <2>1. PICK n \in Nodes : DeleteNode(n)
    BY <1>2
  <2>2. Stamped(Set(n, "gone"), 1) \in Documents
    BY <2>1, <1>0, StampedType, SetType DEF DeleteNode, Stamps, TypeOK, States
  <2>3. RenderTyped'
    BY <2>1, <2>2, RenderTypes DEF DeleteNode, RenderTyped
  <2> QED BY <2>1, <2>3
          DEF DeleteNode, Stamps, TypeOK, RenderTyped, SavingTyped, Statuses,
              serverVars
<1>3. CASE \E n \in Nodes : Generate(n)
  <2>1. PICK n \in Nodes : Generate(n)
    BY <1>3
  <2>2. Stamped(Set(n, "loading"), 1) \in Documents
    BY <2>1, <1>0, StampedType, SetType DEF Generate, Stamps, TypeOK, States
  <2>3. RenderTyped'
    BY <2>1, <2>2, RenderTypes DEF Generate, RenderTyped
  <2> QED BY <2>1, <2>3
          DEF Generate, Stamps, TypeOK, RenderTyped, SavingTyped, Statuses,
              serverVars
<1>4. CASE \E n \in running, s \in {"done", "failed"} : Answer(n, s)
  <2>1. PICK n \in running, s \in {"done", "failed"} : Answer(n, s)
    BY <1>4
  <2>2. n \in Nodes /\ s \in States
    BY DEF TypeOK, States
  <2>3. Answered(n, s) \in [Nodes -> States]
    BY <2>2, SetType DEF Answered, TypeOK
  <2>4. Stamped(Answered(n, s), 1) \in Documents
    BY <2>1, <2>3, <1>0, StampedType DEF Answer, Stamps, TypeOK
  <2>5. RenderTyped'
    BY <2>1, <2>4, RenderTypes DEF Answer, RenderTyped
  <2> QED BY <2>1, <2>5
          DEF Answer, Stamps, TypeOK, RenderTyped, SavingTyped, Statuses,
              serverVars
<1>5. CASE \E far \in BOOLEAN : MoveNode(far)
  <2>1. PICK far \in BOOLEAN : MoveNode(far)
    BY <1>5
  <2>2. Stamped(doc.nodes, 1) \in Documents
    BY <2>1, <1>0, StampedType DEF MoveNode, Stamps, TypeOK, Documents
  <2>3. RenderTyped'
    BY <2>1, <2>2, RenderTypes DEF MoveNode, RenderTyped
  <2> QED BY <2>1, <2>3
          DEF MoveNode, Stamps, TypeOK, RenderTyped, SavingTyped, Statuses,
              serverVars
<1>6. CASE DropNode
  <2>1. Stamped(doc.nodes, 1) \in Documents
    BY <1>6, <1>0, StampedType DEF DropNode, Stamps, TypeOK, Documents
  <2>2. RenderTyped'
    BY <1>6, <2>1, RenderTypes DEF DropNode, RenderTyped
  <2> QED BY <1>6, <2>2
          DEF DropNode, Stamps, TypeOK, RenderTyped, SavingTyped, Statuses,
              serverVars
<1> QED BY <1>1, <1>2, <1>3, <1>4, <1>5, <1>6

(* The history of a mount, and what else its steps set. *)
HistoryTyped ==
  /\ past \in Seq(Documents) /\ future \in Seq(Documents) /\ restores \in Seq(Documents)
  /\ last \in Documents /\ commitTimer \in BOOLEAN /\ applying \in BOOLEAN
ShownTyped ==
  /\ doc \in Documents /\ acts \in 0..ActBound /\ rewound \in BOOLEAN
  /\ SavingTyped /\ (request # "none" => queue # <<>>)

(* The other registers do not take part in undo and redo. *)
LEMMA HistoryParts ==
  ASSUME TypeOK, HistoryTyped', ShownTyped',
         UNCHANGED <<page, title, drag, preview, request, running, serverVars, stamps>>
  PROVE  TypeOK'
BY DEF TypeOK, HistoryTyped, ShownTyped, SavingTyped, Statuses, serverVars

(* The document put back is shown and remembered for the timeout. *)
LEMMA ApplyTypes ==
  ASSUME TypeOK, NEW d \in Documents, ApplyHistory(d), Acts, UNCHANGED request
  PROVE  /\ ShownTyped'
         /\ restores' \in Seq(Documents) /\ commitTimer' \in BOOLEAN /\ applying' \in BOOLEAN
<1>1. SavingTyped' /\ (request # "none" => queue' # <<>>)
  BY SaveEffectTypes DEF ApplyHistory, SavingTyped, Statuses, TypeOK
<1>2. restores' \in Seq(Documents)
  BY AppendProperties DEF ApplyHistory, TypeOK
<1>3. doc' \in Documents /\ acts' \in 0..ActBound /\ rewound' \in BOOLEAN
  BY BoundAssumption DEF ApplyHistory, Acts, TypeOK
<1> QED BY <1>1, <1>2, <1>3 DEF ApplyHistory, ShownTyped

(* The history: a commit, undo, redo and the end of their timeout. *)
LEMMA HistorySteps ==
  ASSUME TypeOK, Commit \/ Undo \/ Redo \/ RestoreDone
  PROVE  TypeOK'
<1>1. CASE Commit
  <2>1. past' \in Seq(Documents)
    BY <1>1, RecentType, AppendProperties DEF Commit, TypeOK
  <2>2. future' \in Seq(Documents)
    BY <1>1 DEF Commit
  <2>3. HistoryTyped'
    BY <1>1, <2>1, <2>2 DEF Commit, HistoryTyped, TypeOK
  <2>4. ShownTyped'
    BY <1>1 DEF Commit, ShownTyped, SavingTyped, Statuses, TypeOK, saveVars, countVars
  <2> QED BY <1>1, <2>3, <2>4, HistoryParts DEF Commit, saveVars, countVars
<1>2. CASE Undo
  <2>1. Front(past) \in Seq(Documents) /\ Last(past) \in Documents
    BY <1>2, ShorterTypes DEF Undo, TypeOK
  <2>2. past' \in Seq(Documents) /\ future' \in Seq(Documents)
    BY <1>2, <2>1, AppendProperties DEF Undo, PutAside, TypeOK
  <2>3. HistoryTyped' /\ ShownTyped'
    BY <1>2, <2>1, <2>2, ApplyTypes DEF Undo, HistoryTyped, TypeOK
  <2> QED BY <1>2, <2>3, HistoryParts DEF Undo
<1>3. CASE Redo
  <2>1. Front(future) \in Seq(Documents) /\ Last(future) \in Documents
    BY <1>3, ShorterTypes DEF Redo, TypeOK
  <2>2. past' \in Seq(Documents) /\ future' \in Seq(Documents)
    BY <1>3, <2>1, AppendProperties DEF Redo, PutAside, TypeOK
  <2>3. HistoryTyped' /\ ShownTyped'
    BY <1>3, <2>1, <2>2, ApplyTypes DEF Redo, HistoryTyped, TypeOK
  <2> QED BY <1>3, <2>3, HistoryParts DEF Redo
<1>4. CASE RestoreDone
  <2>1. Tail(restores) \in Seq(Documents) /\ Head(restores) \in Documents
    BY <1>4, ShorterTypes DEF RestoreDone, TypeOK
  <2>2. HistoryTyped'
    BY <1>4, <2>1 DEF RestoreDone, HistoryTyped, TypeOK
  <2>3. ShownTyped'
    BY <1>4 DEF RestoreDone, ShownTyped, SavingTyped, Statuses, TypeOK, saveVars, countVars
  <2> QED BY <1>4, <2>2, <2>3, HistoryParts DEF RestoreDone, saveVars, countVars
<1> QED BY <1>1, <1>2, <1>3, <1>4

(* Coming, going, titles and the pointer. *)
LEMMA PageSteps ==
  ASSUME TypeOK,
         \/ Fetch \/ Restore \/ Leave \/ PressNode \/ ReleaseNode
         \/ \E o \in orphans : OrphanStored(o) \/ OrphanLost(o)
         \/ \E t \in Titles : EditTitle(t)
  PROVE  TypeOK'
<1> USE BoundAssumption
<1>1. CASE Fetch
  <2>1. server.doc \in Documents /\ server.title \in Titles
    BY DEF TypeOK, Saved
  <2>2. doc' \in Documents /\ title' \in Titles /\ page' = "hydrating" /\ overtaken' = FALSE
    BY <1>1, <2>1 DEF Fetch
  <2>3. UNCHANGED <<historyVars, drag, preview, saveVars, running, server, orphans, countVars,
                    deaf, rewound>>
    BY <1>1 DEF Fetch
  <2>4. UNCHANGED <<past, future, last, commitTimer, applying, restores, drag, preview, saveTimer,
                    queue, request, saveStatus, running, server, orphans, stamps, acts, deaf,
                    rewound>>
    BY <2>3 DEF historyVars, saveVars, countVars
  <2>5. HistoryTyped' /\ ShownTyped'
    BY <2>2, <2>4 DEF HistoryTyped, ShownTyped, SavingTyped, Statuses, TypeOK
  <2>6. /\ page' \in {"away", "hydrating", "open"} /\ overtaken' \in BOOLEAN
        /\ drag' \in {"none", "pressed", "moved"} /\ preview' \in Previews \cup {None}
        /\ request' \in {"none", "sent", "stored"} /\ running' \subseteq Nodes
    BY <2>2, <2>4 DEF TypeOK
  <2>7. server' \in Saved /\ orphans' \subseteq Saved /\ stamps' \in 0..MaxStamp
    BY <2>4 DEF TypeOK
  <2> QED BY <2>2, <2>5, <2>6, <2>7 DEF TypeOK, HistoryTyped, ShownTyped, SavingTyped, Statuses
<1>2. CASE Restore
  <2> DEFINE f == Interrupted(doc.nodes)
             d == IF f = doc.nodes THEN doc ELSE Stamped(f, 1)
  <2>1. f \in [Nodes -> States]
    BY DEF Interrupted, TypeOK, Documents, States
  <2>2. Stamps(IF f = doc.nodes THEN 0 ELSE 1) /\ doc' = d /\ last' = d
    BY <1>2 DEF Restore
  <2>3. d \in Documents
    BY <2>1, <2>2, StampedType DEF Stamps, TypeOK
  <2>4. SavingTyped' /\ (request # "none" => queue' # <<>>)
    BY <1>2, SaveEffectTypes DEF Restore
  <2>5. stamps' \in 0..MaxStamp
    BY <2>2 DEF Stamps, TypeOK
  <2>6. commitTimer' \in BOOLEAN
    BY <1>2 DEF Restore, HistoryEffect
  <2>7. HistoryTyped'
    BY <1>2, <2>2, <2>3, <2>6 DEF Restore, HistoryTyped, TypeOK
  <2> QED BY <1>2, <2>2, <2>3, <2>4, <2>5, <2>7
          DEF Restore, TypeOK, HistoryTyped, SavingTyped, Statuses, serverVars
<1>3. CASE Leave
  <2>1. orphans' \subseteq Saved
    BY <1>3, UnderwayType DEF Leave, TypeOK
  <2>2. request' = "none" /\ acts' \in 0..ActBound
    BY <1>3 DEF Leave, Dropped, Acts, TypeOK
  <2>3. HistoryTyped'
    <3>1. <<>> \in Seq(Documents)
      OBVIOUS
    <3> QED BY <1>3, <3>1, Zenon DEF Leave, HistoryTyped, TypeOK
  <2>4. SavingTyped'
    <3>1. <<>> \in Seq(Jobs)
      OBVIOUS
    <3> QED BY <1>3, <3>1, Zenon DEF Leave, SavingTyped, Statuses
  <2> QED BY <1>3, <2>1, <2>2, <2>3, <2>4 DEF Leave, TypeOK, HistoryTyped, SavingTyped, Statuses
<1>4. CASE PressNode
  BY <1>4 DEF PressNode, Acts, TypeOK, historyVars, saveVars, serverVars
<1>5. CASE ReleaseNode
  BY <1>5 DEF ReleaseNode, TypeOK, historyVars, saveVars, serverVars, countVars
<1>6. CASE \E o \in orphans : OrphanStored(o) \/ OrphanLost(o)
  <2>1. PICK o \in orphans : OrphanStored(o) \/ OrphanLost(o)
    BY <1>6
  <2>2. o \in Saved
    BY DEF TypeOK
  <2>3. server' \in Saved /\ orphans' \subseteq Saved /\ overtaken' \in BOOLEAN
    BY <2>1, <2>2 DEF OrphanStored, OrphanLost, TypeOK
  <2> QED BY <2>1, <2>3
          DEF OrphanStored, OrphanLost, TypeOK, historyVars, saveVars, countVars
<1>7. CASE \E t \in Titles : EditTitle(t)
  <2>1. PICK t \in Titles : EditTitle(t)
    BY <1>7
  <2>2. SavingTyped' /\ (request # "none" => queue' # <<>>)
    BY <2>1, SaveEffectTypes DEF EditTitle
  <2>3. acts' \in 0..ActBound
    BY <2>1 DEF EditTitle, Acts, TypeOK
  <2> QED BY <2>1, <2>2, <2>3
          DEF EditTitle, TypeOK, SavingTyped, Statuses, historyVars, serverVars
<1> QED BY <1>1, <1>2, <1>3, <1>4, <1>5, <1>6, <1>7

(* The preview. *)
LEMMA PreviewSteps ==
  ASSUME TypeOK,
         \/ \E f \in [Nodes -> States], R \in SUBSET Nodes : StartPreview(f, R)
         \/ CancelPreview \/ ConfirmPreview
  PROVE  TypeOK'
<1> USE BoundAssumption
<1>0. stamps \in Nat
  BY DEF TypeOK
<1>1. CASE \E f \in [Nodes -> States], R \in SUBSET Nodes : StartPreview(f, R)
  <2>1. PICK f \in [Nodes -> States], R \in SUBSET Nodes : StartPreview(f, R)
    BY <1>1
  <2>2. SavingTyped' /\ (request # "none" => queue' # <<>>)
    BY <2>1, SaveEffectTypes DEF StartPreview
  <2>3. Stamped(f, 1) \in Documents
    BY <1>0, <2>1, StampedType DEF StartPreview, Stamps
  <2>4. preview' \in Previews
    BY <2>1, <2>3 DEF StartPreview, Previews, TypeOK
  <2>5. acts' \in 0..ActBound /\ stamps' \in 0..MaxStamp /\ commitTimer' \in BOOLEAN
    BY <2>1 DEF StartPreview, Acts, Stamps, HistoryEffect, TypeOK
  <2> QED BY <2>1, <2>2, <2>4, <2>5
          DEF StartPreview, TypeOK, SavingTyped, Statuses, serverVars
<1>2. CASE CancelPreview
  <2>1. SavingTyped' /\ (request # "none" => queue' # <<>>)
    BY <1>2, SaveEffectTypes DEF CancelPreview
  <2> QED BY <1>2, <2>1
          DEF CancelPreview, HistoryEffect, TypeOK, SavingTyped, Statuses, serverVars, countVars
<1>3. CASE ConfirmPreview
  <2> DEFINE R == {n \in preview.runs \ running : preview.doc.nodes[n] # "gone"}
             f == [n \in Nodes |-> IF n \in R THEN "loading" ELSE preview.doc.nodes[n]]
             d == IF R = {} THEN preview.doc ELSE Stamped(f, 1)
  <2>1. /\ Stamps(IF R = {} THEN 0 ELSE 1) /\ running' = running \cup R
        /\ Render(d, drag, None)
    BY <1>3 DEF ConfirmPreview
  <2>2. preview \in Previews
    BY <1>3 DEF ConfirmPreview, TypeOK
  <2>3. preview.doc \in Documents /\ R \subseteq Nodes
    BY <2>2 DEF Previews
  <2>4. f \in [Nodes -> States]
    BY <2>3 DEF Documents, States
  <2>5. d \in Documents
    BY <1>0, <2>1, <2>3, <2>4, StampedType DEF Stamps
  <2>6. RenderTyped'
    <3> HIDE DEF d
    <3> QED BY <1>3, <2>1, <2>5, RenderTypes DEF ConfirmPreview, RenderTyped
  <2>7. stamps' \in 0..MaxStamp /\ running' \subseteq Nodes
    BY <2>1, <2>3 DEF Stamps, TypeOK
  <2> QED BY <1>3, <2>6, <2>7
          DEF ConfirmPreview, TypeOK, RenderTyped, SavingTyped, Statuses, serverVars
<1> QED BY <1>1, <1>2, <1>3

(* The queue's steps change the queue, what became of its head's request,   *)
(* the status, the row and the title.                                      *)
QueueTyped ==
  /\ SavingTyped /\ title \in Titles /\ server \in Saved
  /\ request \in {"none", "sent", "stored"} /\ (request # "none" => queue # <<>>)
LEMMA QueueParts ==
  ASSUME TypeOK, QueueTyped', \/ UNCHANGED acts
                              \/ acts' \in 0..ActBound,
         UNCHANGED <<page, doc, historyVars, drag, preview, running, orphans, overtaken,
                     stamps, rewound>>
  PROVE  TypeOK'
BY DEF TypeOK, QueueTyped, SavingTyped, Statuses, historyVars

(* The head of a queue is a job, the rest a queue. *)
LEMMA HeadJob ==
  ASSUME TypeOK, queue # <<>>
  PROVE  /\ Head(queue) \in Jobs /\ Tail(queue) \in Seq(Jobs)
         /\ Head(queue).doc \in Documents /\ Head(queue).title \in Titles
<1>1. Head(queue) \in Jobs /\ Tail(queue) \in Seq(Jobs)
  BY HeadTailProperties DEF TypeOK
<1> QED BY <1>1 DEF Jobs

(* A job put at the end of the queue, or its head's document read anew. *)
LEMMA QueuedType ==
  ASSUME TypeOK, NEW k \in {"auto", "share"}
  PROVE  /\ Append(queue, [kind |-> k, doc |-> doc, title |-> title, live |-> TRUE]) \in Seq(Jobs)
         /\ Append(queue, [kind |-> k, doc |-> doc, title |-> title, live |-> TRUE]) # <<>>
<1> DEFINE j == [kind |-> k, doc |-> doc, title |-> title, live |-> TRUE]
<1>1. j \in Jobs
  BY DEF Jobs, TypeOK
<1> HIDE DEF j
<1>2. Append(queue, j) \in Seq(Jobs) /\ Len(Append(queue, j)) = Len(queue) + 1
  BY <1>1, AppendProperties DEF TypeOK
<1>3. Len(queue) \in Nat
  BY DEF TypeOK
<1>4. Append(queue, j) # <<>>
  BY <1>2, <1>3
<1> QED BY <1>2, <1>4 DEF j

LEMMA SentType ==
  ASSUME TypeOK, queue # <<>>
  PROVE  /\ [queue EXCEPT ![1].doc = Shown] \in Seq(Jobs)
         /\ [queue EXCEPT ![1].doc = Shown] # <<>>
<1> DEFINE q == [queue EXCEPT ![1].doc = Shown]
<1>1. queue \in [1..Len(queue) -> Jobs] /\ Len(queue) \in Nat \ {0}
  BY EmptySeq, LenProperties DEF TypeOK
<1>2. q \in [1..Len(queue) -> Jobs]
  BY <1>1 DEF Shown, Jobs, TypeOK
<1>3. q \in Seq(Jobs) /\ Len(q) = Len(queue)
  BY <1>1, <1>2, SMT
<1> QED BY <1>1, <1>3

LEMMA SavingSteps ==
  ASSUME TypeOK, SaveDue \/ Share \/ Saving
  PROVE  TypeOK'
<1>1. CASE SaveDue
  <2>1. queue' \in Seq(Jobs) /\ queue' # <<>>
    BY <1>1, QueuedType DEF SaveDue
  <2>2. QueueTyped'
    BY <1>1, <2>1 DEF SaveDue, QueueTyped, SavingTyped, Statuses, TypeOK, serverVars
  <2> QED BY <1>1, <2>2, QueueParts DEF SaveDue, serverVars, countVars
<1>2. CASE Share
  <2>1. queue' \in Seq(Jobs) /\ queue' # <<>>
    BY <1>2, QueuedType DEF Share
  <2>2. QueueTyped'
    BY <1>2, <2>1 DEF Share, QueueTyped, SavingTyped, Statuses, TypeOK, serverVars
  <2>3. acts' \in 0..ActBound
    BY <1>2, BoundAssumption DEF Share, Acts, TypeOK
  <2> QED BY <1>2, <2>2, <2>3, QueueParts DEF Share, serverVars
<1>3. CASE Send
  <2>1. queue' \in Seq(Jobs) /\ queue' # <<>>
    BY <1>3, SentType DEF Send, TypeOK
  <2>2. QueueTyped'
    BY <1>3, <2>1 DEF Send, QueueTyped, SavingTyped, Statuses, TypeOK, serverVars
  <2> QED BY <1>3, <2>2, QueueParts DEF Send, serverVars, countVars
<1>4. CASE Store
  <2>1. queue # <<>>
    BY <1>4 DEF Store, TypeOK
  <2>2. server' \in Saved
    BY <1>4, <2>1, HeadJob DEF Store, Saved
  <2>3. QueueTyped'
    BY <1>4, <2>1, <2>2 DEF Store, QueueTyped, SavingTyped, Statuses, TypeOK
  <2> QED BY <1>4, <2>3, QueueParts DEF Store, countVars
<1>5. CASE ShareAnswered
  <2>1. queue # <<>>
    BY <1>5 DEF ShareAnswered, TypeOK
  <2>2. Tail(queue) \in Seq(Jobs) /\ Unsent(Tail(queue)) \in Seq(Jobs)
    BY <2>1, HeadJob, UnsentType
  <2>3. queue' \in Seq(Jobs)
    BY <1>5, <2>2 DEF ShareAnswered
  <2>4. title' \in Titles /\ saveTimer' \in BOOLEAN /\ deaf' \in BOOLEAN
    BY <1>5, <2>1, HeadJob DEF ShareAnswered, Paused, TypeOK
  <2>5. saveStatus' \in Statuses
    BY <1>5 DEF ShareAnswered, Statuses, TypeOK
  <2>6. QueueTyped'
    BY <1>5, <2>3, <2>4, <2>5 DEF ShareAnswered, QueueTyped, SavingTyped, TypeOK, serverVars
  <2> QED BY <1>5, <2>6, QueueParts DEF ShareAnswered, serverVars, countVars
<1>6. CASE SaveAnswered \/ SaveFailed
  <2>1. queue # <<>>
    BY <1>6 DEF SaveAnswered, SaveFailed, TypeOK
  <2>2. queue' \in Seq(Jobs) /\ request' = "none"
    BY <1>6, <2>1, HeadJob DEF SaveAnswered, SaveFailed
  <2>3. saveStatus' \in Statuses
    BY <1>6 DEF SaveAnswered, SaveFailed, Statuses, TypeOK
  <2>4. QueueTyped'
    BY <1>6, <2>2, <2>3
       DEF SaveAnswered, SaveFailed, QueueTyped, SavingTyped, TypeOK, serverVars
  <2> QED BY <1>6, <2>2, <2>4, QueueParts DEF SaveAnswered, SaveFailed, serverVars, countVars
<1> QED BY <1>1, <1>2, <1>3, <1>4, <1>5, <1>6 DEF Saving

(* Every register of the editor keeps its type, and a request under way is  *)
(* that of the head of the queue: leaving, cancelled saves and late answers *)
(* included.                                                               *)
THEOREM TypeCorrect == Spec => []TypeOK
<1>1. Init => TypeOK
  <2> SUFFICES ASSUME Init
               PROVE  TypeOK
    OBVIOUS
  <2>1. server \in Saved
    BY BoundAssumption DEF Init, Saved, Documents, States
  <2>2. doc \in Documents /\ title \in Titles
    BY <2>1 DEF Init, Saved
  <2>3. <<>> \in Seq(Documents) /\ <<>> \in Seq(Jobs)
    OBVIOUS
  <2>4. HistoryTyped
    BY <2>2, <2>3, Zenon DEF Init, HistoryTyped
  <2>5. SavingTyped
    BY <2>3, Zenon DEF Init, SavingTyped, Statuses
  <2>6. stamps \in 0..MaxStamp /\ acts \in 0..ActBound
    BY BoundAssumption DEF Init
  <2> QED BY <2>1, <2>2, <2>4, <2>5, <2>6, Zenon DEF Init, TypeOK, HistoryTyped, SavingTyped, Statuses
<1>2. TypeOK /\ [Next]_vars => TypeOK'
  <2> SUFFICES ASSUME TypeOK, [Next]_vars
               PROVE  TypeOK'
    OBVIOUS
  <2>1. CASE User
    BY <2>1, DocumentSteps, HistorySteps, PageSteps, PreviewSteps, SavingSteps DEF User
  <2>2. CASE Saving \/ Timers
    BY <2>2, SavingSteps, HistorySteps DEF Timers
  <2>3. CASE Network
    BY <2>3, DocumentSteps, PageSteps DEF Network
  <2>4. CASE UNCHANGED vars
    BY <2>4 DEF vars, TypeOK, historyVars, saveVars, serverVars, countVars
  <2> QED BY <2>1, <2>2, <2>3, <2>4 DEF Next
<1> QED BY <1>1, <1>2, PTL DEF Spec

-----------------------------------------------------------------------------
(* The history *)

(* Only these steps touch the two stacks. *)
LEMMA StacksKept ==
  ASSUME [Next]_vars
  PROVE  \/ Commit \/ Undo \/ Redo
         \/ past' = <<>> /\ future' = <<>>
         \/ UNCHANGED <<past, future>>
<1>1. CASE User
  BY <1>1 DEF User, MoveNode, Leave, Edit, PressNode, DropNode, ReleaseNode, CancelPreview,
     ConfirmPreview, Share, DeleteNode, Generate, EditTitle, StartPreview, historyVars
<1>2. CASE Saving
  BY <1>2 DEF Saving, SaveDue, Send, Store, ShareAnswered, SaveAnswered, SaveFailed, historyVars
<1>3. CASE Timers
  BY <1>3 DEF Timers, RestoreDone
<1>4. CASE Network
  BY <1>4 DEF Network, Fetch, Restore, OrphanStored, OrphanLost, Answer, historyVars
<1>5. CASE UNCHANGED vars
  BY <1>5 DEF vars, historyVars
<1> QED BY <1>1, <1>2, <1>3, <1>4, <1>5 DEF Next

(* docs/canvas-shortcuts.md: no more than the limit is ever kept, although  *)
(* redo appends to the past without a look at it.  It cannot pass the limit *)
(* because undo and redo move entries from one stack to the other and a    *)
(* commit, which cuts the past first, empties the future.                  *)
THEOREM HistoryStaysBounded == Spec => []HistoryBounded
<1>1. Init => HistoryBounded
  BY LimitAssumption DEF Init, HistoryBounded
<1>2. TypeOK /\ HistoryBounded /\ [Next]_vars => HistoryBounded'
  <2> SUFFICES ASSUME TypeOK, HistoryBounded, [Next]_vars
               PROVE  HistoryBounded'
    OBVIOUS
  <2>1. /\ past \in Seq(Documents) /\ future \in Seq(Documents) /\ last \in Documents
        /\ Len(past) \in Nat /\ Len(future) \in Nat
    BY DEF TypeOK
  <2>2. CASE Commit
    <3>1. Recent(past) \in Seq(Documents) /\ Len(Recent(past)) < HistoryLimit
      BY <2>1, RecentType, LimitAssumption DEF HistoryBounded
    <3>2. Len(past') = Len(Recent(past)) + 1
      BY <2>1, <2>2, <3>1, AppendProperties DEF Commit
    <3>3. Len(future') = 0
      BY <2>2 DEF Commit
    <3>4. Len(Recent(past)) \in Nat
      BY <3>1
    <3> QED BY <3>1, <3>2, <3>3, <3>4, LimitAssumption DEF HistoryBounded
  <2>3. CASE Undo
    <3>1. Len(past') = Len(past) - 1
      BY <2>1, <2>3, ShorterTypes DEF Undo
    <3>2. Len(future') = Len(future) + 1
      BY <2>1, <2>3, AppendProperties DEF Undo, PutAside
    <3> QED BY <2>1, <3>1, <3>2, LimitAssumption DEF HistoryBounded
  <2>4. CASE Redo
    <3>1. Len(future') = Len(future) - 1
      BY <2>1, <2>4, ShorterTypes DEF Redo
    <3>2. Len(past') = Len(past) + 1
      BY <2>1, <2>4, AppendProperties DEF Redo, PutAside
    <3> QED BY <2>1, <3>1, <3>2, LimitAssumption DEF HistoryBounded
  <2>5. CASE past' = <<>> /\ future' = <<>>
    BY <2>5, LimitAssumption DEF HistoryBounded
  <2>6. CASE UNCHANGED <<past, future>>
    BY <2>6 DEF HistoryBounded
  <2> QED BY <2>2, <2>3, <2>4, <2>5, <2>6, StacksKept
<1> QED BY <1>1, <1>2, TypeCorrect, PTL DEF Spec

-----------------------------------------------------------------------------
(* The preview *)

(* What sequences hold. *)
LEMMA AppendHolds ==
  ASSUME NEW T, NEW s \in Seq(T), NEW e \in T
  PROVE  ToSet(Append(s, e)) = ToSet(s) \cup {e}
BY AppendProperties DEF ToSet

LEMMA ShorterHolds ==
  ASSUME NEW T, NEW s \in Seq(T), s # <<>>
  PROVE  /\ ToSet(Tail(s)) \subseteq ToSet(s) /\ ToSet(Front(s)) \subseteq ToSet(s)
         /\ Head(s) \in ToSet(s) /\ Last(s) \in ToSet(s)
<1>1. Len(s) \in Nat \ {0} /\ DOMAIN s = 1..Len(s)
  BY EmptySeq
<1>2. Head(s) \in ToSet(s) /\ Last(s) \in ToSet(s)
  BY <1>1 DEF ToSet, Last
<1>3. ToSet(Tail(s)) \subseteq ToSet(s)
  BY <1>1, HeadTailProperties DEF ToSet
<1>4. ToSet(Front(s)) \subseteq ToSet(s)
  <2>1. Front(s) \in Seq(T) /\ Len(Front(s)) = Len(s) - 1
    BY ShorterTypes
  <2>2. \A i \in 1..(Len(s) - 1) : Front(s)[i] = s[i]
    BY <1>1 DEF Front
  <2> QED BY <1>1, <2>1, <2>2 DEF ToSet
<1> QED BY <1>2, <1>3, <1>4

(* The documents of a queue. *)
Queued(q) == {j.doc : j \in ToSet(q)}

LEMMA UnsentHolds ==
  ASSUME NEW q \in Seq(Jobs)
  PROVE  Queued(Unsent(q)) \subseteq Queued(q)
<1>1. CASE \E i \in DOMAIN q : q[i].kind = "share"
  <2> DEFINE k == CHOOSE i \in DOMAIN q : q[i].kind = "share"
  <2>1. k \in DOMAIN q
    BY <1>1
  <2>2. Unsent(q) = <<q[k]>>
    BY <1>1 DEF Unsent
  <2> HIDE DEF k
  <2>3. ToSet(Unsent(q)) = {q[k]}
    BY <2>2 DEF ToSet
  <2> QED BY <2>1, <2>3 DEF Queued, ToSet
<1>2. CASE ~\E i \in DOMAIN q : q[i].kind = "share"
  BY <1>2 DEF Unsent, Queued, ToSet
<1> QED BY <1>1, <1>2

LEMMA CancelHolds ==
  ASSUME TypeOK
  PROVE  Queued(Cancel(queue)) \subseteq Queued(queue)
<1>1. CASE request = "none"
  BY <1>1, UnsentHolds DEF Cancel, TypeOK
<1>2. CASE request # "none"
  <2>1. queue \in Seq(Jobs) /\ queue # <<>>
    BY <1>2 DEF TypeOK
  <2> DEFINE h == [Head(queue) EXCEPT !.live = (@ /\ Head(queue).kind = "share")]
             r == Unsent(Tail(queue))
  <2>2. Head(queue) \in Jobs /\ Tail(queue) \in Seq(Jobs)
    BY <2>1
  <2>3. h.doc = Head(queue).doc
    BY <2>2 DEF Jobs
  <2>4. r \in Seq(Jobs) /\ Queued(r) \subseteq Queued(queue)
    <3>1. r \in Seq(Jobs) /\ Queued(r) \subseteq Queued(Tail(queue))
      BY <2>2, UnsentType, UnsentHolds
    <3>2. Queued(Tail(queue)) \subseteq Queued(queue)
      BY <2>1, ShorterHolds DEF Queued
    <3> QED BY <3>1, <3>2
  <2>5. Head(queue).doc \in Queued(queue)
    BY <2>1, ShorterHolds DEF Queued
  <2>6. Cancel(queue) = <<h>> \o r
    BY <1>2 DEF Cancel
  <2> HIDE DEF h, r
  <2>7. ToSet(<<h>> \o r) \subseteq {h} \cup ToSet(r)
    BY <2>4 DEF ToSet
  <2> QED BY <2>3, <2>4, <2>5, <2>6, <2>7 DEF Queued
<1> QED BY <1>1, <1>2

(* A document kept is none made later, nor the one of the preview. *)
Apart ==
  /\ \A d \in Kept : d.stamp <= stamps
  /\ preview # None => preview.doc.stamp <= stamps /\ preview.doc \notin Kept

LEMMA KeptType ==
  ASSUME TypeOK
  PROVE  Kept \subseteq Documents
<1>1. ASSUME NEW T, NEW s \in Seq(T)
      PROVE  ToSet(s) \subseteq T
  BY <1>1 DEF ToSet
<1>2. /\ ToSet(past) \subseteq Documents /\ ToSet(future) \subseteq Documents
      /\ ToSet(restores) \subseteq Documents /\ ToSet(queue) \subseteq Jobs
  BY <1>1 DEF TypeOK
<1>3. {doc, last, server.doc} \subseteq Documents
  BY DEF TypeOK, Saved
<1>4. {j.doc : j \in ToSet(queue)} \subseteq Documents
  BY <1>2 DEF Jobs
<1>5. {o.doc : o \in orphans} \subseteq Documents
  BY DEF TypeOK, Saved
<1> QED BY <1>2, <1>3, <1>4, <1>5 DEF Kept

(* Steps that keep what was kept, and a new document at most. *)
LEMMA ApartStays ==
  ASSUME TypeOK, Apart, NEW d, Kept' \subseteq Kept \cup {d},
         \/ d \in Kept /\ stamps' = stamps
         \/ d.stamp = stamps + 1 /\ stamps' = stamps + 1,
         preview' = preview \/ preview' = None
  PROVE  Apart'
<1>1. stamps \in Nat /\ \A e \in Kept : e.stamp <= stamps
  BY DEF TypeOK, Apart
<1>2. stamps \in Int /\ stamps' \in Int /\ stamps <= stamps'
  BY <1>1
<1>3. \A e \in Kept : e.stamp \in Int
  <2>1. \A e \in Documents : e.stamp \in Int
    BY BoundAssumption DEF Documents
  <2>2. Kept \subseteq Documents
    BY KeptType
  <2> QED BY <2>1, <2>2
<1>4. \A e \in Kept' : e.stamp <= stamps'
  BY <1>1, <1>2, <1>3
<1>5. ASSUME preview' # None
      PROVE  preview'.doc.stamp <= stamps' /\ preview'.doc \notin Kept'
  <2>1. preview' = preview /\ preview # None
    BY <1>5
  <2>2. preview.doc.stamp <= stamps /\ preview.doc \notin Kept
    BY <2>1 DEF Apart
  <2>3. preview.doc.stamp \in Int
    BY <2>1, BoundAssumption DEF TypeOK, Previews, Documents
  <2>4. preview.doc # d
    BY <1>2, <2>2, <2>3
  <2> QED BY <1>2, <2>1, <2>2, <2>3, <2>4
<1> QED BY <1>4, <1>5 DEF Apart

(* The save effect puts no document into the queue. *)
LEMMA EffectHolds ==
  ASSUME TypeOK, NEW g, NEW p, SaveEffect(g, p)
  PROVE  Queued(queue') \subseteq Queued(queue)
BY CancelHolds DEF SaveEffect

(* What a render keeps: the new document takes the place of the one shown. *)
LEMMA RenderKeeps ==
  ASSUME TypeOK, NEW d, NEW g, NEW p, Render(d, g, p),
         UNCHANGED <<past, future, last, restores, server, orphans>>
  PROVE  Kept' \subseteq Kept \cup {d}
<1>1. Queued(queue') \subseteq Queued(queue)
  BY EffectHolds DEF Render
<1> QED BY <1>1 DEF Render, Kept, Queued

LEMMA DocumentsApart ==
  ASSUME TypeOK, Apart,
         \/ Edit
         \/ \E n \in Nodes : DeleteNode(n) \/ Generate(n)
         \/ \E n \in running, s \in {"done", "failed"} : Answer(n, s)
         \/ \E far \in BOOLEAN : MoveNode(far)
         \/ DropNode
  PROVE  Apart'
<1>1. PICK d, g, p :
        /\ Render(d, g, p) /\ d.stamp = stamps + 1 /\ stamps' = stamps + 1
        /\ UNCHANGED <<past, future, last, restores, server, orphans, preview>>
  BY DEF Edit, DeleteNode, Generate, Answer, MoveNode, DropNode, Stamps, Stamped, serverVars
<1>2. Kept' \subseteq Kept \cup {d}
  BY <1>1, RenderKeeps
<1> QED BY <1>1, <1>2, ApartStays

LEMMA HistoryApart ==
  ASSUME TypeOK, Apart, Commit \/ Undo \/ Redo \/ RestoreDone
  PROVE  Apart'
<1>1. doc \in Kept /\ last \in Kept
  BY DEF Kept
<1>2. CASE Commit
  <2>1. ToSet(Recent(past)) \subseteq ToSet(past) /\ Recent(past) \in Seq(Documents)
    BY RecentType, ShorterHolds, LimitAssumption DEF Recent, TypeOK
  <2>2. ToSet(past') \subseteq ToSet(past) \cup {last}
    BY <1>2, <2>1, AppendHolds DEF Commit, TypeOK
  <2>3. ToSet(future') = {}
    BY <1>2 DEF Commit, ToSet
  <2>4. Kept' \subseteq Kept \cup {doc}
    BY <1>2, <2>2, <2>3 DEF Commit, Kept, saveVars, serverVars
  <2> QED BY <1>1, <1>2, <2>4, ApartStays DEF Commit, countVars
<1>3. ASSUME NEW d \in Documents, ApplyHistory(d)
      PROVE  ToSet(restores') = ToSet(restores) \cup {d} /\ Queued(queue') \subseteq Queued(queue)
  BY <1>3, AppendHolds, EffectHolds DEF ApplyHistory, TypeOK
<1>4. CASE Undo
  <2>1. /\ past \in Seq(Documents) /\ past # <<>> /\ Last(past) \in Documents
        /\ ApplyHistory(Last(past))
    BY <1>4, ShorterTypes DEF Undo, TypeOK
  <2>2. ToSet(past') \subseteq ToSet(past) /\ Last(past) \in ToSet(past)
    BY <1>4, <2>1, ShorterHolds DEF Undo
  <2>3. ToSet(future') = ToSet(future) \cup {last}
    BY <1>4, AppendHolds DEF Undo, PutAside, TypeOK
  <2>4. doc' = Last(past) /\ UNCHANGED <<last, server, orphans>>
    BY <1>4, <2>1 DEF Undo, ApplyHistory, serverVars
  <2>5. Kept' \subseteq Kept \cup {doc}
    BY <1>3, <2>1, <2>2, <2>3, <2>4 DEF Kept, Queued
  <2> QED BY <1>1, <1>4, <2>5, ApartStays DEF Undo
<1>5. CASE Redo
  <2>1. /\ future \in Seq(Documents) /\ future # <<>> /\ Last(future) \in Documents
        /\ ApplyHistory(Last(future))
    BY <1>5, ShorterTypes DEF Redo, TypeOK
  <2>2. ToSet(future') \subseteq ToSet(future) /\ Last(future) \in ToSet(future)
    BY <1>5, <2>1, ShorterHolds DEF Redo
  <2>3. ToSet(past') = ToSet(past) \cup {last}
    BY <1>5, AppendHolds DEF Redo, PutAside, TypeOK
  <2>4. doc' = Last(future) /\ UNCHANGED <<last, server, orphans>>
    BY <1>5, <2>1 DEF Redo, ApplyHistory, serverVars
  <2>5. Kept' \subseteq Kept \cup {doc}
    BY <1>3, <2>1, <2>2, <2>3, <2>4 DEF Kept, Queued
  <2> QED BY <1>1, <1>5, <2>5, ApartStays DEF Redo
<1>6. CASE RestoreDone
  <2>1. restores \in Seq(Documents) /\ restores # <<>>
    BY <1>6 DEF RestoreDone, TypeOK
  <2>2. ToSet(restores') \subseteq ToSet(restores) /\ last' \in ToSet(restores)
    BY <1>6, <2>1, ShorterHolds DEF RestoreDone
  <2>3. Kept' \subseteq Kept \cup {doc}
    BY <1>6, <2>2 DEF RestoreDone, Kept, saveVars, serverVars
  <2> QED BY <1>1, <1>6, <2>3, ApartStays DEF RestoreDone, countVars
<1> QED BY <1>2, <1>4, <1>5, <1>6

(* What a mount leaves under way was kept before. *)
LEMMA UnderwayHolds ==
  ASSUME TypeOK
  PROVE  {o.doc : o \in Underway} \subseteq {doc} \cup Queued(queue)
<1> SUFFICES ASSUME NEW o \in Underway
             PROVE  o.doc \in {doc} \cup Queued(queue)
  OBVIOUS
<1>1. PICK i \in DOMAIN queue :
        o = [doc |-> IF i = 1 /\ request = "sent" THEN queue[i].doc ELSE doc,
             title |-> queue[i].title]
  BY DEF Underway
<1>2. queue[i].doc \in Queued(queue)
  BY DEF Queued, ToSet
<1> QED BY <1>1, <1>2

LEMMA PageApart ==
  ASSUME TypeOK, Apart,
         \/ Fetch \/ Restore \/ Leave \/ PressNode \/ ReleaseNode
         \/ \E o \in orphans : OrphanStored(o) \/ OrphanLost(o)
         \/ \E t \in Titles : EditTitle(t)
  PROVE  Apart'
<1>1. doc \in Kept /\ server.doc \in Kept
  BY DEF Kept
<1>2. CASE Fetch
  <2>1. Kept' \subseteq Kept \cup {doc}
    BY <1>2 DEF Fetch, Kept, historyVars, saveVars
  <2> QED BY <1>1, <1>2, <2>1, ApartStays DEF Fetch, countVars
<1>3. CASE Restore
  <2> DEFINE f == Interrupted(doc.nodes)
             d == IF f = doc.nodes THEN doc ELSE Stamped(f, 1)
  <2>1. /\ Stamps(IF f = doc.nodes THEN 0 ELSE 1) /\ doc' = d /\ last' = d
        /\ past' = <<>> /\ future' = <<>> /\ SaveEffect("none", None)
        /\ UNCHANGED <<restores, server, orphans, preview>>
    BY <1>3 DEF Restore, serverVars
  <2>2. Queued(queue') \subseteq Queued(queue)
    BY <2>1, EffectHolds
  <2>3. ToSet(past') = {} /\ ToSet(future') = {}
    BY <2>1 DEF ToSet
  <2>4. Kept' \subseteq Kept \cup {d}
    BY <2>1, <2>2, <2>3 DEF Kept, Queued
  <2>5. \/ d \in Kept /\ stamps' = stamps
        \/ d.stamp = stamps + 1 /\ stamps' = stamps + 1
    BY <1>1, <2>1 DEF Stamps, Stamped, TypeOK
  <2> HIDE DEF d
  <2> QED BY <2>1, <2>4, <2>5, ApartStays
<1>4. CASE Leave
  <2>1. {o.doc : o \in orphans'} \subseteq {o.doc : o \in orphans} \cup {doc} \cup Queued(queue)
    BY <1>4, UnderwayHolds DEF Leave
  <2>2. ToSet(past') = {} /\ ToSet(future') = {} /\ ToSet(restores') = {} /\ Queued(queue') = {}
    BY <1>4 DEF Leave, ToSet, Queued
  <2>3. Kept' \subseteq Kept \cup {doc}
    BY <1>4, <2>1, <2>2 DEF Leave, Kept, Queued
  <2> QED BY <1>1, <1>4, <2>3, ApartStays DEF Leave
<1>5. CASE PressNode \/ ReleaseNode
  <2>1. Kept' \subseteq Kept \cup {doc}
    BY <1>5 DEF PressNode, ReleaseNode, Kept, historyVars, saveVars, serverVars
  <2> QED BY <1>1, <1>5, <2>1, ApartStays DEF PressNode, ReleaseNode, countVars
<1>6. CASE \E o \in orphans : OrphanStored(o) \/ OrphanLost(o)
  <2>1. Kept' \subseteq Kept \cup {doc}
    BY <1>6 DEF OrphanStored, OrphanLost, Kept, historyVars, saveVars
  <2> QED BY <1>1, <1>6, <2>1, ApartStays DEF OrphanStored, OrphanLost, countVars
<1>7. CASE \E t \in Titles : EditTitle(t)
  <2>1. Queued(queue') \subseteq Queued(queue)
    BY <1>7, EffectHolds DEF EditTitle
  <2>2. Kept' \subseteq Kept \cup {doc}
    BY <1>7, <2>1 DEF EditTitle, Kept, Queued, historyVars, serverVars
  <2> QED BY <1>1, <1>7, <2>2, ApartStays DEF EditTitle
<1> QED BY <1>2, <1>3, <1>4, <1>5, <1>6, <1>7

LEMMA PreviewApart ==
  ASSUME TypeOK, Apart,
         \/ \E f \in [Nodes -> States], R \in SUBSET Nodes : StartPreview(f, R)
         \/ CancelPreview \/ ConfirmPreview
  PROVE  Apart'
<1>1. doc \in Kept
  BY DEF Kept
<1>2. CASE \E f \in [Nodes -> States], R \in SUBSET Nodes : StartPreview(f, R)
  <2>1. PICK f \in [Nodes -> States], R \in SUBSET Nodes : StartPreview(f, R)
    BY <1>2
  <2>2. Queued(queue') \subseteq Queued(queue)
    BY <2>1, EffectHolds DEF StartPreview
  <2>3. Kept' \subseteq Kept
    BY <2>1, <2>2 DEF StartPreview, Kept, Queued, serverVars
  <2>4. stamps \in Nat /\ stamps' = stamps + 1 /\ preview'.doc.stamp = stamps + 1
    BY <2>1 DEF StartPreview, Stamps, Stamped, TypeOK
  <2>5. \A d \in Kept : d.stamp <= stamps /\ d.stamp \in Nat
    BY KeptType, BoundAssumption DEF Apart, Documents
  <2>6. \A d \in Kept' : d.stamp <= stamps' /\ d # preview'.doc
    BY <2>3, <2>4, <2>5
  <2> QED BY <2>4, <2>6 DEF Apart
<1>3. CASE CancelPreview
  <2>1. Queued(queue') \subseteq Queued(queue)
    BY <1>3, EffectHolds DEF CancelPreview
  <2>2. Kept' \subseteq Kept \cup {doc}
    BY <1>3, <2>1 DEF CancelPreview, Kept, Queued, serverVars
  <2> QED BY <1>1, <1>3, <2>2, ApartStays DEF CancelPreview, countVars
<1>4. CASE ConfirmPreview
  <2> DEFINE R == {n \in preview.runs \ running : preview.doc.nodes[n] # "gone"}
             f == [n \in Nodes |-> IF n \in R THEN "loading" ELSE preview.doc.nodes[n]]
             d == IF R = {} THEN preview.doc ELSE Stamped(f, 1)
  <2>1. Stamps(IF R = {} THEN 0 ELSE 1) /\ Render(d, drag, None) /\ preview # None
    BY <1>4 DEF ConfirmPreview
  <2>2. preview' = None /\ UNCHANGED <<past, future, last, restores, server, orphans>>
    BY <1>4 DEF ConfirmPreview, serverVars
  <2>3. d.stamp <= stamps' /\ stamps \in Nat /\ stamps <= stamps' /\ stamps' \in Nat
    <3>1. preview.doc.stamp <= stamps /\ preview.doc.stamp \in Nat
      BY <2>1, BoundAssumption DEF Apart, TypeOK, Previews, Documents
    <3> QED BY <2>1, <3>1 DEF Stamps, Stamped, TypeOK
  <2> HIDE DEF d
  <2>4. Kept' \subseteq Kept \cup {d}
    BY <2>1, <2>2, RenderKeeps
  <2>5. \A e \in Kept : e.stamp <= stamps /\ e.stamp \in Nat
    BY KeptType, BoundAssumption DEF Apart, Documents
  <2> QED BY <2>2, <2>3, <2>4, <2>5 DEF Apart
<1> QED BY <1>2, <1>3, <1>4

LEMMA SavingApart ==
  ASSUME TypeOK, Apart, SaveDue \/ Share \/ Saving
  PROVE  Apart'
<1>1. doc \in Kept
  BY DEF Kept
<1>2. ASSUME NEW k \in {"auto", "share"}
      PROVE  Queued(Append(queue, [kind |-> k, doc |-> doc, title |-> title, live |-> TRUE]))
               = Queued(queue) \cup {doc}
  <2> DEFINE j == [kind |-> k, doc |-> doc, title |-> title, live |-> TRUE]
  <2>1. j \in Jobs /\ j.doc = doc
    BY DEF Jobs, TypeOK
  <2> HIDE DEF j
  <2>2. ToSet(Append(queue, j)) = ToSet(queue) \cup {j}
    BY <2>1, AppendHolds DEF TypeOK
  <2>3. Queued(Append(queue, j)) = Queued(queue) \cup {doc}
    BY <2>1, <2>2 DEF Queued
  <2> QED BY <2>3 DEF j
<1>3. CASE SaveDue \/ Share
  <2>1. Queued(queue') \subseteq Queued(queue) \cup {doc}
    BY <1>2, <1>3 DEF SaveDue, Share
  <2>2. Kept' \subseteq Kept \cup {doc}
    BY <1>3, <2>1 DEF SaveDue, Share, Kept, Queued, historyVars, serverVars
  <2> QED BY <1>1, <1>3, <2>2, ApartStays DEF SaveDue, Share, countVars
<1>4. CASE Send
  <2>1. queue \in Seq(Jobs) /\ Len(queue) \in Nat /\ DOMAIN queue = 1..Len(queue)
    BY DEF TypeOK
  <2>2. \A i \in DOMAIN queue : queue[i] \in Jobs
    BY <2>1
  <2>3. Queued([queue EXCEPT ![1].doc = doc]) \subseteq Queued(queue) \cup {doc}
    BY <2>1, <2>2 DEF Queued, ToSet, Jobs
  <2>4. Queued(queue') \subseteq Queued(queue) \cup {doc}
    BY <1>4, <2>3 DEF Send, Shown
  <2>5. Kept' \subseteq Kept \cup {doc}
    BY <1>4, <2>4 DEF Send, Kept, Queued, historyVars, serverVars
  <2> QED BY <1>1, <1>4, <2>5, ApartStays DEF Send, countVars
<1>5. CASE Store
  <2>1. queue \in Seq(Jobs) /\ queue # <<>>
    BY <1>5 DEF Store, TypeOK
  <2>2. server'.doc \in Queued(queue)
    BY <1>5, <2>1, ShorterHolds DEF Store, Queued
  <2>3. Kept' \subseteq Kept \cup {doc}
    BY <1>5, <2>2 DEF Store, Kept, Queued, historyVars
  <2> QED BY <1>1, <1>5, <2>3, ApartStays DEF Store, countVars
<1>6. CASE ShareAnswered \/ SaveAnswered \/ SaveFailed
  <2>1. queue \in Seq(Jobs) /\ queue # <<>>
    BY <1>6 DEF ShareAnswered, SaveAnswered, SaveFailed, TypeOK
  <2>2. Tail(queue) \in Seq(Jobs) /\ Queued(Tail(queue)) \subseteq Queued(queue)
    BY <2>1, ShorterTypes, ShorterHolds DEF Queued
  <2>3. Queued(Unsent(Tail(queue))) \subseteq Queued(queue)
    BY <2>2, UnsentHolds
  <2>4. queue' = Tail(queue) \/ queue' = Unsent(Tail(queue))
    BY <1>6 DEF ShareAnswered, SaveAnswered, SaveFailed
  <2>5. Queued(queue') \subseteq Queued(queue)
    BY <2>2, <2>3, <2>4
  <2>6. Kept' \subseteq Kept \cup {doc}
    BY <1>6, <2>5
       DEF ShareAnswered, SaveAnswered, SaveFailed, Kept, Queued, historyVars, serverVars
  <2> QED BY <1>1, <1>6, <2>6, ApartStays DEF ShareAnswered, SaveAnswered, SaveFailed, countVars
<1> QED BY <1>3, <1>4, <1>5, <1>6 DEF Saving

(* docs/pending-test.md:146: what a preview shows is not saved.  However it *)
(* is interleaved with answers of generations, undo, shares and requests of *)
(* earlier mounts, a preview not confirmed is in no history, no job and no *)
(* row.  The invariant adds what makes that stay so: documents made later  *)
(* are none made before.                                                   *)
THEOREM PreviewStaysApart == Spec => []PreviewIsApart
<1>1. Init => Apart
  <2> SUFFICES ASSUME Init
               PROVE  Apart
    OBVIOUS
  <2>1. Kept = {server.doc}
    BY DEF Init, Kept, ToSet
  <2> QED BY <2>1 DEF Init, Apart
<1>2. TypeOK /\ Apart /\ [Next]_vars => Apart'
  <2> SUFFICES ASSUME TypeOK, Apart, [Next]_vars
               PROVE  Apart'
    OBVIOUS
  <2>1. CASE User
    BY <2>1, DocumentsApart, HistoryApart, PageApart, PreviewApart, SavingApart DEF User
  <2>2. CASE Saving \/ Timers
    BY <2>2, SavingApart, HistoryApart DEF Timers
  <2>3. CASE Network
    BY <2>3, DocumentsApart, PageApart DEF Network
  <2>4. CASE UNCHANGED vars
    BY <2>4 DEF vars, Apart, Kept, historyVars, saveVars, serverVars, countVars
  <2> QED BY <2>1, <2>2, <2>3, <2>4 DEF Next
<1>3. Apart => PreviewIsApart
  BY DEF Apart, PreviewIsApart
<1> QED BY <1>1, <1>2, <1>3, TypeCorrect, PTL DEF Spec

-----------------------------------------------------------------------------
(* Generations *)

(* A node that shows a generation under way has one, for as long as only    *)
(* edits, answers and new generations changed the document, over any number *)
(* of mounts.                                                              *)
THEOREM NothingLoadsForGood == Spec => []NothingLoadsUnwatched
<1>1. Init => NothingLoadsUnwatched
  BY DEF Init, NothingLoadsUnwatched
<1>2. TypeOK /\ NothingLoadsUnwatched /\ [Next]_vars => NothingLoadsUnwatched'
  <2> SUFFICES ASSUME TypeOK, NothingLoadsUnwatched, [Next]_vars, page' = "open", ~rewound',
                      NEW m \in Nodes, doc'.nodes[m] = "loading"
               PROVE  m \in running'
    BY DEF NothingLoadsUnwatched
  <2>1. doc.nodes \in [Nodes -> States]
    BY DEF TypeOK, Documents
  <2>2. CASE Restore
    <3>1. doc'.nodes = Interrupted(doc.nodes)
      BY <2>2 DEF Restore, Stamped
    <3>2. Interrupted(doc.nodes)[m] # "loading"
      BY DEF Interrupted
    <3> QED BY <3>1, <3>2
  <2>3. CASE \E n \in Nodes : Generate(n) \/ DeleteNode(n)
    BY <2>1, <2>3 DEF Generate, DeleteNode, Render, Stamped, Set, NothingLoadsUnwatched
  <2>4. CASE \E n \in running, s \in {"done", "failed"} : Answer(n, s)
    <3>1. PICK n \in running, s \in {"done", "failed"} : Answer(n, s)
      BY <2>4
    <3>2. /\ doc'.nodes = Answered(n, s) /\ running' = running \ {n}
          /\ page = "open" /\ ~rewound
      BY <3>1 DEF Answer, Render, Stamped
    <3>3. Answered(n, s)[n] # "loading" \/ n \notin Nodes
      BY <2>1 DEF Answered, Set
    <3>4. m # n
      BY <3>2, <3>3
    <3>5. Answered(n, s)[m] = doc.nodes[m]
      BY <2>1, <3>4 DEF Answered, Set
    <3> QED BY <3>2, <3>4, <3>5 DEF NothingLoadsUnwatched
  <2>5. CASE Edit \/ DropNode \/ \E far \in BOOLEAN : MoveNode(far)
    BY <2>5 DEF Edit, DropNode, MoveNode, Render, Stamped, Current, NothingLoadsUnwatched
  <2>6. CASE UNCHANGED <<page, doc, running, rewound>>
    BY <2>6 DEF NothingLoadsUnwatched
  <2>7. CASE Undo \/ Redo \/ ConfirmPreview \/ Leave \/ Fetch
    BY <2>7 DEF Undo, Redo, ApplyHistory, ConfirmPreview, Leave, Fetch
  <2>8. \/ Restore \/ Edit \/ DropNode \/ Undo \/ Redo \/ ConfirmPreview \/ Leave \/ Fetch
        \/ \E n \in Nodes : Generate(n) \/ DeleteNode(n)
        \/ \E n \in running, s \in {"done", "failed"} : Answer(n, s)
        \/ \E far \in BOOLEAN : MoveNode(far)
        \/ UNCHANGED <<page, doc, running, rewound>>
    <3>1. CASE User
      BY <3>1 DEF User, PressNode, ReleaseNode, CancelPreview, Share, EditTitle, StartPreview
    <3>2. CASE Saving
      BY <3>2 DEF Saving, SaveDue, Send, Store, ShareAnswered, SaveAnswered, SaveFailed
    <3>3. CASE Timers
      BY <3>3 DEF Timers, Commit, RestoreDone
    <3>4. CASE Network
      BY <3>4 DEF Network, OrphanStored, OrphanLost
    <3>5. CASE UNCHANGED vars
      BY <3>5 DEF vars
    <3> QED BY <3>1, <3>2, <3>3, <3>4, <3>5 DEF Next
  <2> QED BY <2>2, <2>3, <2>4, <2>5, <2>6, <2>7, <2>8
<1> QED BY <1>1, <1>2, TypeCorrect, PTL DEF Spec

-----------------------------------------------------------------------------
(* The walk of undo and redo *)

LEMMA ReverseShape ==
  ASSUME NEW T, NEW s \in Seq(T)
  PROVE  /\ Reverse(s) \in Seq(T) /\ Len(Reverse(s)) = Len(s)
         /\ \A i \in 1..Len(s) : Reverse(s)[i] = s[(Len(s) - i) + 1]
<1>1. Len(s) \in Nat
  BY LenProperties
<1>2. \A i \in 1..Len(s) : (Len(s) - i) + 1 \in 1..Len(s)
  BY <1>1
<1>3. \A i \in 1..Len(s) : s[(Len(s) - i) + 1] \in T
  BY <1>2, ElementOfSeq
<1>4. /\ DOMAIN Reverse(s) = 1..Len(s)
      /\ \A i \in 1..Len(s) : Reverse(s)[i] = s[(Len(s) - i) + 1]
      /\ Reverse(s) \in [1..Len(s) -> T]
  BY <1>3 DEF Reverse
<1>5. Reverse(s) \in Seq(T)
  BY <1>1, <1>4, SMT
<1> QED BY <1>1, <1>4, <1>5, LenProperties

(* What is put on top of the future comes first in the line. *)
LEMMA ReverseAppend ==
  ASSUME NEW T, NEW s \in Seq(T), NEW e \in T
  PROVE  Reverse(Append(s, e)) = <<e>> \o Reverse(s)
<1>1. Len(s) \in Nat /\ Append(s, e) \in Seq(T) /\ Len(Append(s, e)) = Len(s) + 1
  BY LenProperties, AppendProperties
<1>2. /\ Reverse(Append(s, e)) \in Seq(T) /\ Len(Reverse(Append(s, e))) = Len(s) + 1
      /\ \A i \in 1..(Len(s) + 1) :
           Reverse(Append(s, e))[i] = Append(s, e)[(Len(s) + 1 - i) + 1]
  <2> DEFINE t == Append(s, e)
  <2>1. t \in Seq(T) /\ Len(t) = Len(s) + 1
    BY <1>1
  <2> HIDE DEF t
  <2>2. /\ Reverse(t) \in Seq(T) /\ Len(Reverse(t)) = Len(t)
        /\ \A i \in 1..Len(t) : Reverse(t)[i] = t[(Len(t) - i) + 1]
    BY <2>1, ReverseShape
  <2>3. /\ Reverse(t) \in Seq(T) /\ Len(Reverse(t)) = Len(s) + 1
        /\ \A i \in 1..(Len(s) + 1) : Reverse(t)[i] = t[(Len(s) + 1 - i) + 1]
    BY <2>1, <2>2
  <2> QED BY <2>3 DEF t
<1>3. /\ Reverse(s) \in Seq(T) /\ Len(Reverse(s)) = Len(s)
      /\ \A i \in 1..Len(s) : Reverse(s)[i] = s[(Len(s) - i) + 1]
  BY ReverseShape
<1>4. <<e>> \in Seq(T) /\ Len(<<e>>) = 1 /\ <<e>>[1] = e
  OBVIOUS
<1>5. /\ <<e>> \o Reverse(s) \in Seq(T) /\ Len(<<e>> \o Reverse(s)) = Len(s) + 1
      /\ \A i \in 1..(Len(s) + 1) :
           (<<e>> \o Reverse(s))[i] = IF i <= 1 THEN <<e>>[i] ELSE Reverse(s)[i - 1]
  BY <1>1, <1>3, <1>4, ConcatProperties
<1>6. ASSUME NEW i \in 1..(Len(s) + 1)
      PROVE  Reverse(Append(s, e))[i] = (<<e>> \o Reverse(s))[i]
  <2>1. CASE i = 1
    BY <1>1, <1>2, <1>4, <1>5, <2>1, AppendProperties
  <2>2. CASE i # 1
    <3>1. /\ i - 1 \in 1..Len(s) /\ (Len(s) + 1 - i) + 1 \in 1..Len(s)
          /\ (Len(s) - (i - 1)) + 1 = (Len(s) + 1 - i) + 1 /\ ~(i <= 1)
      BY <1>1, <2>2
    <3>2. Reverse(Append(s, e))[i] = s[(Len(s) + 1 - i) + 1]
      BY <1>2, <3>1, AppendProperties
    <3> QED BY <1>3, <1>5, <3>1, <3>2
  <2> QED BY <2>1, <2>2
<1> QED BY <1>1, <1>2, <1>5, <1>6, SeqEqual

LEMMA FrontLast ==
  ASSUME NEW T, NEW s \in Seq(T), s # <<>>
  PROVE  /\ Front(s) \in Seq(T) /\ Last(s) \in T
         /\ Append(Front(s), Last(s)) = s
<1>1. /\ Front(s) \in Seq(T) /\ Len(Front(s)) = Len(s) - 1 /\ Last(s) \in T
      /\ Len(s) \in Nat /\ Len(s) # 0
  BY ShorterTypes, EmptySeq, LenProperties
<1>2. \A i \in 1..(Len(s) - 1) : Front(s)[i] = s[i]
  BY <1>1 DEF Front
<1>3. /\ Append(Front(s), Last(s)) \in Seq(T)
      /\ Len(Append(Front(s), Last(s))) = Len(s)
  BY <1>1, AppendProperties
<1>4. ASSUME NEW i \in 1..Len(s)
      PROVE  Append(Front(s), Last(s))[i] = s[i]
  <2>1. CASE i = Len(s)
    BY <1>1, <2>1, AppendProperties DEF Last
  <2>2. CASE i # Len(s)
    <3>1. i \in 1..(Len(s) - 1)
      BY <1>1, <2>2
    <3> QED BY <1>1, <1>2, <3>1, AppendProperties
  <2> QED BY <2>1, <2>2
<1> QED BY <1>1, <1>3, <1>4, SeqEqual

(* A step back and a step forward leave the line as it is. *)
LEMMA BackLine ==
  ASSUME NEW T, NEW p \in Seq(T), NEW f \in Seq(T), NEW c \in T, p # <<>>
  PROVE  (Front(p) \o <<Last(p)>>) \o Reverse(Append(f, c)) = (p \o <<c>>) \o Reverse(f)
<1>1. Front(p) \in Seq(T) /\ Last(p) \in T /\ Append(Front(p), Last(p)) = p
  BY FrontLast
<1>2. Front(p) \o <<Last(p)>> = p
  BY <1>1, AppendIsConcat
<1>3. Reverse(Append(f, c)) = <<c>> \o Reverse(f)
  BY ReverseAppend
<1>4. Reverse(f) \in Seq(T) /\ <<c>> \in Seq(T)
  BY ReverseShape
<1>5. (p \o <<c>>) \o Reverse(f) = p \o (<<c>> \o Reverse(f))
  BY <1>4, ConcatAssociative
<1> QED BY <1>2, <1>3, <1>5

LEMMA ForthLine ==
  ASSUME NEW T, NEW p \in Seq(T), NEW f \in Seq(T), NEW c \in T, f # <<>>
  PROVE  (Append(p, c) \o <<Last(f)>>) \o Reverse(Front(f)) = (p \o <<c>>) \o Reverse(f)
<1>1. Front(f) \in Seq(T) /\ Last(f) \in T /\ Append(Front(f), Last(f)) = f
  BY FrontLast
<1>2. Reverse(f) = <<Last(f)>> \o Reverse(Front(f))
  BY <1>1, ReverseAppend
<1>3. Append(p, c) = p \o <<c>> /\ Append(p, c) \in Seq(T)
  BY AppendIsConcat, AppendProperties
<1>4. Reverse(Front(f)) \in Seq(T) /\ <<Last(f)>> \in Seq(T)
  BY <1>1, ReverseShape
<1> QED BY <1>2, <1>3, <1>4, ConcatAssociative

LEMMA PairConcat ==
  ASSUME NEW T, NEW a \in T, NEW b \in T
  PROVE  <<a>> \o <<b>> = <<a, b>>
<1>1. /\ <<a>> \in Seq(T) /\ Len(<<a>>) = 1 /\ <<a>>[1] = a
      /\ <<b>> \in Seq(T) /\ Len(<<b>>) = 1 /\ <<b>>[1] = b
      /\ <<a, b>> \in Seq(T) /\ Len(<<a, b>>) = 2
      /\ <<a, b>>[1] = a /\ <<a, b>>[2] = b
  OBVIOUS
<1>2. /\ <<a>> \o <<b>> \in Seq(T) /\ Len(<<a>> \o <<b>>) = 2
      /\ \A i \in 1..2 : (<<a>> \o <<b>>)[i] = IF i <= 1 THEN <<a>>[i] ELSE <<b>>[i - 1]
  BY <1>1, ConcatProperties
<1>3. \A i \in 1..2 : (<<a>> \o <<b>>)[i] = <<a, b>>[i]
  BY <1>1, <1>2
<1> QED BY <1>1, <1>2, <1>3, SeqEqual

(* The commit timer does not run while a document is put back. *)
Quiet == commitTimer => ~applying

LEMMA QuietStep == Quiet /\ [Next]_vars => Quiet'
<1> SUFFICES ASSUME Quiet, [Next]_vars PROVE Quiet'
  OBVIOUS
<1>1. CASE User
  <2>1. CASE \/ Edit \/ DropNode \/ (\E far \in BOOLEAN : MoveNode(far))
             \/ (\E n \in Nodes : DeleteNode(n) \/ Generate(n))
    BY <2>1 DEF Edit, DropNode, MoveNode, DeleteNode, Generate, Render, HistoryEffect, Quiet
  <2>2. CASE ConfirmPreview
    BY <2>2 DEF ConfirmPreview, Render, HistoryEffect, Quiet
  <2>3. CASE CancelPreview
    BY <2>3 DEF CancelPreview, HistoryEffect, Quiet
  <2>4. CASE \E f \in [Nodes -> States], R \in SUBSET Nodes : StartPreview(f, R)
    <3>1. PICK f \in [Nodes -> States], R \in SUBSET Nodes : StartPreview(f, R)
      BY <2>4
    <3> QED BY <3>1 DEF StartPreview, HistoryEffect, Quiet
  <2>5. CASE Undo \/ Redo
    BY <2>5 DEF Undo, Redo, ApplyHistory, Quiet
  <2>6. CASE Leave
    BY <2>6 DEF Leave, Quiet
  <2>7. CASE PressNode \/ ReleaseNode \/ Share \/ \E t \in Titles : EditTitle(t)
    BY <2>7 DEF PressNode, ReleaseNode, Share, EditTitle, historyVars, Quiet
  <2> QED BY <1>1, <2>1, <2>2, <2>3, <2>4, <2>5, <2>6, <2>7 DEF User
<1>2. CASE Saving
  BY <1>2 DEF Saving, SaveDue, Send, Store, ShareAnswered, SaveAnswered, SaveFailed,
              historyVars, Quiet
<1>3. CASE Timers
  BY <1>3 DEF Timers, Commit, RestoreDone, Quiet
<1>4. CASE Network
  <2>1. CASE Restore
    BY <2>1 DEF Restore, HistoryEffect, Quiet
  <2>2. CASE \E n \in running, s \in {"done", "failed"} : Answer(n, s)
    <3>1. PICK n \in running, s \in {"done", "failed"} : Answer(n, s)
      BY <2>2
    <3> QED BY <3>1 DEF Answer, Render, HistoryEffect, Quiet
  <2>3. CASE Fetch \/ \E o \in orphans : OrphanStored(o) \/ OrphanLost(o)
    BY <2>3 DEF Fetch, OrphanStored, OrphanLost, historyVars, Quiet
  <2> QED BY <1>4, <2>1, <2>2, <2>3 DEF Network
<1>5. CASE UNCHANGED vars
  BY <1>5 DEF vars, historyVars, Quiet
<1> QED BY <1>1, <1>2, <1>3, <1>4, <1>5 DEF Next

(* Undo, redo and commit; the other steps leave the line alone. *)
LEMMA TimelineStep ==
  ASSUME TypeOK, Quiet, [Next]_vars, page = "open", page' = "open", Steady, Steady'
  PROVE  Timeline' = Timeline \/ Recorded
<1>1. /\ past \in Seq(Documents) /\ future \in Seq(Documents) /\ restores \in Seq(Documents)
      /\ last \in Documents /\ doc \in Documents /\ Len(restores) \in Nat
  BY LenProperties DEF TypeOK
<1>2. ASSUME NEW d, restores' = Append(restores, d), d \in Documents
      PROVE  /\ restores = <<>> /\ Cursor = last /\ Cursor' = d
  <2>1. Len(restores') = Len(restores) + 1
    BY <1>1, <1>2, AppendProperties
  <2>2. restores = <<>>
    BY <1>1, <2>1, EmptySeq DEF Steady
  <2>3. restores' = <<d>>
    BY <1>2, <2>2, AppendIsConcat, ConcatEmptySeq
  <2>4. restores' # <<>> /\ Last(restores') = d
    BY <2>3 DEF Last
  <2> QED BY <2>2, <2>4 DEF Cursor
<1>3. CASE Undo
  <2>1. /\ past # <<>> /\ past' = Front(past) /\ future' = Append(future, last)
        /\ restores' = Append(restores, Last(past))
    BY <1>3 DEF Undo, ApplyHistory, PutAside
  <2>2. Last(past) \in Documents
    BY <1>1, <2>1, FrontLast
  <2>3. Cursor = last /\ Cursor' = Last(past)
    BY <1>2, <2>1, <2>2
  <2>4. (Front(past) \o <<Last(past)>>) \o Reverse(Append(future, last))
          = (past \o <<last>>) \o Reverse(future)
    BY <1>1, <2>1, BackLine
  <2> QED BY <2>1, <2>3, <2>4 DEF Timeline
<1>4. CASE Redo
  <2>1. /\ future # <<>> /\ future' = Front(future) /\ past' = Append(past, last)
        /\ restores' = Append(restores, Last(future))
    BY <1>4 DEF Redo, ApplyHistory, PutAside
  <2>2. Last(future) \in Documents
    BY <1>1, <2>1, FrontLast
  <2>3. Cursor = last /\ Cursor' = Last(future)
    BY <1>2, <2>1, <2>2
  <2>4. (Append(past, last) \o <<Last(future)>>) \o Reverse(Front(future))
          = (past \o <<last>>) \o Reverse(future)
    BY <1>1, <2>1, ForthLine
  <2> QED BY <2>1, <2>3, <2>4 DEF Timeline
<1>5. CASE Commit
  <2>1. /\ past' = Append(Recent(past), last) /\ future' = <<>> /\ last' = doc
        /\ restores' = restores /\ restores = <<>>
    BY <1>5 DEF Commit, Quiet, Steady
  <2>2. Cursor' = doc
    BY <2>1 DEF Cursor
  <2>3. Reverse(<<>>) = <<>>
    <3>1. <<>> \in Seq(Documents) /\ Len(<<>>) = 0
      BY EmptySeq
    <3>2. Reverse(<<>>) \in Seq(Documents) /\ Len(Reverse(<<>>)) = 0
      BY <3>1, ReverseShape
    <3> QED BY <3>2, EmptySeq
  <2>4. /\ Recent(past) \in Seq(Documents) /\ <<last>> \in Seq(Documents)
        /\ <<doc>> \in Seq(Documents)
    BY <1>1, RecentType
  <2>5. Append(Recent(past), last) = Recent(past) \o <<last>>
    BY <1>1, <2>4, AppendIsConcat
  <2>6. (Recent(past) \o <<last>>) \o <<doc>> = Recent(past) \o (<<last>> \o <<doc>>)
    BY <2>4, ConcatAssociative
  <2>7. <<last>> \o <<doc>> = <<last, doc>>
    BY <1>1, PairConcat
  <2>8. Append(Recent(past), last) \o <<doc>> \in Seq(Documents)
    BY <1>1, <2>4, <2>5, ConcatProperties
  <2>9. (Append(Recent(past), last) \o <<doc>>) \o <<>> = Append(Recent(past), last) \o <<doc>>
    BY <2>8, ConcatEmptySeq
  <2>10. Timeline' = (Append(Recent(past), last) \o <<doc>>) \o <<>>
    BY <2>1, <2>2, <2>3 DEF Timeline
  <2> QED BY <2>5, <2>6, <2>7, <2>9, <2>10 DEF Recorded
<1>6. CASE RestoreDone
  <2>1. /\ restores # <<>> /\ restores' = Tail(restores) /\ last' = Head(restores)
        /\ UNCHANGED <<past, future>>
    BY <1>6 DEF RestoreDone
  <2>2. Len(restores) = 1
    <3> DEFINE k == Len(restores)
    <3>1. k # 0
      BY <1>1, <2>1, EmptySeq
    <3>2. k <= 1 /\ k \in Nat
      BY <1>1 DEF Steady
    <3> HIDE DEF k
    <3>3. k = 1
      BY <3>1, <3>2
    <3> QED BY <3>3 DEF k
  <2>3. Last(restores) = Head(restores) /\ Len(Tail(restores)) = 0
    BY <1>1, <2>1, <2>2, HeadTailProperties DEF Last
  <2>4. restores' = <<>>
    <3>1. Tail(restores) \in Seq(Documents)
      BY <1>1, <2>1, HeadTailProperties
    <3> QED BY <2>1, <2>3, <3>1, EmptySeq
  <2>5. Cursor' = Cursor
    BY <2>1, <2>3, <2>4 DEF Cursor
  <2> QED BY <2>1, <2>5 DEF Timeline
<1>7. CASE UNCHANGED <<past, future, last, restores>>
  BY <1>7 DEF Timeline, Cursor
<1>8. \/ Undo \/ Redo \/ Commit \/ RestoreDone \/ Leave \/ Restore
      \/ UNCHANGED <<past, future, last, restores>>
  <2>1. CASE User
    <3>1. CASE ConfirmPreview \/ CancelPreview
               \/ \E f \in [Nodes -> States], R \in SUBSET Nodes : StartPreview(f, R)
      BY <3>1 DEF ConfirmPreview, CancelPreview, StartPreview
    <3>2. CASE ~(ConfirmPreview \/ CancelPreview
                 \/ \E f \in [Nodes -> States], R \in SUBSET Nodes : StartPreview(f, R))
      BY <2>1, <3>2 DEF User, Edit, DropNode, MoveNode, DeleteNode, Generate, PressNode,
         ReleaseNode, Share, EditTitle, historyVars
    <3> QED BY <3>1, <3>2
  <2>2. CASE Saving
    BY <2>2 DEF Saving, SaveDue, Send, Store, ShareAnswered, SaveAnswered, SaveFailed, historyVars
  <2>3. CASE Timers
    BY <2>3 DEF Timers
  <2>4. CASE Network
    BY <2>4 DEF Network, Answer, Fetch, OrphanStored, OrphanLost, historyVars
  <2>5. CASE UNCHANGED vars
    BY <2>5 DEF vars, historyVars
  <2> QED BY <2>1, <2>2, <2>3, <2>4, <2>5 DEF Next
<1>9. ~Leave /\ ~Restore
  BY DEF Leave, Restore
<1> QED BY <1>3, <1>4, <1>5, <1>6, <1>7, <1>8, <1>9

(* undoCanvas and redoCanvas: nothing the canvas has shown drops out of the *)
(* history or enters it but by a commit, for any limit.                    *)
THEOREM TimelineIsKept == Spec => TimelineKept
<1>1. Init => Quiet
  BY DEF Init, Quiet
<1>2. ASSUME TypeOK, Quiet, [Next]_vars
      PROVE  [page = "open" /\ page' = "open" /\ Steady /\ Steady'
                => Timeline' = Timeline \/ Recorded]_vars
  BY <1>2, TimelineStep
<1> QED BY <1>1, <1>2, QuietStep, TypeCorrect, PTL DEF Spec, TimelineKept

(* setNodes(prev => ...) and nodesRef: edits, answers, drags and saves read  *)
(* the document of their time, and none of them undoes a result.           *)
THEOREM ResultsAreKept == Spec => ResultsSurvive
<1>1. ASSUME TypeOK, [Next]_vars
      PROVE  [\A n \in Nodes \ running :
                page = "open" /\ doc.nodes[n] = "done" /\ page' = "open"
                => \/ doc'.nodes[n] = "done"
                   \/ Len(restores') > Len(restores) \/ (preview # None /\ preview' = None)
                   \/ doc' = Stamped(Set(n, "gone"), 1)]_vars
  <2> SUFFICES ASSUME NEW n \in Nodes, n \notin running, page = "open", page' = "open",
                      doc.nodes[n] = "done"
               PROVE  \/ doc'.nodes[n] = "done"
                      \/ Len(restores') > Len(restores) \/ (preview # None /\ preview' = None)
                      \/ doc' = Stamped(Set(n, "gone"), 1)
    OBVIOUS
  <2>1. doc.nodes \in [Nodes -> States] /\ running \subseteq Nodes
    BY <1>1 DEF TypeOK, Documents
  <2>2. CASE Edit \/ DropNode \/ \E far \in BOOLEAN : MoveNode(far)
    BY <2>2 DEF Edit, DropNode, MoveNode, Render, Stamped, Current
  <2>3. CASE \E m \in Nodes : DeleteNode(m)
    <3>1. PICK m \in Nodes : DeleteNode(m)
      BY <2>3
    <3>2. doc' = Stamped(Set(m, "gone"), 1)
      BY <3>1 DEF DeleteNode, Render
    <3> QED BY <2>1, <3>2 DEF Stamped, Set
  <2>4. CASE \E m \in Nodes : Generate(m)
    <3>1. PICK m \in Nodes : Generate(m)
      BY <2>4
    <3>2. doc'.nodes = Set(m, "loading") /\ m # n
      BY <3>1 DEF Generate, Render, Stamped
    <3> QED BY <2>1, <3>2 DEF Set
  <2>5. CASE \E m \in running, s \in {"done", "failed"} : Answer(m, s)
    <3>1. PICK m \in running, s \in {"done", "failed"} : Answer(m, s)
      BY <2>5
    <3>2. doc'.nodes = Answered(m, s) /\ m # n
      BY <3>1 DEF Answer, Render, Stamped
    <3> QED BY <2>1, <3>2 DEF Answered, Set
  <2>6. CASE Undo \/ Redo
    <3>1. /\ restores \in Seq(Documents) /\ Len(restores) \in Nat
          /\ past \in Seq(Documents) /\ future \in Seq(Documents)
      BY <1>1, LenProperties DEF TypeOK
    <3>2. PICK d \in Documents : restores' = Append(restores, d)
      BY <2>6, <3>1, FrontLast DEF Undo, Redo, ApplyHistory
    <3> QED BY <3>1, <3>2, AppendProperties
  <2>7. CASE ConfirmPreview
    BY <2>7 DEF ConfirmPreview
  <2>8. CASE Leave \/ Fetch \/ Restore
    BY <2>8 DEF Leave, Fetch, Restore
  <2>9. \/ Edit \/ DropNode \/ Undo \/ Redo \/ ConfirmPreview \/ Leave \/ Fetch \/ Restore
        \/ \E m \in Nodes : Generate(m) \/ DeleteNode(m)
        \/ \E m \in running, s \in {"done", "failed"} : Answer(m, s)
        \/ \E far \in BOOLEAN : MoveNode(far)
        \/ UNCHANGED doc
    <3>1. CASE User
      BY <3>1 DEF User, PressNode, ReleaseNode, CancelPreview, Share, EditTitle, StartPreview
    <3>2. CASE Saving
      BY <3>2 DEF Saving, SaveDue, Send, Store, ShareAnswered, SaveAnswered, SaveFailed
    <3>3. CASE Timers
      BY <3>3 DEF Timers, Commit, RestoreDone
    <3>4. CASE Network
      BY <3>4 DEF Network, OrphanStored, OrphanLost
    <3>5. CASE UNCHANGED vars
      BY <3>5 DEF vars
    <3> QED BY <1>1, <3>1, <3>2, <3>3, <3>4, <3>5 DEF Next
  <2> QED BY <2>2, <2>3, <2>4, <2>5, <2>6, <2>7, <2>8, <2>9
<1> QED BY <1>1, TypeCorrect, PTL DEF Spec, ResultsSurvive
-----------------------------------------------------------------------------
(* What "saved" and a preview mean for the autosave queue *)

IsAuto(i) == queue[i].kind = "auto"
(* A job whose answer is still listened to. *)
IsLive(i) == IsAuto(i) /\ queue[i].live

(* The timer is set by an effect that has just emptied the queue. *)
TimerInv ==
  saveTimer => ~deaf /\ saveStatus = "saving" /\ \A i \in DOMAIN queue : ~IsLive(i)
(* A live job is alone and holds what is shown; what waits behind it was   *)
(* asked for under the same title.                                         *)
LiveInv ==
  \A i \in DOMAIN queue : IsLive(i) =>
    /\ ~deaf /\ saveStatus = "saving"
    /\ queue[i].doc = doc /\ queue[i].title = title
    /\ \A j \in DOMAIN queue : IsLive(j) => j = i
    /\ \A j \in DOMAIN queue : j > i => queue[j].title = title
(* A job not listened to is the one whose request is under way. *)
DeadInv ==
  \A i \in DOMAIN queue : IsAuto(i) /\ ~IsLive(i) => i = 1 /\ request # "none"
(* While "saved" is shown only shares are left, of what is shown. *)
SharesInv ==
  saveStatus = "saved" /\ ~deaf =>
    \A i \in DOMAIN queue :
      /\ ~IsAuto(i) /\ queue[i].title = title
      /\ i = 1 /\ request # "none" => queue[i].doc = doc
(* A live job that was stored is what the server has. *)
StoredInv ==
  request = "stored" /\ IsLive(1) /\ ~overtaken
    => server = [doc |-> queue[1].doc, title |-> queue[1].title]
(* Nothing runs in a page that is not shown. *)
AwayInv ==
  page # "open" => /\ queue = <<>> /\ ~saveTimer /\ saveStatus = "idle"
                   /\ running = {} /\ preview = None
(* A preview has stopped the timer and the job that waited. *)
PauseInv == preview # None => ~saveTimer /\ \A i \in DOMAIN queue : ~IsLive(i)

QueueInv == TimerInv /\ LiveInv /\ DeadInv /\ SharesInv /\ StoredInv
SavingInv == QueueInv /\ AwayInv /\ PauseInv /\ SavedMeansSaved

-----------------------------------------------------------------------------
(* Sequences *)

(* The queue as a function of its positions. *)
LEMMA QueueShape ==
  ASSUME TypeOK
  PROVE  /\ queue \in Seq(Jobs) /\ Len(queue) \in Nat /\ DOMAIN queue = 1..Len(queue)
         /\ queue # <<>> => Head(queue) = queue[1] /\ 1 \in DOMAIN queue
         /\ request # "none" => queue # <<>>
BY DEF TypeOK

LEMMA TailShape ==
  ASSUME NEW q \in Seq(Jobs), q # <<>>
  PROVE  /\ Tail(q) \in Seq(Jobs)
         /\ \A i \in DOMAIN Tail(q) : i + 1 \in DOMAIN q /\ i + 1 > 1 /\ Tail(q)[i] = q[i + 1]
BY HeadTailProperties

LEMMA UnsentShape ==
  ASSUME NEW q \in Seq(Jobs)
  PROVE  /\ Unsent(q) \in Seq(Jobs)
         /\ \A i \in DOMAIN Unsent(q) : Unsent(q)[i].kind = "share"
<1>1. CASE \E i \in DOMAIN q : q[i].kind = "share"
  <2> DEFINE k == CHOOSE i \in DOMAIN q : q[i].kind = "share"
  <2>1. q[k].kind = "share"
    BY <1>1
  <2>2. Unsent(q) = <<q[k]>>
    BY <1>1 DEF Unsent
  <2> HIDE DEF k
  <2>3. \A i \in DOMAIN Unsent(q) : Unsent(q)[i] = q[k]
    BY <2>2
  <2> QED BY <2>1, <2>3, UnsentType
<1>2. CASE ~\E i \in DOMAIN q : q[i].kind = "share"
  BY <1>2, UnsentType DEF Unsent
<1> QED BY <1>1, <1>2

(* The cleanup of an effect leaves the request under way, not listened to   *)
(* any more if it was an autosave, and a share.                            *)
LEMMA CancelShape ==
  ASSUME TypeOK
  PROVE  \A i \in DOMAIN Cancel(queue) :
           \/ Cancel(queue)[i].kind = "share"
           \/ i = 1 /\ request # "none" /\ ~Cancel(queue)[i].live
<1>1. CASE request = "none"
  BY <1>1, UnsentShape, QueueShape DEF Cancel
<1>2. CASE request # "none"
  <2>1. queue \in Seq(Jobs) /\ queue # <<>>
    BY <1>2, QueueShape
  <2> DEFINE h == [Head(queue) EXCEPT !.live = (@ /\ Head(queue).kind = "share")]
             r == Unsent(Tail(queue))
  <2>2. Head(queue) \in Jobs /\ Tail(queue) \in Seq(Jobs)
    BY <2>1
  <2>3. h.kind = "share" \/ ~h.live
    BY <2>2 DEF Jobs
  <2>4. r \in Seq(Jobs) /\ \A i \in DOMAIN r : r[i].kind = "share"
    BY <2>2, UnsentShape
  <2>5. Cancel(queue) = <<h>> \o r
    BY <1>2 DEF Cancel
  <2> HIDE DEF h, r
  <2>6. /\ DOMAIN (<<h>> \o r) = 1..(1 + Len(r)) /\ (<<h>> \o r)[1] = h
        /\ \A i \in 2..(1 + Len(r)) : (<<h>> \o r)[i] = r[i - 1] /\ i - 1 \in DOMAIN r
    BY <2>4
  <2> QED BY <1>2, <2>3, <2>4, <2>5, <2>6
<1> QED BY <1>1, <1>2

-----------------------------------------------------------------------------
(* The save effect starts anew, whatever was under way. *)
LEMMA EffectKeeps ==
  ASSUME TypeOK, NEW g, NEW p, SaveEffect(g, p), UNCHANGED request, p = preview'
  PROVE  QueueInv' /\ PauseInv' /\ (saveStatus' = "saved" => deaf')
<1>1. \A i \in DOMAIN queue' : IsAuto(i)' => i = 1 /\ request' # "none" /\ ~IsLive(i)'
  BY CancelShape DEF SaveEffect, IsAuto, IsLive
<1>2. \A i \in DOMAIN queue' : ~IsLive(i)'
  BY <1>1 DEF IsLive
<1>3. TimerInv' /\ (saveStatus' = "saved" => deaf')
  BY <1>2 DEF SaveEffect, TimerInv, Paused
<1>4. LiveInv' /\ DeadInv' /\ SharesInv'
  BY <1>1, <1>2, <1>3 DEF LiveInv, DeadInv, SharesInv
<1>5. StoredInv'
  <2>1. SavingTyped' /\ (request # "none" => queue' # <<>>)
    BY SaveEffectTypes
  <2>2. request' # "none" => 1 \in DOMAIN queue'
    BY <2>1 DEF SavingTyped
  <2> QED BY <1>2, <2>2 DEF StoredInv
<1>6. PauseInv'
  BY <1>2 DEF PauseInv, SaveEffect, Paused
<1> QED BY <1>3, <1>4, <1>5, <1>6 DEF QueueInv

(* Steps whose save effect runs. *)
LEMMA EffectSteps ==
  ASSUME TypeOK, SavingInv,
         \/ Edit \/ DropNode \/ CancelPreview \/ ConfirmPreview \/ Restore
         \/ \E n \in Nodes : DeleteNode(n) \/ Generate(n)
         \/ \E n \in running, s \in {"done", "failed"} : Answer(n, s)
         \/ \E far \in BOOLEAN : MoveNode(far)
         \/ \E t \in Titles : EditTitle(t)
         \/ \E f \in [Nodes -> States], R \in SUBSET Nodes : StartPreview(f, R)
  PROVE  SavingInv'
<1>1. \E g : SaveEffect(g, preview')
  <2>1. CASE Restore
    BY <2>1 DEF Restore, SavingInv, AwayInv
  <2>2. CASE ~Restore
    BY <2>2 DEF Edit, DropNode, CancelPreview, ConfirmPreview, DeleteNode, Generate, Answer,
                MoveNode, EditTitle, StartPreview, Render
  <2> QED BY <2>1, <2>2
<1>2. UNCHANGED request
  BY DEF Edit, DropNode, CancelPreview, ConfirmPreview, Restore, DeleteNode, Generate, Answer,
         MoveNode, EditTitle, StartPreview
<1>3. QueueInv' /\ PauseInv' /\ (saveStatus' = "saved" => deaf')
  BY <1>1, <1>2, EffectKeeps
<1>4. page' = "open"
  <2>1. CASE CancelPreview \/ ConfirmPreview
    BY <2>1 DEF CancelPreview, ConfirmPreview, SavingInv, AwayInv
  <2>2. CASE \E n \in running, s \in {"done", "failed"} : Answer(n, s)
    BY <2>2 DEF Answer, SavingInv, AwayInv
  <2>3. CASE ~(CancelPreview \/ ConfirmPreview
               \/ \E n \in running, s \in {"done", "failed"} : Answer(n, s))
    BY <2>3 DEF Edit, DropNode, Restore, DeleteNode, Generate, MoveNode, EditTitle, StartPreview
  <2> QED BY <2>1, <2>2, <2>3
<1> QED BY <1>3, <1>4 DEF SavingInv, AwayInv, SavedMeansSaved

(* Steps that leave what is shown, the queue and the row as they are. *)
LEMMA QuietSteps ==
  ASSUME TypeOK, SavingInv,
         UNCHANGED <<doc, title, saveVars, server, deaf, overtaken, page, running, preview>>
  PROVE  SavingInv'
<1>1. QueueInv'
  BY DEF SavingInv, QueueInv, TimerInv, LiveInv, DeadInv, SharesInv, StoredInv, IsLive, IsAuto,
         saveVars
<1> QED BY <1>1 DEF SavingInv, AwayInv, PauseInv, IsLive, IsAuto, SavedMeansSaved, saveVars

(* An empty queue. *)
LEMMA EmptyQueue ==
  ASSUME TypeOK', queue' = <<>>, ~saveTimer'
  PROVE  QueueInv' /\ PauseInv'
<1>1. DOMAIN queue' = {}
  OBVIOUS
<1>2. request' = "none"
  BY DEF TypeOK
<1> QED BY <1>1, <1>2
        DEF QueueInv, TimerInv, LiveInv, DeadInv, SharesInv, StoredInv, PauseInv

(* Coming and going, and the requests of earlier mounts. *)
LEMMA MountSteps ==
  ASSUME TypeOK, TypeOK', SavingInv,
         Fetch \/ Leave \/ \E o \in orphans : OrphanStored(o) \/ OrphanLost(o)
  PROVE  SavingInv'
<1>1. CASE Fetch
  <2>1. page' = "hydrating" /\ page = "away" /\ UNCHANGED <<saveVars, running, preview>>
    BY <1>1 DEF Fetch
  <2>2. queue' = <<>> /\ ~saveTimer' /\ AwayInv'
    BY <2>1 DEF SavingInv, AwayInv, saveVars
  <2> QED BY <2>1, <2>2, EmptyQueue DEF SavingInv, SavedMeansSaved
<1>2. CASE Leave
  <2>1. page' = "away" /\ queue' = <<>> /\ ~saveTimer' /\ AwayInv'
    BY <1>2 DEF Leave, AwayInv
  <2> QED BY <2>1, EmptyQueue DEF SavingInv, SavedMeansSaved
<1>3. CASE \E o \in orphans : OrphanLost(o)
  BY <1>3, QuietSteps DEF OrphanLost
<1>4. CASE \E o \in orphans : OrphanStored(o)
  <2>1. /\ UNCHANGED <<doc, title, saveVars, deaf, page, running, preview>>
        /\ page # "away" => overtaken'
    BY <1>4 DEF OrphanStored
  <2>2. CASE page = "away"
    <3>1. queue' = <<>> /\ ~saveTimer' /\ AwayInv'
      BY <2>1, <2>2 DEF SavingInv, AwayInv, saveVars
    <3> QED BY <2>1, <2>2, <3>1, EmptyQueue DEF SavingInv, SavedMeansSaved
  <2>3. CASE page # "away"
    <3>1. QueueInv'
      BY <2>1, <2>3 DEF SavingInv, QueueInv, TimerInv, LiveInv, DeadInv, SharesInv, StoredInv,
                        IsLive, IsAuto, saveVars
    <3> QED BY <2>1, <2>3, <3>1
            DEF SavingInv, AwayInv, PauseInv, IsLive, IsAuto, SavedMeansSaved, saveVars
  <2> QED BY <2>2, <2>3
<1> QED BY <1>1, <1>2, <1>3, <1>4

(* Undo and redo: an effect runs unless they put back what is shown. *)
LEMMA StackSteps ==
  ASSUME TypeOK, SavingInv, Undo \/ Redo
  PROVE  SavingInv'
<1>1. PICK d : ApplyHistory(d)
  BY DEF Undo, Redo
<1>2. UNCHANGED <<title, request, server, overtaken, page, running, preview>> /\ page = "open"
  BY DEF Undo, Redo, serverVars
<1>3. CASE d = doc
  <2>1. UNCHANGED <<doc, queue, saveTimer, saveStatus, deaf>>
    BY <1>1, <1>3 DEF ApplyHistory
  <2> QED BY <1>2, <2>1, QuietSteps DEF saveVars
<1>4. CASE d # doc
  <2>1. SaveEffect(drag, preview)
    BY <1>1, <1>4 DEF ApplyHistory
  <2>2. QueueInv' /\ PauseInv' /\ (saveStatus' = "saved" => deaf')
    BY <1>2, <2>1, EffectKeeps
  <2> QED BY <1>2, <2>2 DEF SavingInv, AwayInv, SavedMeansSaved
<1> QED BY <1>3, <1>4

-----------------------------------------------------------------------------
(* The queue's own steps *)

(* What a queue of jobs holds once a job was put at its end. *)
LEMMA AppendShape ==
  ASSUME TypeOK, NEW j \in Jobs, queue' = Append(queue, j)
  PROVE  /\ DOMAIN queue' = 1..(Len(queue) + 1) /\ queue'[Len(queue) + 1] = j
         /\ \A i \in DOMAIN queue : queue'[i] = queue[i] /\ i < Len(queue) + 1
         /\ \A i \in DOMAIN queue' : i \in DOMAIN queue \/ i = Len(queue) + 1
<1>1. queue \in Seq(Jobs) /\ Len(queue) \in Nat /\ DOMAIN queue = 1..Len(queue)
  BY QueueShape
<1> QED BY <1>1, AppendProperties

LEMMA SaveDueStep ==
  ASSUME TypeOK, SavingInv, SaveDue
  PROVE  SavingInv'
<1> DEFINE j == [kind |-> "auto", doc |-> doc, title |-> title, live |-> TRUE]
<1>1. j \in Jobs /\ j.kind = "auto" /\ j.live /\ j.doc = doc /\ j.title = title
  BY DEF Jobs, TypeOK
<1>2. queue' = Append(queue, j) /\ saveTimer /\ ~saveTimer'
  BY DEF SaveDue
<1> HIDE DEF j
<1>3. /\ UNCHANGED <<doc, title, request, saveStatus, server, overtaken, deaf, page, running,
                     preview>>
      /\ ~deaf /\ saveStatus = "saving" /\ page = "open" /\ preview = None
      /\ \A i \in DOMAIN queue : ~IsLive(i)
  BY DEF SaveDue, SavingInv, QueueInv, TimerInv, AwayInv, PauseInv, serverVars
<1>4. Len(queue) \in Nat /\ DOMAIN queue = 1..Len(queue)
      /\ (request # "none" => 1 \in DOMAIN queue)
  BY QueueShape
<1> DEFINE n == Len(queue) + 1
<1>5. /\ DOMAIN queue' = 1..n /\ queue'[n] = j
      /\ \A i \in DOMAIN queue : queue'[i] = queue[i] /\ i < n
      /\ \A i \in DOMAIN queue' : i \in DOMAIN queue \/ i = n
  BY <1>1, <1>2, AppendShape
<1>6. \A i \in DOMAIN queue' : IsLive(i)' => i = n
  BY <1>3, <1>5 DEF IsLive, IsAuto
<1>7. LiveInv'
  BY <1>1, <1>3, <1>4, <1>5, <1>6 DEF LiveInv
<1>8. DeadInv'
  BY <1>1, <1>3, <1>5 DEF DeadInv, IsLive, IsAuto, SavingInv, QueueInv
<1>9. TimerInv' /\ SharesInv'
  BY <1>2, <1>3 DEF TimerInv, SharesInv
<1>10. StoredInv'
  BY <1>3, <1>4, <1>5, <1>6 DEF StoredInv
<1> QED BY <1>3, <1>7, <1>8, <1>9, <1>10
        DEF SavingInv, QueueInv, AwayInv, PauseInv, SavedMeansSaved

LEMMA ShareStep ==
  ASSUME TypeOK, SavingInv, Share
  PROVE  SavingInv'
<1> DEFINE j == [kind |-> "share", doc |-> doc, title |-> title, live |-> TRUE]
<1>1. j \in Jobs /\ j.kind = "share" /\ j.doc = doc /\ j.title = title
  BY DEF Jobs, TypeOK
<1>2. queue' = Append(queue, j)
  BY DEF Share
<1> HIDE DEF j
<1>3. /\ UNCHANGED <<doc, title, request, saveStatus, saveTimer, server, overtaken, deaf, page,
                     running, preview>>
      /\ page = "open"
  BY DEF Share, serverVars
<1>4. Len(queue) \in Nat /\ DOMAIN queue = 1..Len(queue)
      /\ (request # "none" => 1 \in DOMAIN queue)
  BY QueueShape
<1> DEFINE n == Len(queue) + 1
<1>5. /\ DOMAIN queue' = 1..n /\ queue'[n] = j
      /\ \A i \in DOMAIN queue : queue'[i] = queue[i] /\ i < n
      /\ \A i \in DOMAIN queue' : i \in DOMAIN queue \/ i = n
  BY <1>1, <1>2, AppendShape
<1>6. \A i \in DOMAIN queue' : IsAuto(i)' => i \in DOMAIN queue /\ IsAuto(i)
  BY <1>1, <1>5 DEF IsAuto
<1>7. \A i \in DOMAIN queue' : IsLive(i)' => i \in DOMAIN queue /\ IsLive(i)
  BY <1>5, <1>6 DEF IsLive
<1>8. LiveInv'
  BY <1>1, <1>3, <1>5, <1>7 DEF LiveInv, SavingInv, QueueInv
<1>9. DeadInv'
  BY <1>3, <1>5, <1>6 DEF DeadInv, IsLive, IsAuto, SavingInv, QueueInv
<1>10. TimerInv'
  BY <1>3, <1>7 DEF TimerInv, SavingInv, QueueInv
<1>11. SharesInv'
  BY <1>1, <1>3, <1>4, <1>5, <1>6 DEF SharesInv, SavingInv, QueueInv
<1>12. StoredInv'
  BY <1>3, <1>4, <1>5, <1>7 DEF StoredInv, SavingInv, QueueInv
<1>13. PauseInv'
  BY <1>3, <1>7 DEF PauseInv, SavingInv
<1> QED BY <1>3, <1>8, <1>9, <1>10, <1>11, <1>12, <1>13
        DEF SavingInv, QueueInv, AwayInv, SavedMeansSaved

LEMMA SendStep ==
  ASSUME TypeOK, SavingInv, Send
  PROVE  SavingInv'
<1>1. queue \in Seq(Jobs) /\ Len(queue) \in Nat /\ DOMAIN queue = 1..Len(queue)
      /\ Head(queue) = queue[1] /\ 1 \in DOMAIN queue
  BY QueueShape DEF Send
<1>2. /\ request = "none" /\ request' = "sent"
      /\ UNCHANGED <<doc, title, saveTimer, saveStatus, server, overtaken, deaf, page, running,
                     preview>>
  BY DEF Send, serverVars
<1>3. /\ DOMAIN queue' = DOMAIN queue
      /\ \A i \in DOMAIN queue : /\ queue'[i].kind = queue[i].kind
                                 /\ queue'[i].live = queue[i].live
                                 /\ queue'[i].title = queue[i].title
                                 /\ IsAuto(i) => queue'[i] = queue[i]
      /\ queue[1].kind = "share" => queue'[1].doc = doc
  <2>1. \A i \in DOMAIN queue : queue[i] \in Jobs
    BY <1>1
  <2>2. CASE queue[1].kind = "share"
    <3>1. queue' = [queue EXCEPT ![1].doc = doc]
      BY <1>1, <2>2 DEF Send, Shown
    <3> QED BY <1>1, <2>1, <2>2, <3>1 DEF Jobs, IsAuto
  <2>3. CASE queue[1].kind # "share"
    BY <1>1, <2>3 DEF Send
  <2> QED BY <2>2, <2>3
<1>4. \A i \in DOMAIN queue : IsAuto(i)' = IsAuto(i) /\ IsLive(i)' = IsLive(i)
  BY <1>3 DEF IsAuto, IsLive
<1>5. LiveInv'
  BY <1>2, <1>3, <1>4 DEF LiveInv, SavingInv, QueueInv, IsLive
<1>6. TimerInv' /\ DeadInv' /\ PauseInv'
  BY <1>2, <1>3, <1>4 DEF TimerInv, DeadInv, PauseInv, SavingInv, QueueInv
<1>7. SharesInv'
  <2>1. queue[1] \in Jobs
    BY <1>1
  <2> QED BY <1>1, <1>2, <1>3, <1>4, <2>1 DEF SharesInv, SavingInv, QueueInv, IsAuto, Jobs
<1>8. StoredInv'
  BY <1>2 DEF StoredInv
<1> QED BY <1>1, <1>2, <1>5, <1>6, <1>7, <1>8
        DEF SavingInv, QueueInv, AwayInv, SavedMeansSaved

LEMMA StoreStep ==
  ASSUME TypeOK, SavingInv, Store
  PROVE  SavingInv'
<1>1. /\ request = "sent" /\ request' = "stored"
      /\ UNCHANGED <<doc, title, saveTimer, queue, saveStatus, overtaken, deaf, page, running,
                     preview>>
      /\ server' = [doc |-> Head(queue).doc, title |-> Head(queue).title]
  BY DEF Store
<1>2. Head(queue) = queue[1] /\ 1 \in DOMAIN queue
  BY <1>1, QueueShape
<1>3. QueueInv'
  BY <1>1, <1>2
     DEF QueueInv, TimerInv, LiveInv, DeadInv, SharesInv, StoredInv, IsLive, IsAuto, SavingInv
<1>4. SavedMeansSaved'
  BY <1>1, <1>2 DEF SavedMeansSaved, SavingInv, QueueInv, SharesInv
<1> QED BY <1>1, <1>3, <1>4 DEF SavingInv, AwayInv, PauseInv, IsLive, IsAuto

(* The answer to the head, or none: the rest of the queue moves up. *)
LEMMA AnswerSteps ==
  ASSUME TypeOK, SavingInv, SaveAnswered \/ SaveFailed
  PROVE  SavingInv'
<1>1. /\ request # "none" /\ request' = "none" /\ queue' = Tail(queue)
      /\ UNCHANGED <<doc, title, saveTimer, server, overtaken, deaf, page, running, preview>>
  BY DEF SaveAnswered, SaveFailed, serverVars
<1>2. queue \in Seq(Jobs) /\ queue # <<>> /\ Head(queue) = queue[1] /\ 1 \in DOMAIN queue
  BY <1>1, QueueShape
<1>3. \A i \in DOMAIN queue' : i + 1 \in DOMAIN queue /\ i + 1 > 1 /\ queue'[i] = queue[i + 1]
  BY <1>1, <1>2, TailShape
<1>4. \A i \in DOMAIN queue' : IsAuto(i)' = IsAuto(i + 1) /\ IsLive(i)' = IsLive(i + 1)
  BY <1>3 DEF IsAuto, IsLive
<1>5. page = "open"
  BY <1>2 DEF SavingInv, AwayInv
<1>6. DeadInv' /\ StoredInv'
  BY <1>1, <1>3, <1>4 DEF DeadInv, StoredInv, SavingInv, QueueInv
<1>7. PauseInv'
  BY <1>1, <1>3, <1>4 DEF PauseInv, SavingInv
<1>8. \A i \in DOMAIN queue : i \in Int
  BY <1>2
<1>9. \A i \in DOMAIN queue' : i \in Int
  BY <1>1, <1>2
<1>10. CASE saveStatus' = saveStatus
  <2>1. TimerInv' /\ SharesInv'
    BY <1>1, <1>3, <1>4, <1>10 DEF TimerInv, SharesInv, SavingInv, QueueInv
  <2>2. LiveInv'
    BY <1>1, <1>3, <1>4, <1>8, <1>9, <1>10 DEF LiveInv, SavingInv, QueueInv
  <2> QED BY <1>1, <1>5, <1>6, <1>7, <1>10, <2>1, <2>2
          DEF SavingInv, QueueInv, AwayInv, SavedMeansSaved
<1>11. CASE saveStatus' # saveStatus
  <2>1. IsLive(1) /\ saveStatus' \in {"saved", "error"}
        /\ (saveStatus' = "saved" => request = "stored")
    BY <1>2, <1>11 DEF SaveAnswered, SaveFailed, Listening, IsLive, IsAuto
  <2>2. /\ ~deaf /\ queue[1].doc = doc /\ queue[1].title = title
        /\ \A i \in DOMAIN queue : IsLive(i) => i = 1
        /\ \A i \in DOMAIN queue : i > 1 => queue[i].title = title
    BY <1>2, <2>1 DEF LiveInv, SavingInv, QueueInv
  <2>3. ~saveTimer
    BY <1>2, <2>1 DEF TimerInv, SavingInv, QueueInv
  <2>4. \A i \in DOMAIN queue' : ~IsAuto(i)' /\ queue'[i].title = title
    BY <1>3, <1>4, <1>9, <2>2 DEF DeadInv, SavingInv, QueueInv
  <2>5. TimerInv' /\ LiveInv' /\ SharesInv'
    BY <1>1, <2>3, <2>4 DEF TimerInv, LiveInv, SharesInv, IsLive
  <2>6. SavedMeansSaved'
    BY <1>1, <2>1, <2>2 DEF SavedMeansSaved, StoredInv, SavingInv, QueueInv
  <2> QED BY <1>1, <1>5, <1>6, <1>7, <2>5, <2>6 DEF SavingInv, QueueInv, AwayInv
<1> QED BY <1>10, <1>11

LEMMA ShareAnsweredStep ==
  ASSUME TypeOK, SavingInv, ShareAnswered
  PROVE  SavingInv'
<1>1. /\ request = "stored" /\ request' = "none" /\ title' = Head(queue).title
      /\ UNCHANGED <<doc, server, overtaken, page, running, preview>>
      /\ Head(queue).kind = "share"
  BY DEF ShareAnswered, serverVars
<1>2. queue \in Seq(Jobs) /\ queue # <<>> /\ Head(queue) = queue[1] /\ 1 \in DOMAIN queue
  BY <1>1, QueueShape
<1>3. Tail(queue) \in Seq(Jobs)
  BY <1>2
<1>4. page = "open"
  BY <1>2 DEF SavingInv, AwayInv
<1>5. CASE title' = title
  <2>1. queue' = Tail(queue) /\ UNCHANGED <<saveTimer, saveStatus, deaf>>
    BY <1>5 DEF ShareAnswered
  <2>2. \A i \in DOMAIN queue' : i + 1 \in DOMAIN queue /\ i + 1 > 1 /\ queue'[i] = queue[i + 1]
    BY <1>2, <2>1, TailShape
  <2>3. \A i \in DOMAIN queue' : IsAuto(i)' = IsAuto(i + 1) /\ IsLive(i)' = IsLive(i + 1)
    BY <2>2 DEF IsAuto, IsLive
  <2>4. \A i \in DOMAIN queue : i \in Int
    BY <1>2
  <2>5. \A i \in DOMAIN queue' : i \in Int
    BY <1>3, <2>1
  <2>6. DeadInv' /\ StoredInv' /\ TimerInv' /\ SharesInv'
    BY <1>1, <1>5, <2>1, <2>2, <2>3
       DEF DeadInv, StoredInv, TimerInv, SharesInv, SavingInv, QueueInv
  <2>7. LiveInv'
    BY <1>1, <1>5, <2>1, <2>2, <2>3, <2>4, <2>5 DEF LiveInv, SavingInv, QueueInv
  <2>8. PauseInv'
    BY <1>1, <2>1, <2>2, <2>3 DEF PauseInv, SavingInv
  <2> QED BY <1>1, <1>4, <1>5, <2>1, <2>6, <2>7, <2>8
          DEF SavingInv, QueueInv, AwayInv, SavedMeansSaved
<1>6. CASE title' # title
  <2>1. /\ queue' = Unsent(Tail(queue)) /\ saveTimer' = ~Paused(drag, preview)
        /\ deaf' = Paused(drag, preview)
        /\ saveStatus' = IF Paused(drag, preview) THEN saveStatus ELSE "saving"
    BY <1>6 DEF ShareAnswered
  <2>2. \A i \in DOMAIN queue' : ~IsAuto(i)' /\ ~IsLive(i)'
    BY <1>3, <2>1, UnsentShape DEF IsAuto, IsLive
  <2>3. LiveInv' /\ DeadInv' /\ StoredInv'
    BY <1>1, <2>2 DEF LiveInv, DeadInv, StoredInv
  <2>4. saveStatus' = "saved" => deaf'
    BY <2>1
  <2>5. TimerInv' /\ SharesInv'
    BY <2>1, <2>2, <2>4 DEF TimerInv, SharesInv
  <2>6. PauseInv'
    BY <1>1, <2>1, <2>2 DEF PauseInv, Paused
  <2> QED BY <1>4, <1>1, <2>3, <2>4, <2>5, <2>6
          DEF SavingInv, QueueInv, AwayInv, SavedMeansSaved
<1> QED BY <1>5, <1>6

-----------------------------------------------------------------------------
(* The invariant holds at first and is kept by every step. *)
LEMMA SavingInvHolds == Spec => []SavingInv
<1>1. Init => SavingInv
  <2> SUFFICES ASSUME Init
               PROVE  SavingInv
    OBVIOUS
  <2>1. DOMAIN queue = {}
    BY DEF Init
  <2> QED BY <2>1 DEF Init, SavingInv, QueueInv, TimerInv, LiveInv, DeadInv, SharesInv, StoredInv,
                      AwayInv, PauseInv, SavedMeansSaved
<1>2. TypeOK /\ TypeOK' /\ SavingInv /\ [Next]_vars => SavingInv'
  <2> SUFFICES ASSUME TypeOK, TypeOK', SavingInv, [Next]_vars
               PROVE  SavingInv'
    OBVIOUS
  <2>1. CASE PressNode \/ ReleaseNode \/ Timers
    <3>1. UNCHANGED <<doc, title, saveVars, server, deaf, overtaken, page, running, preview>>
      BY <2>1 DEF PressNode, ReleaseNode, Timers, Commit, RestoreDone, serverVars
    <3> QED BY <3>1, QuietSteps
  <2>2. CASE User
    BY <2>1, <2>2, EffectSteps, MountSteps, StackSteps, ShareStep DEF User
  <2>3. CASE Saving
    BY <2>3, SaveDueStep, SendStep, StoreStep, ShareAnsweredStep, AnswerSteps DEF Saving
  <2>4. CASE Network
    BY <2>4, EffectSteps, MountSteps DEF Network
  <2>5. CASE UNCHANGED vars
    <3>1. UNCHANGED <<doc, title, saveVars, server, deaf, overtaken, page, running, preview>>
      BY <2>5 DEF vars, serverVars
    <3> QED BY <3>1, QuietSteps
  <2> QED BY <2>1, <2>2, <2>3, <2>4, <2>5 DEF Next
<1> QED BY <1>1, <1>2, TypeCorrect, PTL DEF Spec

(* "Saved" is shown only of what the server has, whatever edits, undo,      *)
(* generations, shares and earlier requests came in between: what an effect *)
(* cancels is not listened to, and what is listened to holds what is shown. *)
THEOREM SavedIsSaved == Spec => []SavedMeansSaved
BY SavingInvHolds, PTL DEF SavingInv

(* docs/pending-test.md:146 and 204: while a preview is shown no autosave   *)
(* is sent and none is reported.                                           *)
THEOREM PreviewPauses == Spec => PreviewPausesSaving
<1> DEFINE Pauses ==
      preview # None /\ preview' # None
        => /\ saveStatus' = saveStatus
           /\ (request = "none" /\ request' = "sent" => Head(queue).kind = "share")
<1>1. TypeOK /\ SavingInv /\ [Next]_vars => [Pauses]_vars
  <2> SUFFICES ASSUME TypeOK, SavingInv, [Next]_vars, preview # None, preview' # None
               PROVE  /\ saveStatus' = saveStatus
                      /\ (request = "none" /\ request' = "sent" => Head(queue).kind = "share")
    OBVIOUS
  <2>1. page = "open" /\ ~saveTimer /\ \A i \in DOMAIN queue : ~IsLive(i)
    BY DEF SavingInv, AwayInv, PauseInv
  <2>2. ASSUME NEW g, SaveEffect(g, preview)
        PROVE  saveStatus' = saveStatus
    BY <2>2 DEF SaveEffect, Paused
  <2>3. ASSUME NEW g, SaveEffect(g, preview')
        PROVE  saveStatus' = saveStatus
    BY <2>3 DEF SaveEffect, Paused
  <2>4. CASE User
    BY <2>1, <2>2, <2>3, <2>4
       DEF User, MoveNode, Leave, Edit, PressNode, DropNode, ReleaseNode, CancelPreview,
           ConfirmPreview, Share, DeleteNode, Generate, EditTitle, StartPreview, Undo, Redo,
           ApplyHistory, Render, saveVars
  <2>5. CASE Send
    <3>1. Head(queue) = queue[1] /\ 1 \in DOMAIN queue /\ queue[1] \in Jobs
      BY <2>5, QueueShape DEF Send
    <3>2. ~IsAuto(1)
      BY <2>1, <2>5, <3>1 DEF Send, SavingInv, QueueInv, DeadInv
    <3> QED BY <2>5, <3>1, <3>2 DEF Send, IsAuto, Jobs
  <2>6. CASE SaveAnswered \/ SaveFailed
    <3>1. Head(queue) = queue[1] /\ 1 \in DOMAIN queue
      BY <2>6, QueueShape DEF SaveAnswered, SaveFailed
    <3>2. ~Listening(Head(queue))
      BY <2>1, <3>1 DEF Listening, IsLive, IsAuto
    <3> QED BY <2>6, <3>2 DEF SaveAnswered, SaveFailed
  <2>7. CASE SaveDue \/ Store \/ ShareAnswered
    BY <2>7 DEF SaveDue, Store, ShareAnswered, Paused
  <2>8. CASE Timers
    BY <2>8 DEF Timers, Commit, RestoreDone, saveVars
  <2>9. CASE Network
    BY <2>1, <2>2, <2>9
       DEF Network, Fetch, Restore, OrphanStored, OrphanLost, Answer, Render, saveVars
  <2>10. CASE UNCHANGED vars
    BY <2>10 DEF vars, saveVars
  <2> QED BY <2>4, <2>5, <2>6, <2>7, <2>8, <2>9, <2>10 DEF Next, Saving
<1> QED BY <1>1, SavingInvHolds, TypeCorrect, PTL DEF Spec, PreviewPausesSaving
=============================================================================
