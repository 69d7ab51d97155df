--------------------------- MODULE WorkflowShares ---------------------------
(***************************************************************************)
(* Cloud workflows, their share links, linked copies and community posts:  *)
(* service/workflow.go over model/workflow.go.                             *)
(*                                                                         *)
(* A call reads outside any transaction what it will write from: the       *)
(* workflow it takes a snapshot of, the share whose version it raises, the *)
(* post it replaces.  Its transaction is one step: it locks the rows it    *)
(* depends on (source, share, post) and asks again, and other transactions *)
(* on the same rows wait for their UPDATE.  Pushing a new version to the   *)
(* linked copies is one transaction for each copy, after the share's own.  *)
(* A call may end with an error, or die, between any two of its steps.     *)
(***************************************************************************)
EXTENDS Naturals, FiniteSets

CONSTANTS
  Users, Calls,
  Workflows, Shares, Posts,   (* ids of rows                               *)
  Contents,                   (* what a workflow may hold: nodes and the like *)
  FilesOf,                    (* collectCloudFileIDsFromChunks of a content *)
  InitialCredits,             (* workflow_create_credits                   *)
  MaxVersion,                 (* bound: no share is updated beyond it      *)
  None

Files == UNION {FilesOf[k] : k \in Contents}
Scopes == Workflows \cup Shares \cup Posts

ASSUME RowAssumption == /\ Workflows \cap Shares = {}
                        /\ Workflows \cap Posts = {}
                        /\ Shares \cap Posts = {}
                        /\ None \notin Users \cup Scopes \cup Contents
ASSUME ContentAssumption == /\ DOMAIN FilesOf = Contents
                            /\ InitialCredits \in [Users -> Nat]
                            /\ MaxVersion \in Nat

VARIABLES
  (* workflows; a copy's share, mode and version are also what its row of   *)
  (* workflow_share_copies says, which never goes away                     *)
  owner, life, content, mode, source, version,
  (* workflow_shares *)
  from, status, number, snapshot,
  (* workflow_community_posts: a deleted post is asked for nothing else     *)
  about, post, published,
  (* cloud_file_references of the kinds workflow, share and community       *)
  refs,
  (* users.workflow_create_credits *)
  credits,
  (* one request: its step, the rows and the content it has read            *)
  call,
  (* history: the snapshot each version was saved with; copies their owner  *)
  (* has edited since the last push                                        *)
  issued, edited

workflowVars == <<owner, life, content, mode, source, version, edited>>
shareVars == <<from, status, number, snapshot, issued>>
postVars == <<about, post, published>>
vars == <<workflowVars, shareVars, postVars, refs, credits, call>>

Versions == 1..MaxVersion
Steps == {"idle", "sharing", "updating", "listing", "pushing", "copying",
          "publishing", "syncing", "posting"}
CallRecord == [step : Steps, wf : Workflows \cup {None}, of : Shares \cup Posts \cup {None},
               content : Contents \cup {None}, version : Nat, todo : SUBSET Workflows]
Idle == [step |-> "idle", wf |-> None, of |-> None, content |-> None,
         version |-> 0, todo |-> {}]

Init ==
  /\ owner = [w \in Workflows |-> None]
  /\ life = [w \in Workflows |-> "none"]
  /\ content = [w \in Workflows |-> None]
  /\ mode = [w \in Workflows |-> "none"]
  /\ source = [w \in Workflows |-> None]
  /\ version = [w \in Workflows |-> 0]
  /\ from = [s \in Shares |-> None]
  /\ status = [s \in Shares |-> "none"]
  /\ number = [s \in Shares |-> 0]
  /\ snapshot = [s \in Shares |-> None]
  /\ about = [p \in Posts |-> None]
  /\ post = [p \in Posts |-> "none"]
  /\ published = [p \in Posts |-> None]
  /\ refs = [x \in Scopes |-> {}]
  /\ credits = InitialCredits
  /\ call = [c \in Calls |-> Idle]
  /\ issued = [s \in Shares |-> [v \in Versions |-> None]]
  /\ edited = {}

Live(w) == life[w] = "live"
SharesOf(w) == {s \in Shares : from[s] = w}
PostsOf(w) == {p \in Posts : about[p] = w}
ActiveShares(w) == {s \in SharesOf(w) : status[s] = "active"}
LivePosts(w) == {p \in PostsOf(w) : post[p] \in {"active", "banned"}}
(* Rows of workflow_share_copies with mode linked, copies that were deleted *)
(* since included.                                                         *)
LinkedCopies(s) == {w \in Workflows : source[w] = s /\ mode[w] = "linked"}

(* SetCloudFileReferencesTx and ReleaseCloudFileReferencesTx. *)
Bind(x, k) == [refs EXCEPT ![x] = FilesOf[k]]
Release(X) == [x \in Scopes |-> IF x \in X THEN {} ELSE refs[x]]

Goto(c, r) == call' = [call EXCEPT ![c] = r]
Return(c) == Goto(c, Idle)

-----------------------------------------------------------------------------
(* Workflows.  One transaction each, so that an error leaves nothing.      *)

HasCredit(u) == credits[u] > 0

(* consumeWorkflowCreditTx and the new row, its files bound to it. *)
NewWorkflow(u, w, k, m, s, v) ==
  /\ HasCredit(u)
  /\ life[w] = "none"
  /\ credits' = [credits EXCEPT ![u] = @ - 1]
  /\ owner' = [owner EXCEPT ![w] = u]
  /\ life' = [life EXCEPT ![w] = "live"]
  /\ content' = [content EXCEPT ![w] = k]
  /\ mode' = [mode EXCEPT ![w] = m]
  /\ source' = [source EXCEPT ![w] = s]
  /\ version' = [version EXCEPT ![w] = v]
  /\ refs' = Bind(w, k)

CreateWorkflow(u, w, k) ==
  /\ NewWorkflow(u, w, k, "none", None, 0)
  /\ UNCHANGED <<edited, shareVars, postVars, call>>

(* The owner's save writes over whatever the row holds, a pushed version    *)
(* included.                                                               *)
UpdateWorkflow(w, k) ==
  /\ Live(w) /\ content[w] # k
  /\ content' = [content EXCEPT ![w] = k]
  /\ edited' = edited \cup {w}
  /\ refs' = Bind(w, k)
  /\ UNCHANGED <<owner, life, mode, source, version, shareVars, postVars, credits, call>>

(* A fault to be caught: the references of shares and posts are kept. *)
ScopesOf_Workflow(w) == {w}
ScopesOf(w) == {w} \cup SharesOf(w) \cup PostsOf(w)

DeleteWorkflow(w) ==
  /\ Live(w)
  /\ life' = [life EXCEPT ![w] = "deleted"]
  /\ status' = [s \in Shares |-> IF s \in SharesOf(w) THEN "revoked" ELSE status[s]]
  /\ post' = [p \in Posts |-> IF p \in PostsOf(w) THEN "deleted" ELSE post[p]]
  /\ refs' = Release(ScopesOf(w))
  /\ UNCHANGED <<owner, content, mode, source, version, edited, from, number, snapshot,
                 issued, about, published, credits, call>>

-----------------------------------------------------------------------------
(* Sharing: ShareWorkflow, CopyWorkflowShare, RevokeWorkflowShare.         *)

(* GetWorkflow *)
ReadSource(c, w) ==
  /\ call[c] = Idle
  /\ Live(w)
  /\ Goto(c, [Idle EXCEPT !.step = "sharing", !.wf = w, !.content = content[w]])
  /\ UNCHANGED <<workflowVars, shareVars, postVars, refs, credits>>

(* The active share, if there is one: First takes the lowest of random ids. *)
ReadNoShare(c) ==
  LET r == call[c] IN
  /\ r.step = "sharing" /\ ActiveShares(r.wf) = {}
  /\ Goto(c, [r EXCEPT !.step = "updating", !.version = 1])
  /\ UNCHANGED <<workflowVars, shareVars, postVars, refs, credits>>

ReadShare(c, s) ==
  LET r == call[c] IN
  /\ r.step = "sharing" /\ s \in ActiveShares(r.wf)
  /\ Goto(c, [r EXCEPT !.step = "updating", !.of = s, !.version = number[s] + 1])
  /\ UNCHANGED <<workflowVars, shareVars, postVars, refs, credits>>

(* A fault to be caught: the source row is not asked for again. *)
SourceLive_Unasked(w) == life[w] # "none"
SourceLive(w) == Live(w)

(* Faults to be caught: the version, the status is not asked for again. *)
StillCurrent_AnyVersion(s, v) == status[s] = "active"
StillCurrent_Revoked(s, v) == number[s] = v
StillCurrent(s, v) == status[s] = "active" /\ number[s] = v

(* The transaction of ShareWorkflow: the whole row of s is saved. *)
WriteShare(r, s) ==
  /\ SourceLive(r.wf)
  /\ r.version \in Versions
  /\ from' = [from EXCEPT ![s] = r.wf]
  /\ status' = [status EXCEPT ![s] = "active"]
  /\ number' = [number EXCEPT ![s] = r.version]
  /\ snapshot' = [snapshot EXCEPT ![s] = r.content]
  /\ issued' = [issued EXCEPT ![s][r.version] = r.content]
  /\ refs' = Bind(s, r.content)
  /\ UNCHANGED <<workflowVars, postVars, credits>>

SaveNewShare(c, s) ==
  LET r == call[c] IN
  /\ r.step = "updating" /\ r.of = None
  /\ status[s] = "none"
  /\ WriteShare(r, s)
  /\ Return(c)

SaveShare(c) ==
  LET r == call[c] IN
  /\ r.step = "updating" /\ r.of # None
  /\ StillCurrent(r.of, r.version - 1)
  /\ WriteShare(r, r.of)
  /\ Goto(c, [r EXCEPT !.step = "listing"])

(* pushLinkedShareUpdates *)
ListCopies(c) ==
  LET r == call[c] IN
  /\ r.step = "listing"
  /\ Goto(c, [r EXCEPT !.step = "pushing", !.todo = LinkedCopies(r.of)])
  /\ UNCHANGED <<workflowVars, shareVars, postVars, refs, credits>>

(* A fault to be caught: a push that is late takes a copy back. *)
Outdated_Late(w, v) == version[w] # v
Outdated(w, v) == version[w] < v

PushCopy(c, w) ==
  LET r == call[c]
      hit == Live(w) /\ Outdated(w, r.version)
  IN
  /\ r.step = "pushing" /\ w \in r.todo
  /\ content' = [content EXCEPT ![w] = IF hit THEN r.content ELSE @]
  /\ version' = [version EXCEPT ![w] = IF hit THEN r.version ELSE @]
  /\ edited' = IF hit THEN edited \ {w} ELSE edited
  /\ refs' = IF hit THEN Bind(w, r.content) ELSE refs
  /\ Goto(c, [r EXCEPT !.todo = @ \ {w}])
  /\ UNCHANGED <<owner, life, mode, source, shareVars, postVars, credits>>

PushEnds(c) ==
  /\ call[c].step = "pushing" /\ call[c].todo = {}
  /\ Return(c)
  /\ UNCHANGED <<workflowVars, shareVars, postVars, refs, credits>>

(* findActiveShare *)
ReadShareToCopy(c, s) ==
  /\ call[c] = Idle
  /\ status[s] = "active"
  /\ Goto(c, [Idle EXCEPT !.step = "copying", !.of = s, !.content = snapshot[s],
                          !.version = number[s]])
  /\ UNCHANGED <<workflowVars, shareVars, postVars, refs, credits>>

(* The share is not asked for again. *)
CopyShare(c, u, w, m) ==
  LET r == call[c] IN
  /\ r.step = "copying"
  /\ NewWorkflow(u, w, r.content, m, r.of, r.version)
  /\ Return(c)
  /\ UNCHANGED <<edited, shareVars, postVars>>

RevokeShare(s) ==
  /\ status[s] = "active"
  /\ status' = [status EXCEPT ![s] = "revoked"]
  /\ refs' = Release({s})
  /\ UNCHANGED <<workflowVars, from, number, snapshot, issued, postVars, credits, call>>

-----------------------------------------------------------------------------
(* Community posts: Publish-, Sync-, Delete- and AdminBanCommunityWorkflow. *)

(* PublishCommunityWorkflow reads the workflow, then its post ... *)
ReadWorkflowToPublish(c, w) ==
  /\ call[c] = Idle
  /\ Live(w)
  /\ Goto(c, [Idle EXCEPT !.step = "publishing", !.wf = w, !.content = content[w]])
  /\ UNCHANGED <<workflowVars, shareVars, postVars, refs, credits>>

ReadNoPost(c) ==
  LET r == call[c] IN
  /\ r.step = "publishing" /\ LivePosts(r.wf) = {}
  /\ Goto(c, [r EXCEPT !.step = "posting"])
  /\ UNCHANGED <<workflowVars, shareVars, postVars, refs, credits>>

(* A banned post refuses at once. *)
ReadPost(c, p) ==
  LET r == call[c] IN
  /\ r.step = "publishing" /\ p \in LivePosts(r.wf)
  /\ Goto(c, IF post[p] = "banned" THEN Idle ELSE [r EXCEPT !.step = "posting", !.of = p])
  /\ UNCHANGED <<workflowVars, shareVars, postVars, refs, credits>>

(* ... and SyncCommunityWorkflow the post, then its workflow. *)
ReadPostToSync(c, p) ==
  /\ call[c] = Idle
  /\ post[p] = "active"
  /\ Goto(c, [Idle EXCEPT !.step = "syncing", !.of = p, !.wf = about[p]])
  /\ UNCHANGED <<workflowVars, shareVars, postVars, refs, credits>>

ReadWorkflowToSync(c) ==
  LET r == call[c] IN
  /\ r.step = "syncing"
  /\ Live(r.wf)
  /\ Goto(c, [r EXCEPT !.step = "posting", !.content = content[r.wf]])
  /\ UNCHANGED <<workflowVars, shareVars, postVars, refs, credits>>

(* A fault to be caught: the post is not asked for again. *)
StillPosted_Unasked(p) == post[p] # "none"
StillPosted(p) == post[p] = "active"

(* The transaction of both: the whole row of p is saved. *)
WritePost(r, p) ==
  /\ SourceLive(r.wf)
  /\ about' = [about EXCEPT ![p] = r.wf]
  /\ post' = [post EXCEPT ![p] = "active"]
  /\ published' = [published EXCEPT ![p] = r.content]
  /\ refs' = Bind(p, r.content)
  /\ UNCHANGED <<workflowVars, shareVars, credits>>

SaveNewPost(c, p) ==
  LET r == call[c] IN
  /\ r.step = "posting" /\ r.of = None
  /\ post[p] = "none"
  /\ WritePost(r, p)
  /\ Return(c)

SavePost(c) ==
  LET r == call[c] IN
  /\ r.step = "posting" /\ r.of # None
  /\ StillPosted(r.of)
  /\ WritePost(r, r.of)
  /\ Return(c)

BanPost(p) ==
  /\ post[p] \in {"active", "banned"}
  /\ post' = [post EXCEPT ![p] = "banned"]
  /\ UNCHANGED <<workflowVars, shareVars, about, published, refs, credits, call>>

(* By its author, or by CleanupExpiredBannedCommunityPosts a week after the *)
(* ban.                                                                    *)
DeletePost(p) ==
  /\ post[p] \in {"active", "banned"}
  /\ post' = [post EXCEPT ![p] = "deleted"]
  /\ refs' = Release({p})
  /\ UNCHANGED <<workflowVars, shareVars, about, published, credits, call>>

(* An error, a check that fails, or the death of the process.              *)
CallFails(c) ==
  /\ call[c] # Idle
  /\ Return(c)
  /\ UNCHANGED <<workflowVars, shareVars, postVars, refs, credits>>

-----------------------------------------------------------------------------
WorkflowNext ==
  \E w \in Workflows :
    \/ \E k \in Contents : \/ \E u \in Users : CreateWorkflow(u, w, k)
                           \/ UpdateWorkflow(w, k)
    \/ DeleteWorkflow(w)

ShareNext(c) ==
  \/ \E w \in Workflows : ReadSource(c, w) \/ PushCopy(c, w)
  \/ \E s \in Shares : ReadShare(c, s) \/ SaveNewShare(c, s) \/ ReadShareToCopy(c, s)
  \/ ReadNoShare(c) \/ SaveShare(c) \/ ListCopies(c) \/ PushEnds(c)
  \/ \E u \in Users, w \in Workflows, m \in {"linked", "detached"} : CopyShare(c, u, w, m)

PostNext(c) ==
  \/ \E w \in Workflows : ReadWorkflowToPublish(c, w)
  \/ \E p \in Posts : ReadPost(c, p) \/ ReadPostToSync(c, p) \/ SaveNewPost(c, p)
  \/ ReadNoPost(c) \/ ReadWorkflowToSync(c) \/ SavePost(c)

Next ==
  \/ WorkflowNext
  \/ \E c \in Calls : ShareNext(c) \/ PostNext(c) \/ CallFails(c)
  \/ \E s \in Shares : RevokeShare(s)
  \/ \E p \in Posts : BanPost(p) \/ DeletePost(p)

Spec == Init /\ [][Next]_vars

-----------------------------------------------------------------------------
(* Types.  Every workflow was paid for: no count of credits falls below 0, *)
(* whatever creations and copies race (consumeWorkflowCreditTx).           *)
TypeOK ==
  /\ owner \in [Workflows -> Users \cup {None}]
  /\ life \in [Workflows -> {"none", "live", "deleted"}]
  /\ content \in [Workflows -> Contents \cup {None}]
  /\ mode \in [Workflows -> {"none", "linked", "detached"}]
  /\ source \in [Workflows -> Shares \cup {None}]
  /\ version \in [Workflows -> 0..MaxVersion]
  /\ from \in [Shares -> Workflows \cup {None}]
  /\ status \in [Shares -> {"none", "active", "revoked"}]
  /\ number \in [Shares -> 0..MaxVersion]
  /\ snapshot \in [Shares -> Contents \cup {None}]
  /\ about \in [Posts -> Workflows \cup {None}]
  /\ post \in [Posts -> {"none", "active", "banned", "deleted"}]
  /\ published \in [Posts -> Contents \cup {None}]
  /\ refs \in [Scopes -> SUBSET Files]
  /\ credits \in [Users -> Nat]
  /\ call \in [Calls -> CallRecord]
  /\ issued \in [Shares -> [Versions -> Contents \cup {None}]]
  /\ edited \subseteq Workflows

(* Nothing is shown of a deleted workflow: a share or a publication that    *)
(* read the workflow before its deletion does not come back with an active *)
(* link or post after it (ShareWorkflow and PublishCommunityWorkflow against *)
(* DeleteWorkflowWithInput).                                               *)
ShownIsLive ==
  /\ \A s \in Shares : status[s] = "active" => Live(from[s])
  /\ \A p \in Posts : post[p] \in {"active", "banned"} => Live(about[p])

(* Every live workflow, active share and post that is not deleted holds     *)
(* references to exactly the files of what it shows, and nothing else does: *)
(* CloudFiles keeps what is referenced and reclaims what is not.           *)
ReferencesMatch ==
  /\ \A w \in Workflows : refs[w] = IF Live(w) THEN FilesOf[content[w]] ELSE {}
  /\ \A s \in Shares : refs[s] = IF status[s] = "active" THEN FilesOf[snapshot[s]] ELSE {}
  /\ \A p \in Posts :
       refs[p] = IF post[p] \in {"active", "banned"} THEN FilesOf[published[p]] ELSE {}

(* The source_version of a linked copy names what it holds: unless its owner *)
(* edited it since, that is the snapshot its share had under that version,  *)
(* however updates, pushes and the making of the copy overlap.             *)
CopiesHoldTheirVersion ==
  \A w \in Workflows :
    Live(w) /\ source[w] # None /\ w \notin edited => content[w] = issued[source[w]][version[w]]

(* A copy never goes back to an earlier version (pushLinkedShareUpdates,   *)
(* when the pushes of two updates overtake each other).                    *)
CopiesNeverGoBack == [][\A w \in Workflows : version'[w] >= version[w]]_vars

(* A revoked link stays revoked: an update of the share that read it as    *)
(* active does not write it back (ShareWorkflow against                    *)
(* RevokeWorkflowShare).                                                   *)
RevocationsHold == [][\A s \in Shares : status[s] = "revoked" => status'[s] = "revoked"]_vars

(* Calls, races and failures do to a link and its copies what ShareHistory   *)
(* says: a version is never issued twice or skipped, a copy holds a        *)
(* snapshot of its link's history until its owner writes over it, and a    *)
(* linked one only moves forward (ShareWorkflow, CopyWorkflowShare and     *)
(* pushLinkedShareUpdates).                                                *)
History == INSTANCE ShareHistory WITH
             link <- status,
             history <- [s \in Shares |-> [v \in 1..number[s] |-> issued[s][v]]]
HistorySpec == History!Spec

(* A ban is undone by no update of the post that was under way: the post is *)
(* banned until it is deleted (Publish- and SyncCommunityWorkflow against   *)
(* AdminBanCommunityWorkflow).                                             *)
BansHold == [][\A p \in Posts : post[p] = "banned" => post'[p] \in {"banned", "deleted"}]_vars

=============================================================================
