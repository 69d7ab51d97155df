------------------------ MODULE WorkflowSharesProofs ------------------------
(***************************************************************************)
(* Theorems of WorkflowShares for any number of users, rows and calls.     *)
(***************************************************************************)
EXTENDS WorkflowShares, SequenceTheorems, TLAPS

(* Rows of the three tables refer to rows that were made: a share and a     *)
(* post to their workflow, a copy to a version its share has had.          *)
RowsMade ==
  /\ \A w \in Workflows :
       /\ life[w] = "none" => source[w] = None /\ version[w] = 0 /\ w \notin edited
       /\ life[w] # "none" => content[w] \in Contents
       /\ source[w] # None => /\ status[source[w]] # "none"
                              /\ version[w] \in 1..number[source[w]]
  /\ \A s \in Shares : status[s] = "none" => from[s] = None
  /\ \A s \in Shares : status[s] # "none" => /\ from[s] \in Workflows
                                             /\ life[from[s]] # "none"
                                             /\ number[s] \in Versions
                                             /\ snapshot[s] \in Contents
                                             /\ snapshot[s] = issued[s][number[s]]
  /\ \A p \in Posts : post[p] = "none" => about[p] = None
  /\ \A p \in Posts : post[p] # "none" => /\ about[p] \in Workflows
                                          /\ life[about[p]] # "none"
                                          /\ published[p] \in Contents

(* What a call has read may be out of date, but was true once: a share it   *)
(* pushes or copies had that snapshot under that version.                  *)
HasRead(r) ==
  /\ r.step \in {"sharing", "updating", "publishing", "posting"} =>
       r.wf \in Workflows /\ life[r.wf] # "none" /\ r.content \in Contents
  /\ r.step \in {"sharing", "publishing"} => r.of = None
  /\ r.step = "syncing" => /\ r.of \in Posts /\ r.wf \in Workflows
                           /\ post[r.of] # "none" /\ about[r.of] = r.wf
  /\ r.step = "posting" /\ r.of # None => /\ r.of \in Posts
                                          /\ post[r.of] # "none" /\ about[r.of] = r.wf
  /\ r.step = "updating" => r.version \in Nat \ {0}
  /\ r.step = "updating" /\ r.of = None => r.version = 1
  /\ r.step = "updating" /\ r.of # None => /\ r.of \in Shares
                                           /\ status[r.of] # "none" /\ from[r.of] = r.wf
  /\ r.step \in {"listing", "pushing", "copying"} => /\ r.of \in Shares
                                                     /\ status[r.of] # "none"
                                                     /\ r.version \in 1..number[r.of]
                                                     /\ r.content = issued[r.of][r.version]
                                                     /\ r.content \in Contents
  /\ r.step = "pushing" => r.todo \subseteq LinkedCopies(r.of)

CallsHaveRead == \A c \in Calls : HasRead(call[c])

(* What no step takes back: rows that were made, the workflow of a share or *)
(* post, the versions a share has had.                                     *)
RowsStay ==
  /\ \A w \in Workflows : life[w] # "none" => /\ life'[w] # "none"
                                             /\ source'[w] = source[w]
                                             /\ mode'[w] = mode[w]
  /\ \A s \in Shares : status[s] # "none" =>
       /\ status'[s] # "none" /\ from'[s] = from[s] /\ number'[s] >= number[s]
       /\ \A v \in 1..number[s] : issued'[s][v] = issued[s][v]
  /\ \A p \in Posts : post[p] # "none" => post'[p] # "none" /\ about'[p] = about[p]

(* What the three saving transactions change, row by row: a workflow is     *)
(* made, a share saved under version n, a post saved.                      *)
WorkflowMade(w, k, m, s, n) ==
  /\ life[w] = "none" /\ life'[w] = "live"
  /\ content'[w] = k /\ mode'[w] = m /\ source'[w] = s /\ version'[w] = n
  /\ \A v \in Workflows \ {w} :
       /\ life'[v] = life[v] /\ content'[v] = content[v] /\ mode'[v] = mode[v]
       /\ source'[v] = source[v] /\ version'[v] = version[v]
  /\ UNCHANGED <<edited, from, status, number, snapshot, issued, about, post, published>>
ShareSaved(t, w, k, n) ==
  /\ from'[t] = w /\ status'[t] = "active" /\ number'[t] = n /\ snapshot'[t] = k
  /\ n \in Versions /\ issued'[t][n] = k
  /\ \A v \in Versions \ {n} : issued'[t][v] = issued[t][v]
  /\ \A s \in Shares \ {t} :
       /\ from'[s] = from[s] /\ status'[s] = status[s] /\ number'[s] = number[s]
       /\ snapshot'[s] = snapshot[s] /\ issued'[s] = issued[s]
  /\ UNCHANGED <<life, content, mode, source, version, edited, about, post, published>>
PostSaved(p, w, k) ==
  /\ about'[p] = w /\ post'[p] = "active" /\ published'[p] = k
  /\ \A q \in Posts \ {p} :
       about'[q] = about[q] /\ post'[q] = post[q] /\ published'[q] = published[q]
  /\ UNCHANGED <<life, content, mode, source, version, edited, from, status, number, snapshot,
                 issued>>

LEMMA WorkflowIsMade ==
  ASSUME TypeOK, NEW u, NEW w \in Workflows, NEW k, NEW m, NEW s, NEW n,
         NewWorkflow(u, w, k, m, s, n), UNCHANGED <<edited, shareVars, postVars>>
  PROVE  WorkflowMade(w, k, m, s, n)
<1>1. /\ life[w] = "none"
      /\ life' = [life EXCEPT ![w] = "live"] /\ content' = [content EXCEPT ![w] = k]
      /\ mode' = [mode EXCEPT ![w] = m] /\ source' = [source EXCEPT ![w] = s]
      /\ version' = [version EXCEPT ![w] = n]
  BY DEF NewWorkflow
<1>2. /\ DOMAIN life = Workflows /\ DOMAIN content = Workflows /\ DOMAIN mode = Workflows
      /\ DOMAIN source = Workflows /\ DOMAIN version = Workflows
  BY DEF TypeOK
<1>3. /\ life'[w] = "live" /\ \A v \in Workflows \ {w} : life'[v] = life[v]
      /\ content'[w] = k /\ \A v \in Workflows \ {w} : content'[v] = content[v]
  BY <1>1, <1>2
<1>4. /\ mode'[w] = m /\ \A v \in Workflows \ {w} : mode'[v] = mode[v]
      /\ source'[w] = s /\ \A v \in Workflows \ {w} : source'[v] = source[v]
      /\ version'[w] = n /\ \A v \in Workflows \ {w} : version'[v] = version[v]
  BY <1>1, <1>2
<1> QED BY <1>1, <1>3, <1>4 DEF WorkflowMade, shareVars, postVars

LEMMA ShareIsSaved ==
  ASSUME TypeOK, NEW r \in CallRecord, NEW t \in Shares, WriteShare(r, t)
  PROVE  ShareSaved(t, r.wf, r.content, r.version)
<1>1. /\ r.version \in Versions
      /\ from' = [from EXCEPT ![t] = r.wf] /\ status' = [status EXCEPT ![t] = "active"]
      /\ number' = [number EXCEPT ![t] = r.version] /\ snapshot' = [snapshot EXCEPT ![t] = r.content]
      /\ issued' = [issued EXCEPT ![t] = [issued[t] EXCEPT ![r.version] = r.content]]
      /\ UNCHANGED <<workflowVars, postVars>>
  BY DEF WriteShare
<1>2. /\ DOMAIN from = Shares /\ DOMAIN status = Shares /\ DOMAIN number = Shares
      /\ DOMAIN snapshot = Shares /\ DOMAIN issued = Shares /\ DOMAIN issued[t] = Versions
  BY DEF TypeOK
<1>3. /\ from'[t] = r.wf /\ \A s \in Shares \ {t} : from'[s] = from[s]
      /\ status'[t] = "active" /\ \A s \in Shares \ {t} : status'[s] = status[s]
      /\ number'[t] = r.version /\ \A s \in Shares \ {t} : number'[s] = number[s]
  BY <1>1, <1>2
<1>4. /\ snapshot'[t] = r.content /\ \A s \in Shares \ {t} : snapshot'[s] = snapshot[s]
      /\ issued'[t] = [issued[t] EXCEPT ![r.version] = r.content]
      /\ \A s \in Shares \ {t} : issued'[s] = issued[s]
  BY <1>1, <1>2
<1>5. /\ issued'[t][r.version] = r.content
      /\ \A v \in Versions \ {r.version} : issued'[t][v] = issued[t][v]
  BY <1>1, <1>2, <1>4
<1> QED BY <1>1, <1>3, <1>4, <1>5 DEF ShareSaved, workflowVars, postVars

LEMMA PostIsSaved ==
  ASSUME TypeOK, NEW r \in CallRecord, NEW p \in Posts, WritePost(r, p)
  PROVE  PostSaved(p, r.wf, r.content)
<1>1. /\ about' = [about EXCEPT ![p] = r.wf] /\ post' = [post EXCEPT ![p] = "active"]
      /\ published' = [published EXCEPT ![p] = r.content]
      /\ UNCHANGED <<workflowVars, shareVars>>
  BY DEF WritePost
<1>2. DOMAIN about = Posts /\ DOMAIN post = Posts /\ DOMAIN published = Posts
  BY DEF TypeOK
<1>3. /\ about'[p] = r.wf /\ \A q \in Posts \ {p} : about'[q] = about[q]
      /\ post'[p] = "active" /\ \A q \in Posts \ {p} : post'[q] = post[q]
      /\ published'[p] = r.content /\ \A q \in Posts \ {p} : published'[q] = published[q]
  BY <1>1, <1>2
<1> QED BY <1>1, <1>3 DEF PostSaved, workflowVars, shareVars

(* What was made, saved or posted, in the words of the four calls.          *)
LEMMA CreateMakes ==
  ASSUME TypeOK, NEW w \in Workflows, NEW k, NEW u, CreateWorkflow(u, w, k)
  PROVE  WorkflowMade(w, k, "none", None, 0)
BY WorkflowIsMade DEF CreateWorkflow

(* A copy is made of a share that was made, under a version it has had.     *)
LEMMA CopyMakes ==
  ASSUME TypeOK, CallsHaveRead, NEW c \in Calls, NEW u, NEW w \in Workflows, NEW m,
         CopyShare(c, u, w, m)
  PROVE  /\ WorkflowMade(w, call[c].content, m, call[c].of, call[c].version)
         /\ call[c].of \in Shares /\ status[call[c].of] # "none"
         /\ call[c].version \in 1..number[call[c].of] /\ call[c].content \in Contents
         /\ call[c].content = issued[call[c].of][call[c].version]
<1>1. WorkflowMade(w, call[c].content, m, call[c].of, call[c].version)
  BY WorkflowIsMade DEF CopyShare
<1>2. HasRead(call[c]) /\ call[c].step = "copying"
  BY DEF CopyShare, CallsHaveRead
<1> QED BY <1>1, <1>2 DEF HasRead

LEMMA NewShareSaves ==
  ASSUME TypeOK, CallsHaveRead, NEW c \in Calls, NEW s \in Shares, SaveNewShare(c, s)
  PROVE  /\ ShareSaved(s, call[c].wf, call[c].content, call[c].version)
         /\ status[s] = "none" /\ call[c].wf \in Workflows /\ Live(call[c].wf)
         /\ call[c].content \in Contents
<1>1. call[c] \in CallRecord /\ HasRead(call[c])
  BY DEF TypeOK, CallsHaveRead
<1>2. WriteShare(call[c], s) /\ call[c].step = "updating" /\ status[s] = "none"
  BY DEF SaveNewShare
<1>3. ShareSaved(s, call[c].wf, call[c].content, call[c].version)
  BY <1>1, <1>2, ShareIsSaved
<1> QED BY <1>1, <1>2, <1>3 DEF HasRead, WriteShare, SourceLive

LEMMA ShareSaves ==
  ASSUME TypeOK, CallsHaveRead, NEW c \in Calls, SaveShare(c)
  PROVE  /\ ShareSaved(call[c].of, call[c].wf, call[c].content, call[c].version)
         /\ call[c].of \in Shares /\ status[call[c].of] = "active"
         /\ from[call[c].of] = call[c].wf /\ number[call[c].of] \in Nat
         /\ call[c].version = number[call[c].of] + 1
         /\ call[c].wf \in Workflows /\ Live(call[c].wf) /\ call[c].content \in Contents
<1>1. call[c] \in CallRecord /\ HasRead(call[c])
  BY DEF TypeOK, CallsHaveRead
<1>2. /\ WriteShare(call[c], call[c].of) /\ call[c].step = "updating" /\ call[c].of # None
      /\ StillCurrent(call[c].of, call[c].version - 1)
  BY DEF SaveShare
<1>3. /\ call[c].of \in Shares /\ from[call[c].of] = call[c].wf /\ call[c].version \in Nat \ {0}
      /\ call[c].wf \in Workflows /\ call[c].content \in Contents
  BY <1>1, <1>2 DEF HasRead
<1>4. ShareSaved(call[c].of, call[c].wf, call[c].content, call[c].version)
  BY <1>1, <1>2, <1>3, ShareIsSaved
<1>5. Live(call[c].wf)
  BY <1>2 DEF WriteShare, SourceLive
<1>6. status[call[c].of] = "active" /\ number[call[c].of] = call[c].version - 1
  BY <1>2 DEF StillCurrent
<1> QED BY <1>3, <1>4, <1>5, <1>6

LEMMA NewPostSaves ==
  ASSUME TypeOK, CallsHaveRead, NEW c \in Calls, NEW p \in Posts, SaveNewPost(c, p)
  PROVE  /\ PostSaved(p, call[c].wf, call[c].content) /\ post[p] = "none"
         /\ call[c].wf \in Workflows /\ Live(call[c].wf) /\ call[c].content \in Contents
<1>1. call[c] \in CallRecord /\ HasRead(call[c])
  BY DEF TypeOK, CallsHaveRead
<1>2. WritePost(call[c], p) /\ call[c].step = "posting" /\ post[p] = "none"
  BY DEF SaveNewPost
<1>3. PostSaved(p, call[c].wf, call[c].content)
  BY <1>1, <1>2, PostIsSaved
<1> QED BY <1>1, <1>2, <1>3 DEF HasRead, WritePost, SourceLive

LEMMA PostSaves ==
  ASSUME TypeOK, CallsHaveRead, NEW c \in Calls, SavePost(c)
  PROVE  /\ PostSaved(call[c].of, call[c].wf, call[c].content)
         /\ call[c].of \in Posts /\ post[call[c].of] = "active"
         /\ about[call[c].of] = call[c].wf
         /\ call[c].wf \in Workflows /\ Live(call[c].wf) /\ call[c].content \in Contents
<1>1. call[c] \in CallRecord /\ HasRead(call[c])
  BY DEF TypeOK, CallsHaveRead
<1>2. /\ WritePost(call[c], call[c].of) /\ call[c].step = "posting" /\ call[c].of # None
      /\ post[call[c].of] = "active"
  BY DEF SavePost, StillPosted
<1>3. /\ call[c].of \in Posts /\ about[call[c].of] = call[c].wf
      /\ call[c].wf \in Workflows /\ call[c].content \in Contents
  BY <1>1, <1>2 DEF HasRead
<1>4. PostSaved(call[c].of, call[c].wf, call[c].content)
  BY <1>1, <1>2, <1>3, PostIsSaved
<1> QED BY <1>2, <1>3, <1>4 DEF WritePost, SourceLive

(* What was read stays true of the state it was read from.                 *)
LEMMA ReadStays ==
  ASSUME TypeOK, TypeOK', RowsMade, RowsStay, NEW r \in CallRecord, HasRead(r)
  PROVE  HasRead(r)'
<1>1. CASE r.step \in {"sharing", "updating", "publishing", "posting", "syncing"}
  BY <1>1, RowAssumption DEF RowsStay, HasRead, TypeOK, Scopes
<1>2. CASE r.step \in {"listing", "pushing", "copying"}
  <2>1. /\ r.of \in Shares /\ status'[r.of] # "none" /\ r.version \in 1..number'[r.of]
        /\ r.content = issued'[r.of][r.version] /\ r.content \in Contents
    <3>1. number[r.of] \in Nat /\ number'[r.of] \in Nat
      BY <1>2 DEF HasRead, TypeOK
    <3> QED BY <1>2, <3>1 DEF HasRead, RowsStay
  <2>2. LinkedCopies(r.of) \subseteq LinkedCopies(r.of)'
    <3>1. r.of # None
      BY <2>1, RowAssumption DEF Scopes
    <3> QED BY <3>1 DEF LinkedCopies, RowsMade, RowsStay
  <2> QED BY <1>2, <2>1, <2>2 DEF HasRead
<1>3. CASE r.step = "idle"
  BY <1>3 DEF HasRead
<1> QED BY <1>1, <1>2, <1>3 DEF CallRecord, Steps

(* A step of call c ends in a call that has read what it says it has.      *)
LEMMA CallStep ==
  ASSUME TypeOK, TypeOK', RowsMade, RowsStay, CallsHaveRead,
         NEW c \in Calls, NEW r \in CallRecord, HasRead(r)',
         call' = [call EXCEPT ![c] = r]
  PROVE  CallsHaveRead'
<1> SUFFICES ASSUME NEW d \in Calls PROVE HasRead(call[d])'
  BY DEF CallsHaveRead
<1>1. CASE d = c
  <2>1. call'[d] = r
    BY <1>1 DEF TypeOK
  <2> QED BY <2>1 DEF HasRead
<1>2. CASE d # c
  <2>1. call'[d] = call[d] /\ call[d] \in CallRecord /\ HasRead(call[d])
    BY <1>2 DEF TypeOK, CallsHaveRead
  <2>2. \A q \in CallRecord : HasRead(q) => HasRead(q)'
    BY ReadStays
  <2> QED BY <2>1, <2>2 DEF HasRead
<1> QED BY <1>1, <1>2

LEMMA CallsUntouched ==
  ASSUME TypeOK, TypeOK', RowsMade, RowsStay, CallsHaveRead, call' = call
  PROVE  CallsHaveRead'
<1>1. \A q \in CallRecord : HasRead(q) => HasRead(q)'
  BY ReadStays
<1>2. \A d \in Calls : call[d] \in CallRecord /\ HasRead(call[d])
  BY DEF TypeOK, CallsHaveRead
<1> QED BY <1>1, <1>2 DEF CallsHaveRead, HasRead

(* The records that calls hold. *)
LEMMA IdleRecord == Idle \in CallRecord
BY DEF Idle, CallRecord, Steps

(* A step of call c that changes nothing else. *)
LEMMA OnlyCall ==
  ASSUME TypeOK, NEW c \in Calls, NEW r \in CallRecord, Goto(c, r),
         UNCHANGED <<workflowVars, shareVars, postVars, refs, credits>>
  PROVE  TypeOK'
<1>1. call' \in [Calls -> CallRecord]
  BY DEF Goto, TypeOK
<1> QED BY <1>1 DEF TypeOK, workflowVars, shareVars, postVars

(* The row of a share, written whole. *)
LEMMA WriteShareTypes ==
  ASSUME TypeOK, NEW r \in CallRecord, NEW t \in Shares, WriteShare(r, t),
         r.wf \in Workflows, r.content \in Contents, call' \in [Calls -> CallRecord]
  PROVE  TypeOK'
<1>1. /\ r.version \in Versions
      /\ from' = [from EXCEPT ![t] = r.wf] /\ status' = [status EXCEPT ![t] = "active"]
      /\ number' = [number EXCEPT ![t] = r.version] /\ snapshot' = [snapshot EXCEPT ![t] = r.content]
      /\ issued' = [issued EXCEPT ![t] = [issued[t] EXCEPT ![r.version] = r.content]]
      /\ refs' = Bind(t, r.content)
      /\ UNCHANGED <<workflowVars, postVars, credits>>
  BY DEF WriteShare
<1>2. /\ from' \in [Shares -> Workflows \cup {None}]
      /\ status' \in [Shares -> {"none", "active", "revoked"}]
      /\ snapshot' \in [Shares -> Contents \cup {None}]
  BY <1>1 DEF TypeOK
<1>3. number' \in [Shares -> 0..MaxVersion]
  <2>1. r.version \in 0..MaxVersion
    BY <1>1, ContentAssumption DEF Versions
  <2> QED BY <1>1, <2>1 DEF TypeOK
<1>4. issued' \in [Shares -> [Versions -> Contents \cup {None}]]
  <2>1. [issued[t] EXCEPT ![r.version] = r.content] \in [Versions -> Contents \cup {None}]
    BY DEF TypeOK
  <2> QED BY <1>1, <2>1 DEF TypeOK
<1>5. refs' \in [Scopes -> SUBSET Files]
  <2>1. FilesOf[r.content] \subseteq Files
    BY ContentAssumption DEF Files
  <2> QED BY <1>1, <2>1 DEF TypeOK, Bind
<1> QED BY <1>1, <1>2, <1>3, <1>4, <1>5 DEF TypeOK, workflowVars, postVars

(* Every step keeps the types; a call's own rows and content have theirs.  *)
LEMMA TypeStep ==
  ASSUME TypeOK, RowsMade, CallsHaveRead, [Next]_vars
  PROVE  TypeOK'
<1>0. /\ \A k \in Contents : FilesOf[k] \subseteq Files
      /\ \A c \in Calls : call[c] \in CallRecord /\ HasRead(call[c])
      /\ \A w \in Workflows : content[w] \in Contents \cup {None}
      /\ \A s \in Shares : number[s] \in Nat /\ number[s] + 1 \in Nat
      /\ \A s \in Shares : snapshot[s] \in Contents \cup {None}
      /\ \A p \in Posts : about[p] \in Workflows \cup {None}
  BY ContentAssumption DEF Files, TypeOK, CallsHaveRead
<1>1. ASSUME NEW w \in Workflows, NEW k \in Contents, NEW u \in Users, CreateWorkflow(u, w, k)
  PROVE TypeOK'
  BY <1>0, <1>1, RowAssumption, ContentAssumption
     DEF CreateWorkflow, NewWorkflow, HasCredit, Bind, TypeOK, Scopes, Versions, workflowVars,
         shareVars, postVars
<1>2. ASSUME NEW w \in Workflows, NEW k \in Contents, UpdateWorkflow(w, k) PROVE TypeOK'
  BY <1>0, <1>2, RowAssumption, ContentAssumption
     DEF UpdateWorkflow, Bind, TypeOK, Scopes, Versions, workflowVars, shareVars, postVars
<1>3. ASSUME NEW w \in Workflows, DeleteWorkflow(w) PROVE TypeOK'
  BY <1>0, <1>3, RowAssumption, ContentAssumption
     DEF DeleteWorkflow, Release, TypeOK, Scopes, Versions, workflowVars, shareVars, postVars
<1>4. ASSUME NEW s \in Shares, RevokeShare(s) PROVE TypeOK'
  BY <1>0, <1>4, RowAssumption, ContentAssumption
     DEF RevokeShare, Release, TypeOK, Scopes, Versions, workflowVars, shareVars, postVars
<1>5. ASSUME NEW p \in Posts, BanPost(p) PROVE TypeOK'
  BY <1>0, <1>5, RowAssumption, ContentAssumption
     DEF BanPost, TypeOK, Scopes, Versions, workflowVars, shareVars, postVars
<1>6. ASSUME NEW p \in Posts, DeletePost(p) PROVE TypeOK'
  BY <1>0, <1>6, RowAssumption, ContentAssumption
     DEF DeletePost, Release, TypeOK, Scopes, Versions, workflowVars, shareVars, postVars
<1>7. ASSUME NEW c \in Calls, NEW w \in Workflows, ReadSource(c, w) PROVE TypeOK'
  <2>1. [Idle EXCEPT !.step = "sharing", !.wf = w, !.content = content[w]] \in CallRecord
    BY <1>0, IdleRecord DEF CallRecord, Steps
  <2>2. Goto(c, [Idle EXCEPT !.step = "sharing", !.wf = w, !.content = content[w]])
    BY <1>7 DEF ReadSource
  <2>3. UNCHANGED <<workflowVars, shareVars, postVars, refs, credits>>
    BY <1>7 DEF ReadSource
  <2> QED BY <2>1, <2>2, <2>3, OnlyCall
<1>8. ASSUME NEW c \in Calls, ReadNoShare(c) PROVE TypeOK'
  <2>1. [call[c] EXCEPT !.step = "updating", !.version = 1] \in CallRecord
    BY <1>0, IdleRecord DEF CallRecord, Steps
  <2>2. Goto(c, [call[c] EXCEPT !.step = "updating", !.version = 1])
    BY <1>8 DEF ReadNoShare
  <2>3. UNCHANGED <<workflowVars, shareVars, postVars, refs, credits>>
    BY <1>8 DEF ReadNoShare
  <2> QED BY <2>1, <2>2, <2>3, OnlyCall
<1>9. ASSUME NEW c \in Calls, NEW s \in Shares, ReadShare(c, s) PROVE TypeOK'
  <2>1. [call[c] EXCEPT !.step = "updating", !.of = s, !.version = number[s] + 1] \in CallRecord
    BY <1>0, IdleRecord DEF CallRecord, Steps
  <2>2. Goto(c, [call[c] EXCEPT !.step = "updating", !.of = s, !.version = number[s] + 1])
    BY <1>9 DEF ReadShare
  <2>3. UNCHANGED <<workflowVars, shareVars, postVars, refs, credits>>
    BY <1>9 DEF ReadShare
  <2> QED BY <2>1, <2>2, <2>3, OnlyCall
<1>10. ASSUME NEW c \in Calls, ListCopies(c) PROVE TypeOK'
  <2>1. [call[c] EXCEPT !.step = "pushing", !.todo = LinkedCopies(call[c].of)] \in CallRecord
    BY <1>0 DEF CallRecord, Steps, LinkedCopies
  <2>2. Goto(c, [call[c] EXCEPT !.step = "pushing", !.todo = LinkedCopies(call[c].of)])
    BY <1>10 DEF ListCopies
  <2>3. UNCHANGED <<workflowVars, shareVars, postVars, refs, credits>>
    BY <1>10 DEF ListCopies
  <2> QED BY <2>1, <2>2, <2>3, OnlyCall
<1>11. ASSUME NEW c \in Calls, PushEnds(c) PROVE TypeOK'
  <2>1. Idle \in CallRecord
    BY <1>0, IdleRecord DEF CallRecord, Steps
  <2>2. Goto(c, Idle)
    BY <1>11 DEF PushEnds, Return
  <2>3. UNCHANGED <<workflowVars, shareVars, postVars, refs, credits>>
    BY <1>11 DEF PushEnds
  <2> QED BY <2>1, <2>2, <2>3, OnlyCall
<1>12. ASSUME NEW c \in Calls, NEW s \in Shares, ReadShareToCopy(c, s) PROVE TypeOK'
  <2>1. [Idle EXCEPT !.step = "copying", !.of = s, !.content = snapshot[s],
                    !.version = number[s]] \in CallRecord
    BY <1>0, IdleRecord DEF CallRecord, Steps
  <2>2. Goto(c, [Idle EXCEPT !.step = "copying", !.of = s, !.content = snapshot[s],
                    !.version = number[s]])
    BY <1>12 DEF ReadShareToCopy
  <2>3. UNCHANGED <<workflowVars, shareVars, postVars, refs, credits>>
    BY <1>12 DEF ReadShareToCopy
  <2> QED BY <2>1, <2>2, <2>3, OnlyCall
<1>13. ASSUME NEW c \in Calls, NEW w \in Workflows, ReadWorkflowToPublish(c, w) PROVE TypeOK'
  <2>1. [Idle EXCEPT !.step = "publishing", !.wf = w, !.content = content[w]] \in CallRecord
    BY <1>0, IdleRecord DEF CallRecord, Steps
  <2>2. Goto(c, [Idle EXCEPT !.step = "publishing", !.wf = w, !.content = content[w]])
    BY <1>13 DEF ReadWorkflowToPublish
  <2>3. UNCHANGED <<workflowVars, shareVars, postVars, refs, credits>>
    BY <1>13 DEF ReadWorkflowToPublish
  <2> QED BY <2>1, <2>2, <2>3, OnlyCall
<1>14. ASSUME NEW c \in Calls, ReadNoPost(c) PROVE TypeOK'
  <2>1. [call[c] EXCEPT !.step = "posting"] \in CallRecord
    BY <1>0, IdleRecord DEF CallRecord, Steps
  <2>2. Goto(c, [call[c] EXCEPT !.step = "posting"])
    BY <1>14 DEF ReadNoPost
  <2>3. UNCHANGED <<workflowVars, shareVars, postVars, refs, credits>>
    BY <1>14 DEF ReadNoPost
  <2> QED BY <2>1, <2>2, <2>3, OnlyCall
<1>15. ASSUME NEW c \in Calls, NEW p \in Posts, ReadPost(c, p) PROVE TypeOK'
  <2>1. (IF post[p] = "banned" THEN Idle ELSE [call[c] EXCEPT !.step = "posting",
      !.of = p]) \in CallRecord
    BY <1>0, IdleRecord DEF CallRecord, Steps
  <2>2. Goto(c, (IF post[p] = "banned" THEN Idle ELSE [call[c] EXCEPT !.step = "posting",
      !.of = p]))
    BY <1>15 DEF ReadPost
  <2>3. UNCHANGED <<workflowVars, shareVars, postVars, refs, credits>>
    BY <1>15 DEF ReadPost
  <2> QED BY <2>1, <2>2, <2>3, OnlyCall
<1>16. ASSUME NEW c \in Calls, NEW p \in Posts, ReadPostToSync(c, p) PROVE TypeOK'
  <2>1. [Idle EXCEPT !.step = "syncing", !.of = p, !.wf = about[p]] \in CallRecord
    BY <1>0, IdleRecord DEF CallRecord, Steps
  <2>2. Goto(c, [Idle EXCEPT !.step = "syncing", !.of = p, !.wf = about[p]])
    BY <1>16 DEF ReadPostToSync
  <2>3. UNCHANGED <<workflowVars, shareVars, postVars, refs, credits>>
    BY <1>16 DEF ReadPostToSync
  <2> QED BY <2>1, <2>2, <2>3, OnlyCall
<1>17. ASSUME NEW c \in Calls, ReadWorkflowToSync(c) PROVE TypeOK'
  <2>1. call[c].wf \in Workflows
    BY <1>0, <1>17 DEF ReadWorkflowToSync, HasRead
  <2>2. [call[c] EXCEPT !.step = "posting", !.content = content[call[c].wf]] \in CallRecord
    BY <1>0, <2>1 DEF CallRecord, Steps
  <2>3. /\ Goto(c, [call[c] EXCEPT !.step = "posting", !.content = content[call[c].wf]])
        /\ UNCHANGED <<workflowVars, shareVars, postVars, refs, credits>>
    BY <1>17 DEF ReadWorkflowToSync
  <2> QED BY <2>2, <2>3, OnlyCall
<1>18. ASSUME NEW c \in Calls, CallFails(c) PROVE TypeOK'
  <2>1. Idle \in CallRecord
    BY <1>0, IdleRecord DEF CallRecord, Steps
  <2>2. Goto(c, Idle)
    BY <1>18 DEF CallFails, Return
  <2>3. UNCHANGED <<workflowVars, shareVars, postVars, refs, credits>>
    BY <1>18 DEF CallFails
  <2> QED BY <2>1, <2>2, <2>3, OnlyCall
<1>19. ASSUME NEW c \in Calls, NEW s \in Shares, SaveNewShare(c, s) PROVE TypeOK'
  <2>1. Idle \in CallRecord
    BY <1>0, IdleRecord DEF CallRecord, Steps
  <2>2. call' = [call EXCEPT ![c] = Idle]
    BY <1>19 DEF SaveNewShare, Goto, Return
  <2>3. call' \in [Calls -> CallRecord]
    BY <2>1, <2>2 DEF TypeOK
  <2>4. /\ WriteShare(call[c], s) /\ s \in Shares /\ call[c] \in CallRecord
        /\ call[c].wf \in Workflows /\ call[c].content \in Contents
    BY <1>0, <1>19 DEF SaveNewShare, HasRead
  <2> QED BY <2>3, <2>4, WriteShareTypes
<1>20. ASSUME NEW c \in Calls, SaveShare(c) PROVE TypeOK'
  <2>1. [call[c] EXCEPT !.step = "listing"] \in CallRecord
    BY <1>0, IdleRecord DEF CallRecord, Steps
  <2>2. call' = [call EXCEPT ![c] = [call[c] EXCEPT !.step = "listing"]]
    BY <1>20 DEF SaveShare, Goto, Return
  <2>3. call' \in [Calls -> CallRecord]
    BY <2>1, <2>2 DEF TypeOK
  <2>4. /\ WriteShare(call[c], call[c].of) /\ call[c].of \in Shares /\ call[c] \in CallRecord
        /\ call[c].wf \in Workflows /\ call[c].content \in Contents
    BY <1>0, <1>20 DEF SaveShare, HasRead
  <2> QED BY <2>3, <2>4, WriteShareTypes
<1>21. ASSUME NEW c \in Calls, NEW w \in Workflows, PushCopy(c, w) PROVE TypeOK'
  <2>1. [call[c] EXCEPT !.todo = @ \ {w}] \in CallRecord
    BY <1>0 DEF CallRecord
  <2>2. call' = [call EXCEPT ![c] = [call[c] EXCEPT !.todo = @ \ {w}]]
    BY <1>21 DEF PushCopy, Goto, Return
  <2>3. call' \in [Calls -> CallRecord]
    BY <2>1, <2>2 DEF TypeOK
  <2> QED
    BY <1>0, <1>21, <2>3, RowAssumption, ContentAssumption
       DEF PushCopy, Bind, HasRead, TypeOK, Scopes, Versions, CallRecord, workflowVars,
           shareVars, postVars
<1>22. ASSUME NEW c \in Calls, NEW u \in Users, NEW w \in Workflows,
               NEW m \in {"linked", "detached"}, CopyShare(c, u, w, m) PROVE TypeOK'
  <2>1. Idle \in CallRecord
    BY <1>0, IdleRecord DEF CallRecord, Steps
  <2>2. call' = [call EXCEPT ![c] = Idle]
    BY <1>22 DEF CopyShare, Goto, Return
  <2>3. call' \in [Calls -> CallRecord]
    BY <2>1, <2>2 DEF TypeOK
  <2> QED
    BY <1>0, <1>22, <2>3, RowAssumption, ContentAssumption
       DEF CopyShare, NewWorkflow, HasCredit, Bind, HasRead, TypeOK, Scopes, Versions,
           CallRecord, workflowVars, shareVars, postVars
<1>23. ASSUME NEW c \in Calls, NEW p \in Posts, SaveNewPost(c, p) PROVE TypeOK'
  <2>1. Idle \in CallRecord
    BY <1>0, IdleRecord DEF CallRecord, Steps
  <2>2. call' = [call EXCEPT ![c] = Idle]
    BY <1>23 DEF SaveNewPost, Goto, Return
  <2>3. call' \in [Calls -> CallRecord]
    BY <2>1, <2>2 DEF TypeOK
  <2> QED
    BY <1>0, <1>23, <2>3, RowAssumption, ContentAssumption
       DEF SaveNewPost, WritePost, Bind, HasRead, TypeOK, Scopes, Versions, CallRecord,
           workflowVars, shareVars, postVars
<1>24. ASSUME NEW c \in Calls, SavePost(c) PROVE TypeOK'
  <2>1. Idle \in CallRecord
    BY <1>0, IdleRecord DEF CallRecord, Steps
  <2>2. call' = [call EXCEPT ![c] = Idle]
    BY <1>24 DEF SavePost, Goto, Return
  <2>3. call' \in [Calls -> CallRecord]
    BY <2>1, <2>2 DEF TypeOK
  <2> QED
    BY <1>0, <1>24, <2>3, RowAssumption, ContentAssumption
       DEF SavePost, WritePost, Bind, HasRead, TypeOK, Scopes, Versions, CallRecord,
           workflowVars, shareVars, postVars
<1>25. CASE UNCHANGED vars
  BY <1>25 DEF TypeOK, vars, workflowVars, shareVars, postVars
<1> QED
  BY <1>1, <1>2, <1>3, <1>4, <1>5, <1>6, <1>7, <1>8, <1>9, <1>10, <1>11, <1>12, <1>13, <1>14,
     <1>15, <1>16, <1>17, <1>18, <1>19, <1>20, <1>21, <1>22, <1>23, <1>24, <1>25
     DEF Next, WorkflowNext, ShareNext, PostNext
(* A step either writes rows or changes nothing but a call. *)
Writes ==
  \/ \E w \in Workflows, k \in Contents :
       (\E u \in Users : CreateWorkflow(u, w, k)) \/ UpdateWorkflow(w, k)
  \/ \E w \in Workflows : DeleteWorkflow(w)
  \/ \E s \in Shares : RevokeShare(s)
  \/ \E p \in Posts : BanPost(p) \/ DeletePost(p)
  \/ \E c \in Calls :
       \/ \E s \in Shares : SaveNewShare(c, s)
       \/ SaveShare(c)
       \/ \E w \in Workflows : PushCopy(c, w)
       \/ \E u \in Users, w \in Workflows, m \in {"linked", "detached"} : CopyShare(c, u, w, m)
       \/ \E p \in Posts : SaveNewPost(c, p)
       \/ SavePost(c)

Quiet == UNCHANGED <<workflowVars, shareVars, postVars, refs, credits>>

LEMMA StepKinds ==
  ASSUME [Next]_vars
  PROVE  Writes \/ Quiet
BY ZenonT(60) DEF Next, WorkflowNext, ShareNext, PostNext, Writes, Quiet, vars,
       ReadSource, ReadNoShare, ReadShare, ListCopies, PushEnds, ReadShareToCopy,
       ReadWorkflowToPublish, ReadNoPost, ReadPost, ReadPostToSync, ReadWorkflowToSync, CallFails

(* Rows stay. *)
LEMMA StayStep ==
  ASSUME TypeOK, TypeOK', RowsMade, CallsHaveRead, [Next]_vars
  PROVE  RowsStay
<1>0. \A c \in Calls : call[c] \in CallRecord /\ HasRead(call[c])
  BY DEF TypeOK, CallsHaveRead
<1>a. \A s \in Shares : number[s] \in Nat /\ number[s] \in 0..MaxVersion
  BY ContentAssumption DEF TypeOK
<1>1. ASSUME NEW w \in Workflows, NEW k \in Contents, NEW u \in Users, CreateWorkflow(u, w, k)
  PROVE RowsStay
  <2>1. WorkflowMade(w, k, "none", None, 0)
    BY <1>1, CreateMakes
  <2> QED BY <1>a, <2>1 DEF WorkflowMade, RowsStay
<1>2. ASSUME NEW w \in Workflows, NEW k \in Contents, UpdateWorkflow(w, k) PROVE RowsStay
  BY <1>0, <1>2, RowAssumption, ContentAssumption
     DEF UpdateWorkflow, Bind, HasRead, RowsStay,
         Live, TypeOK, Scopes, Versions, workflowVars, shareVars, postVars
<1>3. ASSUME NEW w \in Workflows, DeleteWorkflow(w) PROVE RowsStay
  BY <1>0, <1>3, RowAssumption, ContentAssumption
     DEF DeleteWorkflow, Release, ScopesOf, SharesOf, PostsOf, HasRead, RowsStay,
         Live, TypeOK, Scopes, Versions, workflowVars, shareVars, postVars
<1>4. ASSUME NEW s \in Shares, RevokeShare(s) PROVE RowsStay
  BY <1>0, <1>4, RowAssumption, ContentAssumption
     DEF RevokeShare, Release, HasRead, RowsStay,
         Live, TypeOK, Scopes, Versions, workflowVars, shareVars, postVars
<1>5. ASSUME NEW p \in Posts, BanPost(p) PROVE RowsStay
  BY <1>0, <1>5, RowAssumption, ContentAssumption
     DEF BanPost, HasRead, RowsStay,
         Live, TypeOK, Scopes, Versions, workflowVars, shareVars, postVars
<1>6. ASSUME NEW p \in Posts, DeletePost(p) PROVE RowsStay
  BY <1>0, <1>6, RowAssumption, ContentAssumption
     DEF DeletePost, Release, HasRead, RowsStay,
         Live, TypeOK, Scopes, Versions, workflowVars, shareVars, postVars
<1>7. ASSUME NEW c \in Calls, NEW s \in Shares, SaveNewShare(c, s) PROVE RowsStay
  <2>1. ShareSaved(s, call[c].wf, call[c].content, call[c].version) /\ status[s] = "none"
    BY <1>7, NewShareSaves
  <2> QED BY <1>a, <2>1 DEF ShareSaved, RowsStay
<1>8. ASSUME NEW c \in Calls, SaveShare(c) PROVE RowsStay
  <2> DEFINE t == call[c].of
             n == call[c].version
  <2>1. /\ ShareSaved(t, call[c].wf, call[c].content, n)
        /\ t \in Shares /\ from[t] = call[c].wf /\ n = number[t] + 1
    BY <1>8, ShareSaves
  <2> HIDE DEF t, n
  <2>2. number'[t] = number[t] + 1 /\ status'[t] = "active" /\ from'[t] = from[t]
    BY <2>1 DEF ShareSaved
  <2>3. \A v \in 1..number[t] : issued'[t][v] = issued[t][v]
    <3>1. \A v \in 1..number[t] : v \in Versions \ {n}
      BY <1>a, <2>1, ContentAssumption DEF Versions
    <3> QED BY <2>1, <3>1 DEF ShareSaved
  <2>4. \A s \in Shares \ {t} : /\ status'[s] = status[s] /\ from'[s] = from[s]
                                /\ number'[s] = number[s] /\ issued'[s] = issued[s]
    BY <2>1 DEF ShareSaved
  <2>5. UNCHANGED <<life, source, mode, post, about>>
    BY <2>1 DEF ShareSaved
  <2>6. \A s \in Shares : status[s] # "none" =>
          /\ status'[s] # "none" /\ from'[s] = from[s] /\ number'[s] >= number[s]
          /\ \A v \in 1..number[s] : issued'[s][v] = issued[s][v]
    BY <1>a, <2>1, <2>2, <2>3, <2>4
  <2> QED BY <2>5, <2>6 DEF RowsStay
<1>9. ASSUME NEW c \in Calls, NEW w \in Workflows, PushCopy(c, w) PROVE RowsStay
  BY <1>0, <1>9, RowAssumption, ContentAssumption
     DEF PushCopy, Outdated, Bind, LinkedCopies, HasRead, RowsStay,
         Live, TypeOK, Scopes, Versions, workflowVars, shareVars, postVars
<1>10. ASSUME NEW c \in Calls, NEW u \in Users, NEW w \in Workflows,
              NEW m \in {"linked", "detached"}, CopyShare(c, u, w, m) PROVE RowsStay
  <2>1. WorkflowMade(w, call[c].content, m, call[c].of, call[c].version)
    BY <1>10, CopyMakes
  <2> QED BY <1>a, <2>1 DEF WorkflowMade, RowsStay
<1>11. ASSUME NEW c \in Calls, NEW p \in Posts, SaveNewPost(c, p) PROVE RowsStay
  <2>1. PostSaved(p, call[c].wf, call[c].content) /\ post[p] = "none"
    BY <1>11, NewPostSaves
  <2> QED BY <1>a, <2>1 DEF PostSaved, RowsStay
<1>12. ASSUME NEW c \in Calls, SavePost(c) PROVE RowsStay
  <2>1. /\ PostSaved(call[c].of, call[c].wf, call[c].content)
        /\ call[c].of \in Posts /\ about[call[c].of] = call[c].wf
    BY <1>12, PostSaves
  <2> QED BY <1>a, <2>1 DEF PostSaved, RowsStay
<1>13. CASE Quiet
  BY <1>13 DEF Quiet, RowsStay, Live, workflowVars, shareVars, postVars, TypeOK
<1> QED
  BY <1>1, <1>2, <1>3, <1>4, <1>5, <1>6, <1>7, <1>8, <1>9, <1>10, <1>11, <1>12, <1>13, StepKinds
     DEF Writes

(* Rows refer to rows that were made. *)
LEMMA MadeStep ==
  ASSUME TypeOK, TypeOK', RowsMade, CallsHaveRead, [Next]_vars
  PROVE  RowsMade'
<1>0. \A c \in Calls : call[c] \in CallRecord /\ HasRead(call[c])
  BY DEF TypeOK, CallsHaveRead
<1>a. \A s \in Shares : number[s] \in Nat /\ number[s] \in 0..MaxVersion
  BY ContentAssumption DEF TypeOK
<1>1. ASSUME NEW w \in Workflows, NEW k \in Contents, NEW u \in Users, CreateWorkflow(u, w, k)
  PROVE RowsMade'
  <2>1. WorkflowMade(w, k, "none", None, 0)
    BY <1>1, CreateMakes
  <2>2. \A v \in Workflows : v \notin edited \/ life[v] # "none"
    BY DEF RowsMade
  <2>3. \A v \in Workflows :
          /\ life'[v] = "none" => source'[v] = None /\ version'[v] = 0 /\ v \notin edited'
          /\ life'[v] # "none" => content'[v] \in Contents
    BY <2>1, <2>2 DEF WorkflowMade, RowsMade
  <2>4. \A v \in Workflows :
          source'[v] # None => status'[source'[v]] # "none" /\ version'[v] \in 1..number'[source'[v]]
    BY <2>1 DEF WorkflowMade, RowsMade
  <2> QED BY <2>1, <2>3, <2>4 DEF WorkflowMade, RowsMade
<1>2. ASSUME NEW w \in Workflows, NEW k \in Contents, UpdateWorkflow(w, k) PROVE RowsMade'
  BY <1>0, <1>2, RowAssumption, ContentAssumption
     DEF UpdateWorkflow, Bind, HasRead, RowsMade,
         Live, TypeOK, Scopes, Versions, workflowVars, shareVars, postVars
<1>3. ASSUME NEW w \in Workflows, DeleteWorkflow(w) PROVE RowsMade'
  <2>1. /\ life' = [life EXCEPT ![w] = "deleted"] /\ life[w] = "live"
        /\ UNCHANGED <<source, content, version, edited, from, number, snapshot, issued, about,
                       published>>
    BY <1>3 DEF DeleteWorkflow, Live
  <2>2. \A t \in Shares : status'[t] # "none" <=> status[t] # "none"
    BY <1>3, RowAssumption DEF DeleteWorkflow, RowsMade, SharesOf, Scopes
  <2>3. \A q \in Posts : post'[q] # "none" <=> post[q] # "none"
    BY <1>3, RowAssumption DEF DeleteWorkflow, RowsMade, PostsOf, Scopes
  <2>4. \A v \in Workflows : life'[v] = IF v = w THEN "deleted" ELSE life[v]
    BY <2>1 DEF TypeOK
  <2>5. \A v \in Workflows : life'[v] = "none" <=> life[v] = "none"
    BY <2>1, <2>4
  <2>6. \A v \in Workflows : source[v] \in Shares \cup {None}
    BY DEF TypeOK
  <2> QED BY <2>1, <2>2, <2>3, <2>5, <2>6 DEF RowsMade
<1>4. ASSUME NEW s \in Shares, RevokeShare(s) PROVE RowsMade'
  BY <1>0, <1>4, RowAssumption, ContentAssumption
     DEF RevokeShare, Release, HasRead, RowsMade,
         Live, TypeOK, Scopes, Versions, workflowVars, shareVars, postVars
<1>5. ASSUME NEW p \in Posts, BanPost(p) PROVE RowsMade'
  BY <1>0, <1>5, RowAssumption, ContentAssumption
     DEF BanPost, HasRead, RowsMade,
         Live, TypeOK, Scopes, Versions, workflowVars, shareVars, postVars
<1>6. ASSUME NEW p \in Posts, DeletePost(p) PROVE RowsMade'
  BY <1>0, <1>6, RowAssumption, ContentAssumption
     DEF DeletePost, Release, HasRead, RowsMade,
         Live, TypeOK, Scopes, Versions, workflowVars, shareVars, postVars
<1>7. ASSUME NEW c \in Calls, NEW s \in Shares, SaveNewShare(c, s) PROVE RowsMade'
  <2>1. /\ ShareSaved(s, call[c].wf, call[c].content, call[c].version)
        /\ status[s] = "none" /\ call[c].wf \in Workflows /\ life[call[c].wf] = "live"
        /\ call[c].content \in Contents
    BY <1>7, NewShareSaves DEF Live
  <2>2. \A t \in Shares : status'[t] = "none" => from'[t] = None
    BY <2>1 DEF ShareSaved, RowsMade
  <2>3. \A t \in Shares : status'[t] # "none" =>
          /\ from'[t] \in Workflows /\ life'[from'[t]] # "none"
          /\ number'[t] \in Versions /\ snapshot'[t] \in Contents
          /\ snapshot'[t] = issued'[t][number'[t]]
    BY <2>1 DEF ShareSaved, RowsMade
  <2>4. \A w \in Workflows :
          source[w] # None => status'[source[w]] # "none" /\ version[w] \in 1..number'[source[w]]
    <3> SUFFICES ASSUME NEW w \in Workflows, source[w] # None
                 PROVE  status'[source[w]] # "none" /\ version[w] \in 1..number'[source[w]]
      OBVIOUS
    <3>1. source[w] \in Shares /\ status[source[w]] # "none" /\ version[w] \in 1..number[source[w]]
      BY DEF RowsMade, TypeOK
    <3>2. source[w] # s
      BY <2>1, <3>1
    <3> QED BY <2>1, <3>1, <3>2 DEF ShareSaved
  <2>5. UNCHANGED <<life, content, source, version, edited, post, about, published>>
    BY <2>1 DEF ShareSaved
  <2> QED BY <2>2, <2>3, <2>4, <2>5 DEF RowsMade
<1>8. ASSUME NEW c \in Calls, SaveShare(c) PROVE RowsMade'
  <2> DEFINE r == call[c]
             t == call[c].of
  <2>1. /\ t \in Shares /\ status[t] = "active" /\ number'[t] = number[t] + 1
        /\ number[t] \in Nat /\ number'[t] \in Versions
        /\ status'[t] = "active" /\ from'[t] = from[t]
        /\ snapshot'[t] = r.content /\ issued'[t][number'[t]] = r.content /\ r.content \in Contents
        /\ \A s \in Shares \ {t} : /\ status'[s] = status[s] /\ from'[s] = from[s]
                                  /\ number'[s] = number[s] /\ snapshot'[s] = snapshot[s]
                                  /\ issued'[s] = issued[s]
        /\ UNCHANGED <<life, content, source, version, edited, post, about, published>>
    <3>1. /\ ShareSaved(t, r.wf, r.content, r.version)
          /\ t \in Shares /\ status[t] = "active" /\ from[t] = r.wf /\ number[t] \in Nat
          /\ r.version = number[t] + 1 /\ r.content \in Contents
      BY <1>8, ShareSaves
    <3> HIDE DEF r, t
    <3> QED BY <3>1 DEF ShareSaved
  <2> HIDE DEF r, t
  <2>2. \A s \in Shares : status'[s] = "none" => from'[s] = None
    BY <2>1 DEF RowsMade
  <2>3. \A s \in Shares : status'[s] # "none" =>
          /\ from'[s] \in Workflows /\ life'[from'[s]] # "none"
          /\ number'[s] \in Versions
          /\ snapshot'[s] \in Contents
          /\ snapshot'[s] = issued'[s][number'[s]]
    <3> SUFFICES ASSUME NEW s \in Shares, status'[s] # "none"
                 PROVE  /\ from'[s] \in Workflows /\ life'[from'[s]] # "none"
                        /\ number'[s] \in Versions
                        /\ snapshot'[s] \in Contents
                        /\ snapshot'[s] = issued'[s][number'[s]]
      OBVIOUS
    <3>1. CASE s = t
      BY <2>1, <3>1 DEF RowsMade
    <3>2. CASE s # t
      BY <2>1, <3>2 DEF RowsMade
    <3> QED BY <3>1, <3>2
  <2>4. \A w \in Workflows :
          source'[w] # None => status'[source'[w]] # "none" /\ version'[w] \in 1..number'[source'[w]]
    <3> SUFFICES ASSUME NEW w \in Workflows, source[w] # None
                 PROVE  status'[source[w]] # "none" /\ version[w] \in 1..number'[source[w]]
      BY <2>1
    <3>1. source[w] \in Shares /\ status[source[w]] # "none" /\ version[w] \in 1..number[source[w]]
      BY DEF RowsMade, TypeOK
    <3>2. CASE source[w] = t
      BY <2>1, <3>1, <3>2
    <3>3. CASE source[w] # t
      BY <2>1, <3>1, <3>3
    <3> QED BY <3>2, <3>3
  <2>5. UNCHANGED <<life, content, source, version, edited, post, about, published>>
    BY <2>1
  <2> QED BY <2>2, <2>3, <2>4, <2>5 DEF RowsMade
<1>9. ASSUME NEW c \in Calls, NEW w \in Workflows, PushCopy(c, w) PROVE RowsMade'
  <2>1. /\ source[w] = call[c].of /\ call[c].of \in Shares
        /\ call[c].version \in 1..number[call[c].of] /\ call[c].content \in Contents
    BY <1>0, <1>9 DEF PushCopy, HasRead, LinkedCopies
  <2>2. UNCHANGED <<life, source, status, from, number, snapshot, issued, about, post, published>>
    BY <1>9 DEF PushCopy, shareVars, postVars
  <2>3. \A v \in Workflows : content'[v] = content[v] \/ content'[v] = call[c].content
    <3>1. PICK k \in {content[w], call[c].content} : content' = [content EXCEPT ![w] = k]
      BY <1>9 DEF PushCopy
    <3> QED BY <3>1 DEF TypeOK
  <2>4. \A v \in Workflows : \/ version'[v] = version[v]
                            \/ (v = w /\ version'[v] = call[c].version)
    <3>1. PICK n \in {version[w], call[c].version} : version' = [version EXCEPT ![w] = n]
      BY <1>9 DEF PushCopy
    <3> QED BY <3>1 DEF TypeOK
  <2>5. edited' \subseteq edited
    BY <1>9 DEF PushCopy
  <2>6. /\ \A v \in Workflows : life'[v] = "none" => source'[v] = None /\ version'[v] = 0 /\ v \notin edited'
        /\ \A v \in Workflows : life'[v] # "none" => content'[v] \in Contents
    BY <2>1, <2>2, <2>3, <2>4, <2>5, RowAssumption DEF RowsMade, Scopes
  <2>7. \A v \in Workflows :
          source'[v] # None => status'[source'[v]] # "none" /\ version'[v] \in 1..number'[source'[v]]
    BY <2>1, <2>2, <2>4 DEF RowsMade
  <2>8. \A s \in Shares : status'[s] # "none" =>
          /\ from'[s] \in Workflows /\ life'[from'[s]] # "none"
          /\ number'[s] \in Versions
          /\ snapshot'[s] \in Contents
          /\ snapshot'[s] = issued'[s][number'[s]]
    BY <2>2 DEF RowsMade
  <2>9. \A p \in Posts : post'[p] # "none" =>
          /\ about'[p] \in Workflows /\ life'[about'[p]] # "none"
          /\ published'[p] \in Contents
    BY <2>2 DEF RowsMade
  <2>10. /\ \A s \in Shares : status'[s] = "none" => from'[s] = None
         /\ \A p \in Posts : post'[p] = "none" => about'[p] = None
    BY <2>2 DEF RowsMade
  <2> QED BY <2>6, <2>7, <2>8, <2>9, <2>10 DEF RowsMade
<1>10. ASSUME NEW c \in Calls, NEW u \in Users, NEW w \in Workflows,
              NEW m \in {"linked", "detached"}, CopyShare(c, u, w, m) PROVE RowsMade'
  <2>1. /\ WorkflowMade(w, call[c].content, m, call[c].of, call[c].version)
        /\ call[c].of \in Shares /\ status[call[c].of] # "none"
        /\ call[c].version \in 1..number[call[c].of] /\ call[c].content \in Contents
    BY <1>10, CopyMakes
  <2>2. \A v \in Workflows : v \notin edited \/ life[v] # "none"
    BY DEF RowsMade
  <2>3. \A v \in Workflows :
          /\ life'[v] = "none" => source'[v] = None /\ version'[v] = 0 /\ v \notin edited'
          /\ life'[v] # "none" => content'[v] \in Contents
    BY <2>1, <2>2 DEF WorkflowMade, RowsMade
  <2>4. \A v \in Workflows :
          source'[v] # None => status'[source'[v]] # "none" /\ version'[v] \in 1..number'[source'[v]]
    BY <2>1 DEF WorkflowMade, RowsMade
  <2> QED BY <2>1, <2>3, <2>4 DEF WorkflowMade, RowsMade
<1>11. ASSUME NEW c \in Calls, NEW p \in Posts, SaveNewPost(c, p) PROVE RowsMade'
  <2>1. /\ PostSaved(p, call[c].wf, call[c].content) /\ call[c].wf \in Workflows
        /\ life[call[c].wf] = "live" /\ call[c].content \in Contents
    BY <1>11, NewPostSaves DEF Live
  <2>2. \A q \in Posts :
          /\ post'[q] = "none" => about'[q] = None
          /\ post'[q] # "none" => /\ about'[q] \in Workflows /\ life[about'[q]] # "none"
                                  /\ published'[q] \in Contents
    BY <2>1 DEF PostSaved, RowsMade
  <2> QED BY <2>1, <2>2 DEF PostSaved, RowsMade
<1>12. ASSUME NEW c \in Calls, SavePost(c) PROVE RowsMade'
  <2>1. /\ PostSaved(call[c].of, call[c].wf, call[c].content) /\ call[c].wf \in Workflows
        /\ life[call[c].wf] = "live" /\ call[c].content \in Contents
    BY <1>12, PostSaves DEF Live
  <2>2. \A q \in Posts :
          /\ post'[q] = "none" => about'[q] = None
          /\ post'[q] # "none" => /\ about'[q] \in Workflows /\ life[about'[q]] # "none"
                                  /\ published'[q] \in Contents
    BY <2>1 DEF PostSaved, RowsMade
  <2> QED BY <2>1, <2>2 DEF PostSaved, RowsMade
<1>13. CASE Quiet
  BY <1>13 DEF Quiet, RowsMade, Live, workflowVars, shareVars, postVars
<1> QED
  BY <1>1, <1>2, <1>3, <1>4, <1>5, <1>6, <1>7, <1>8, <1>9, <1>10, <1>11, <1>12, <1>13, StepKinds
     DEF Writes

(* What is shown is of a live workflow: whoever saves a share or a post asks
   for its workflow again, and a deletion takes them along. *)
LEMMA ShownStep ==
  ASSUME TypeOK, TypeOK', RowsMade, CallsHaveRead, ShownIsLive, [Next]_vars
  PROVE  ShownIsLive'
<1>0. \A c \in Calls : call[c] \in CallRecord /\ HasRead(call[c])
  BY DEF TypeOK, CallsHaveRead
<1>1. ASSUME NEW w \in Workflows, NEW k \in Contents, NEW u \in Users, CreateWorkflow(u, w, k)
  PROVE ShownIsLive'
  <2>1. WorkflowMade(w, k, "none", None, 0)
    BY <1>1, CreateMakes
  <2> QED BY <2>1 DEF WorkflowMade, ShownIsLive, RowsMade, Live
<1>2. ASSUME NEW w \in Workflows, NEW k \in Contents, UpdateWorkflow(w, k) PROVE ShownIsLive'
  BY <1>0, <1>2, RowAssumption, ContentAssumption
     DEF UpdateWorkflow, Bind, HasRead, ShownIsLive, RowsMade,
         Live, TypeOK, Scopes, Versions, workflowVars, shareVars, postVars
<1>3. ASSUME NEW w \in Workflows, DeleteWorkflow(w) PROVE ShownIsLive'
  BY <1>0, <1>3, RowAssumption, ContentAssumption
     DEF DeleteWorkflow, Release, ScopesOf, SharesOf, PostsOf, HasRead, ShownIsLive, RowsMade,
         Live, TypeOK, Scopes, Versions, workflowVars, shareVars, postVars
<1>4. ASSUME NEW s \in Shares, RevokeShare(s) PROVE ShownIsLive'
  BY <1>0, <1>4, RowAssumption, ContentAssumption
     DEF RevokeShare, Release, HasRead, ShownIsLive, RowsMade,
         Live, TypeOK, Scopes, Versions, workflowVars, shareVars, postVars
<1>5. ASSUME NEW p \in Posts, BanPost(p) PROVE ShownIsLive'
  BY <1>0, <1>5, RowAssumption, ContentAssumption
     DEF BanPost, HasRead, ShownIsLive, RowsMade,
         Live, TypeOK, Scopes, Versions, workflowVars, shareVars, postVars
<1>6. ASSUME NEW p \in Posts, DeletePost(p) PROVE ShownIsLive'
  BY <1>0, <1>6, RowAssumption, ContentAssumption
     DEF DeletePost, Release, HasRead, ShownIsLive, RowsMade,
         Live, TypeOK, Scopes, Versions, workflowVars, shareVars, postVars
<1>7. ASSUME NEW c \in Calls, NEW s \in Shares, SaveNewShare(c, s) PROVE ShownIsLive'
  <2>1. ShareSaved(s, call[c].wf, call[c].content, call[c].version) /\ Live(call[c].wf)
    BY <1>7, NewShareSaves
  <2> QED BY <2>1 DEF ShareSaved, ShownIsLive, Live
<1>8. ASSUME NEW c \in Calls, SaveShare(c) PROVE ShownIsLive'
  <2>1. ShareSaved(call[c].of, call[c].wf, call[c].content, call[c].version) /\ Live(call[c].wf)
    BY <1>8, ShareSaves
  <2> QED BY <2>1 DEF ShareSaved, ShownIsLive, Live
<1>9. ASSUME NEW c \in Calls, NEW w \in Workflows, PushCopy(c, w) PROVE ShownIsLive'
  BY <1>0, <1>9, RowAssumption, ContentAssumption
     DEF PushCopy, Outdated, Bind, LinkedCopies, HasRead, ShownIsLive, RowsMade,
         Live, TypeOK, Scopes, Versions, workflowVars, shareVars, postVars
<1>10. ASSUME NEW c \in Calls, NEW u \in Users, NEW w \in Workflows,
              NEW m \in {"linked", "detached"}, CopyShare(c, u, w, m) PROVE ShownIsLive'
  <2>1. WorkflowMade(w, call[c].content, m, call[c].of, call[c].version)
    BY <1>10, CopyMakes
  <2> QED BY <2>1 DEF WorkflowMade, ShownIsLive, RowsMade, Live
<1>11. ASSUME NEW c \in Calls, NEW p \in Posts, SaveNewPost(c, p) PROVE ShownIsLive'
  <2>1. PostSaved(p, call[c].wf, call[c].content) /\ Live(call[c].wf)
    BY <1>11, NewPostSaves
  <2> QED BY <2>1 DEF PostSaved, ShownIsLive, Live
<1>12. ASSUME NEW c \in Calls, SavePost(c) PROVE ShownIsLive'
  <2>1. PostSaved(call[c].of, call[c].wf, call[c].content) /\ Live(call[c].wf)
    BY <1>12, PostSaves
  <2> QED BY <2>1 DEF PostSaved, ShownIsLive, Live
<1>13. CASE Quiet
  BY <1>13 DEF Quiet, ShownIsLive, RowsMade, Live, workflowVars, shareVars, postVars
<1> QED
  BY <1>1, <1>2, <1>3, <1>4, <1>5, <1>6, <1>7, <1>8, <1>9, <1>10, <1>11, <1>12, <1>13, StepKinds
     DEF Writes

(* Binding the references of one scope leaves the others alone. *)
LEMMA BindAt ==
  ASSUME TypeOK, NEW x \in Scopes, NEW k, refs' = Bind(x, k)
  PROVE  /\ refs'[x] = FilesOf[k]
         /\ \A y \in Scopes : y # x => refs'[y] = refs[y]
BY DEF TypeOK, Bind

(* References follow what is shown. *)
LEMMA ReferenceStep ==
  ASSUME TypeOK, TypeOK', RowsMade, CallsHaveRead, ShownIsLive, ReferencesMatch, [Next]_vars
  PROVE  ReferencesMatch'
<1>0. \A c \in Calls : call[c] \in CallRecord /\ HasRead(call[c])
  BY DEF TypeOK, CallsHaveRead
<1>1. ASSUME NEW w \in Workflows, NEW k \in Contents, NEW u \in Users, CreateWorkflow(u, w, k)
  PROVE ReferencesMatch'
  <2>1. /\ w \in Scopes /\ refs'[w] = FilesOf[k]
        /\ \A y \in Scopes : y # w => refs'[y] = refs[y]
    BY <1>0, <1>1, BindAt DEF CreateWorkflow, NewWorkflow, HasRead, Scopes
  <2>a. WorkflowMade(w, k, "none", None, 0)
    BY <1>1, CreateMakes
  <2>2. life'[w] = "live" /\ content'[w] = k
    BY <2>a DEF WorkflowMade
  <2>3. /\ \A v \in Workflows : v # w => life'[v] = life[v] /\ content'[v] = content[v]
        /\ \A t \in Shares : status'[t] = status[t] /\ snapshot'[t] = snapshot[t]
        /\ \A q \in Posts : post'[q] = post[q] /\ published'[q] = published[q]
    BY <2>a DEF WorkflowMade
  <2> QED BY <2>1, <2>2, <2>3, RowAssumption DEF ReferencesMatch, Live, Scopes
<1>2. ASSUME NEW w \in Workflows, NEW k \in Contents, UpdateWorkflow(w, k) PROVE ReferencesMatch'
  <2>1. /\ w \in Scopes /\ refs'[w] = FilesOf[k]
        /\ \A y \in Scopes : y # w => refs'[y] = refs[y]
    BY <1>0, <1>2, BindAt DEF UpdateWorkflow, HasRead, Scopes
  <2>2. life'[w] = "live" /\ content'[w] = k
    BY <1>0, <1>2 DEF UpdateWorkflow, Live, HasRead, TypeOK
  <2>3. /\ \A v \in Workflows : v # w => life'[v] = life[v] /\ content'[v] = content[v]
        /\ \A t \in Shares : status'[t] = status[t] /\ snapshot'[t] = snapshot[t]
        /\ \A q \in Posts : post'[q] = post[q] /\ published'[q] = published[q]
    BY <1>0, <1>2 DEF UpdateWorkflow, Live, HasRead, TypeOK, workflowVars, shareVars, postVars
  <2> QED BY <2>1, <2>2, <2>3, RowAssumption DEF ReferencesMatch, Live, Scopes
<1>3. ASSUME NEW w \in Workflows, DeleteWorkflow(w) PROVE ReferencesMatch'
  <2>1. /\ \A y \in Scopes : refs'[y] = IF y \in ScopesOf(w) THEN {} ELSE refs[y]
        /\ life' = [life EXCEPT ![w] = "deleted"]
        /\ UNCHANGED <<content, snapshot, published>>
    BY <1>3 DEF DeleteWorkflow, Release
  <2>2. \A v \in Workflows : /\ v \in ScopesOf(w) <=> v = w
                            /\ life'[v] = IF v = w THEN "deleted" ELSE life[v]
    BY <2>1, RowAssumption DEF ScopesOf, SharesOf, PostsOf, TypeOK
  <2>3. \A t \in Shares : /\ t \in ScopesOf(w) <=> t \in SharesOf(w)
                         /\ status'[t] = IF t \in SharesOf(w) THEN "revoked" ELSE status[t]
    BY <1>3, RowAssumption DEF DeleteWorkflow, ScopesOf, PostsOf
  <2>4. \A q \in Posts : /\ q \in ScopesOf(w) <=> q \in PostsOf(w)
                        /\ post'[q] = IF q \in PostsOf(w) THEN "deleted" ELSE post[q]
    BY <1>3, RowAssumption DEF DeleteWorkflow, ScopesOf, SharesOf
  <2> QED BY <2>1, <2>2, <2>3, <2>4 DEF ReferencesMatch, Live, Scopes
<1>4. ASSUME NEW s \in Shares, RevokeShare(s) PROVE ReferencesMatch'
  <2>1. \A y \in Scopes : refs'[y] = IF y \in {s} THEN {} ELSE refs[y]
    BY <1>4 DEF RevokeShare, Release
  <2>2. status'[s] = "revoked"
    BY <1>0, <1>4 DEF RevokeShare, HasRead, TypeOK
  <2>3. /\ \A v \in Workflows : life'[v] = life[v] /\ content'[v] = content[v]
        /\ \A t \in Shares : t # s => status'[t] = status[t] /\ snapshot'[t] = snapshot[t]
        /\ \A q \in Posts : post'[q] = post[q] /\ published'[q] = published[q]
    BY <1>0, <1>4 DEF RevokeShare, HasRead, TypeOK, workflowVars, shareVars, postVars
  <2> QED BY <2>1, <2>2, <2>3, RowAssumption DEF ReferencesMatch, Live, Scopes
<1>5. ASSUME NEW p \in Posts, BanPost(p) PROVE ReferencesMatch'
  BY <1>0, <1>5, RowAssumption, ContentAssumption
     DEF BanPost, HasRead, ReferencesMatch, RowsMade,
         Live, TypeOK, Scopes, Versions, workflowVars, shareVars, postVars
<1>6. ASSUME NEW p \in Posts, DeletePost(p) PROVE ReferencesMatch'
  <2>1. \A y \in Scopes : refs'[y] = IF y \in {p} THEN {} ELSE refs[y]
    BY <1>6 DEF DeletePost, Release
  <2>2. post'[p] = "deleted"
    BY <1>0, <1>6 DEF DeletePost, HasRead, TypeOK
  <2>3. /\ \A v \in Workflows : life'[v] = life[v] /\ content'[v] = content[v]
        /\ \A t \in Shares : status'[t] = status[t] /\ snapshot'[t] = snapshot[t]
        /\ \A q \in Posts : q # p => post'[q] = post[q] /\ published'[q] = published[q]
    BY <1>0, <1>6 DEF DeletePost, HasRead, TypeOK, workflowVars, shareVars, postVars
  <2> QED BY <2>1, <2>2, <2>3, RowAssumption DEF ReferencesMatch, Live, Scopes
<1>7. ASSUME NEW c \in Calls, NEW s \in Shares, SaveNewShare(c, s) PROVE ReferencesMatch'
  <2>1. /\ s \in Scopes /\ refs'[s] = FilesOf[call[c].content]
        /\ \A y \in Scopes : y # s => refs'[y] = refs[y]
    BY <1>0, <1>7, BindAt DEF SaveNewShare, WriteShare, HasRead, Scopes
  <2>a. ShareSaved(s, call[c].wf, call[c].content, call[c].version)
    BY <1>7, NewShareSaves
  <2>2. s \in Shares /\ status'[s] = "active" /\ snapshot'[s] = call[c].content
    BY <2>a DEF ShareSaved
  <2>3. /\ \A v \in Workflows : life'[v] = life[v] /\ content'[v] = content[v]
        /\ \A t \in Shares : t # s => status'[t] = status[t] /\ snapshot'[t] = snapshot[t]
        /\ \A q \in Posts : post'[q] = post[q] /\ published'[q] = published[q]
    BY <2>a DEF ShareSaved
  <2> QED BY <2>1, <2>2, <2>3, RowAssumption DEF ReferencesMatch, Live, Scopes
<1>8. ASSUME NEW c \in Calls, SaveShare(c) PROVE ReferencesMatch'
  <2>1. /\ call[c].of \in Scopes /\ refs'[call[c].of] = FilesOf[call[c].content]
        /\ \A y \in Scopes : y # call[c].of => refs'[y] = refs[y]
    BY <1>0, <1>8, BindAt DEF SaveShare, WriteShare, HasRead, Scopes
  <2>a. ShareSaved(call[c].of, call[c].wf, call[c].content, call[c].version) /\ call[c].of \in Shares
    BY <1>8, ShareSaves
  <2>2. call[c].of \in Shares /\ status'[call[c].of] = "active" /\ snapshot'[call[c].of] = call[c].content
    BY <2>a DEF ShareSaved
  <2>3. /\ \A v \in Workflows : life'[v] = life[v] /\ content'[v] = content[v]
        /\ \A t \in Shares : t # call[c].of => status'[t] = status[t] /\ snapshot'[t] = snapshot[t]
        /\ \A q \in Posts : post'[q] = post[q] /\ published'[q] = published[q]
    BY <2>a DEF ShareSaved
  <2> QED BY <2>1, <2>2, <2>3, RowAssumption DEF ReferencesMatch, Live, Scopes
<1>9. ASSUME NEW c \in Calls, NEW w \in Workflows, PushCopy(c, w) PROVE ReferencesMatch'
  <2>1. CASE Live(w) /\ Outdated(w, call[c].version)
    <3>1. /\ content' = [content EXCEPT ![w] = call[c].content]
          /\ refs' = Bind(w, call[c].content)
          /\ UNCHANGED <<life, status, snapshot, post, published>>
      BY <1>9, <2>1 DEF PushCopy, shareVars, postVars
    <3>2. /\ refs'[w] = FilesOf[call[c].content]
          /\ \A y \in Scopes : y # w => refs'[y] = refs[y]
      BY <3>1, BindAt DEF Scopes
    <3>3. \A v \in Workflows : content'[v] = IF v = w THEN call[c].content ELSE content[v]
      BY <3>1 DEF TypeOK
    <3> QED BY <2>1, <3>1, <3>2, <3>3, RowAssumption DEF ReferencesMatch, Live, Scopes
  <2>2. CASE ~(Live(w) /\ Outdated(w, call[c].version))
    <3>1. UNCHANGED <<content, refs, life, status, snapshot, post, published>>
      BY <1>9, <2>2 DEF PushCopy, shareVars, postVars, TypeOK
    <3> QED BY <3>1 DEF ReferencesMatch, Live
  <2> QED BY <2>1, <2>2
<1>10. ASSUME NEW c \in Calls, NEW u \in Users, NEW w \in Workflows,
              NEW m \in {"linked", "detached"}, CopyShare(c, u, w, m) PROVE ReferencesMatch'
  <2>1. /\ w \in Scopes /\ refs'[w] = FilesOf[call[c].content]
        /\ \A y \in Scopes : y # w => refs'[y] = refs[y]
    BY <1>0, <1>10, BindAt DEF CopyShare, NewWorkflow, HasRead, Scopes
  <2>a. WorkflowMade(w, call[c].content, m, call[c].of, call[c].version)
    BY <1>10, CopyMakes
  <2>2. life'[w] = "live" /\ content'[w] = call[c].content
    BY <2>a DEF WorkflowMade
  <2>3. /\ \A v \in Workflows : v # w => life'[v] = life[v] /\ content'[v] = content[v]
        /\ \A t \in Shares : status'[t] = status[t] /\ snapshot'[t] = snapshot[t]
        /\ \A q \in Posts : post'[q] = post[q] /\ published'[q] = published[q]
    BY <2>a DEF WorkflowMade
  <2> QED BY <2>1, <2>2, <2>3, RowAssumption DEF ReferencesMatch, Live, Scopes
<1>11. ASSUME NEW c \in Calls, NEW p \in Posts, SaveNewPost(c, p) PROVE ReferencesMatch'
  <2>1. /\ p \in Scopes /\ refs'[p] = FilesOf[call[c].content]
        /\ \A y \in Scopes : y # p => refs'[y] = refs[y]
    BY <1>0, <1>11, BindAt DEF SaveNewPost, WritePost, HasRead, Scopes
  <2>a. PostSaved(p, call[c].wf, call[c].content)
    BY <1>11, NewPostSaves
  <2>2. p \in Posts /\ post'[p] = "active" /\ published'[p] = call[c].content
    BY <2>a DEF PostSaved
  <2>3. /\ \A v \in Workflows : life'[v] = life[v] /\ content'[v] = content[v]
        /\ \A t \in Shares : status'[t] = status[t] /\ snapshot'[t] = snapshot[t]
        /\ \A q \in Posts : q # p => post'[q] = post[q] /\ published'[q] = published[q]
    BY <2>a DEF PostSaved
  <2> QED BY <2>1, <2>2, <2>3, RowAssumption DEF ReferencesMatch, Live, Scopes
<1>12. ASSUME NEW c \in Calls, SavePost(c) PROVE ReferencesMatch'
  <2>1. /\ call[c].of \in Scopes /\ refs'[call[c].of] = FilesOf[call[c].content]
        /\ \A y \in Scopes : y # call[c].of => refs'[y] = refs[y]
    BY <1>0, <1>12, BindAt DEF SavePost, WritePost, HasRead, Scopes
  <2>a. PostSaved(call[c].of, call[c].wf, call[c].content) /\ call[c].of \in Posts
    BY <1>12, PostSaves
  <2>2. call[c].of \in Posts /\ post'[call[c].of] = "active" /\ published'[call[c].of] = call[c].content
    BY <2>a DEF PostSaved
  <2>3. /\ \A v \in Workflows : life'[v] = life[v] /\ content'[v] = content[v]
        /\ \A t \in Shares : status'[t] = status[t] /\ snapshot'[t] = snapshot[t]
        /\ \A q \in Posts : q # call[c].of => post'[q] = post[q] /\ published'[q] = published[q]
    BY <2>a DEF PostSaved
  <2> QED BY <2>1, <2>2, <2>3, RowAssumption DEF ReferencesMatch, Live, Scopes
<1>13. CASE Quiet
  BY <1>13 DEF Quiet, ReferencesMatch, RowsMade, Live, workflowVars, shareVars, postVars
<1> QED
  BY <1>1, <1>2, <1>3, <1>4, <1>5, <1>6, <1>7, <1>8, <1>9, <1>10, <1>11, <1>12, <1>13, StepKinds
     DEF Writes

(* Copies hold their versions: what a call pushes or copies is what the share
   had under that version, and a version is given once. *)
LEMMA VersionStep ==
  ASSUME TypeOK, TypeOK', RowsMade, CallsHaveRead, CopiesHoldTheirVersion, [Next]_vars
  PROVE  CopiesHoldTheirVersion'
<1>0. \A c \in Calls : call[c] \in CallRecord /\ HasRead(call[c])
  BY DEF TypeOK, CallsHaveRead
<1>1. ASSUME NEW w \in Workflows, NEW k \in Contents, NEW u \in Users, CreateWorkflow(u, w, k)
  PROVE CopiesHoldTheirVersion'
  <2>1. WorkflowMade(w, k, "none", None, 0)
    BY <1>1, CreateMakes
  <2> QED BY <2>1 DEF WorkflowMade, CopiesHoldTheirVersion, Live
<1>2. ASSUME NEW w \in Workflows, NEW k \in Contents, UpdateWorkflow(w, k)
  PROVE CopiesHoldTheirVersion'
  BY <1>0, <1>2, RowAssumption, ContentAssumption
     DEF UpdateWorkflow, Bind, HasRead, CopiesHoldTheirVersion, RowsMade,
         Live, TypeOK, Scopes, Versions, workflowVars, shareVars, postVars
<1>3. ASSUME NEW w \in Workflows, DeleteWorkflow(w) PROVE CopiesHoldTheirVersion'
  BY <1>0, <1>3, RowAssumption, ContentAssumption
     DEF DeleteWorkflow, Release, ScopesOf, SharesOf, PostsOf, HasRead, CopiesHoldTheirVersion,
         RowsMade,
         Live, TypeOK, Scopes, Versions, workflowVars, shareVars, postVars
<1>4. ASSUME NEW s \in Shares, RevokeShare(s) PROVE CopiesHoldTheirVersion'
  BY <1>0, <1>4, RowAssumption, ContentAssumption
     DEF RevokeShare, Release, HasRead, CopiesHoldTheirVersion, RowsMade,
         Live, TypeOK, Scopes, Versions, workflowVars, shareVars, postVars
<1>5. ASSUME NEW p \in Posts, BanPost(p) PROVE CopiesHoldTheirVersion'
  BY <1>0, <1>5, RowAssumption, ContentAssumption
     DEF BanPost, HasRead, CopiesHoldTheirVersion, RowsMade,
         Live, TypeOK, Scopes, Versions, workflowVars, shareVars, postVars
<1>6. ASSUME NEW p \in Posts, DeletePost(p) PROVE CopiesHoldTheirVersion'
  BY <1>0, <1>6, RowAssumption, ContentAssumption
     DEF DeletePost, Release, HasRead, CopiesHoldTheirVersion, RowsMade,
         Live, TypeOK, Scopes, Versions, workflowVars, shareVars, postVars
<1>7. ASSUME NEW c \in Calls, NEW s \in Shares, SaveNewShare(c, s) PROVE CopiesHoldTheirVersion'
  <2>1. ShareSaved(s, call[c].wf, call[c].content, call[c].version) /\ status[s] = "none"
    BY <1>7, NewShareSaves
  <2>2. \A w \in Workflows : source[w] # None => source[w] \in Shares /\ source[w] # s
    BY <2>1 DEF RowsMade, TypeOK
  <2> QED BY <2>1, <2>2 DEF ShareSaved, CopiesHoldTheirVersion, Live
<1>8. ASSUME NEW c \in Calls, SaveShare(c) PROVE CopiesHoldTheirVersion'
  <2> DEFINE t == call[c].of
             n == call[c].version
  <2>1. /\ ShareSaved(t, call[c].wf, call[c].content, n)
        /\ t \in Shares /\ number[t] \in Nat /\ n = number[t] + 1
    BY <1>8, ShareSaves
  <2> HIDE DEF t, n
  <2>2. ASSUME NEW w \in Workflows, source[w] # None
        PROVE  issued'[source[w]][version[w]] = issued[source[w]][version[w]]
    <3>1. source[w] \in Shares /\ version[w] \in 1..number[source[w]] /\ version[w] \in 0..MaxVersion
      BY <2>2 DEF RowsMade, TypeOK
    <3>2. CASE source[w] = t
      <4>1. version[w] \in Versions \ {n}
        BY <2>1, <3>1, <3>2, ContentAssumption DEF Versions
      <4> QED BY <2>1, <3>2, <4>1 DEF ShareSaved
    <3>3. CASE source[w] # t
      BY <2>1, <3>1, <3>3 DEF ShareSaved
    <3> QED BY <3>2, <3>3
  <2>3. UNCHANGED <<life, source, edited, content, version>>
    BY <2>1 DEF ShareSaved
  <2> QED BY <2>2, <2>3 DEF CopiesHoldTheirVersion, Live
<1>9. ASSUME NEW c \in Calls, NEW w \in Workflows, PushCopy(c, w) PROVE CopiesHoldTheirVersion'
  <2>1. /\ source[w] = call[c].of
        /\ call[c].content = issued[call[c].of][call[c].version]
    BY <1>0, <1>9 DEF PushCopy, HasRead, LinkedCopies
  <2>2. CASE Live(w) /\ Outdated(w, call[c].version)
    <3>1. /\ content' = [content EXCEPT ![w] = call[c].content]
          /\ version' = [version EXCEPT ![w] = call[c].version]
          /\ edited' = edited \ {w}
          /\ UNCHANGED <<life, source, issued>>
      BY <1>9, <2>2 DEF PushCopy, shareVars
    <3> QED BY <2>1, <3>1 DEF CopiesHoldTheirVersion, Live, TypeOK
  <2>3. CASE ~(Live(w) /\ Outdated(w, call[c].version))
    <3>1. UNCHANGED <<content, version, edited, life, source, issued>>
      BY <1>9, <2>3 DEF PushCopy, shareVars, TypeOK
    <3> QED BY <3>1 DEF CopiesHoldTheirVersion, Live
  <2> QED BY <2>2, <2>3
<1>10. ASSUME NEW c \in Calls, NEW u \in Users, NEW w \in Workflows,
              NEW m \in {"linked", "detached"}, CopyShare(c, u, w,
                  m) PROVE CopiesHoldTheirVersion'
  <2>1. /\ WorkflowMade(w, call[c].content, m, call[c].of, call[c].version)
        /\ call[c].content = issued[call[c].of][call[c].version]
    BY <1>10, CopyMakes
  <2> QED BY <2>1 DEF WorkflowMade, CopiesHoldTheirVersion, Live
<1>11. ASSUME NEW c \in Calls, NEW p \in Posts, SaveNewPost(c, p) PROVE CopiesHoldTheirVersion'
  <2>1. PostSaved(p, call[c].wf, call[c].content)
    BY <1>11, NewPostSaves
  <2> QED BY <2>1 DEF PostSaved, CopiesHoldTheirVersion, Live
<1>12. ASSUME NEW c \in Calls, SavePost(c) PROVE CopiesHoldTheirVersion'
  <2>1. PostSaved(call[c].of, call[c].wf, call[c].content)
    BY <1>12, PostSaves
  <2> QED BY <2>1 DEF PostSaved, CopiesHoldTheirVersion, Live
<1>13. CASE Quiet
  BY <1>13 DEF Quiet, CopiesHoldTheirVersion, RowsMade, Live, workflowVars, shareVars, postVars
<1> QED
  BY <1>1, <1>2, <1>3, <1>4, <1>5, <1>6, <1>7, <1>8, <1>9, <1>10, <1>11, <1>12, <1>13, StepKinds
     DEF Writes

(* A call that returns has read nothing. *)
LEMMA ReturnStep ==
  ASSUME TypeOK, TypeOK', RowsMade, RowsStay, CallsHaveRead, NEW c \in Calls, Return(c)
  PROVE  CallsHaveRead'
<1>1. HasRead(Idle)'
  BY DEF HasRead, Idle
<1> QED BY <1>1, IdleRecord, CallStep DEF Return, Goto

(* Every step of a call leaves it with what was true when it read it.       *)
LEMMA ReadStep ==
  ASSUME TypeOK, TypeOK', RowsMade, CallsHaveRead, [Next]_vars
  PROVE  CallsHaveRead'
<1>0. RowsStay
  BY StayStep
<1>1. \A c \in Calls : call[c] \in CallRecord /\ HasRead(call[c])
  BY DEF TypeOK, CallsHaveRead
<1>2. ASSUME NEW w \in Workflows, NEW k \in Contents, NEW u \in Users, CreateWorkflow(u, w, k)
  PROVE CallsHaveRead'
  BY <1>0, <1>2, CallsUntouched DEF CreateWorkflow
<1>3. ASSUME NEW w \in Workflows, NEW k \in Contents, UpdateWorkflow(w, k) PROVE CallsHaveRead'
  BY <1>0, <1>3, CallsUntouched DEF UpdateWorkflow
<1>4. ASSUME NEW w \in Workflows, DeleteWorkflow(w) PROVE CallsHaveRead'
  BY <1>0, <1>4, CallsUntouched DEF DeleteWorkflow
<1>5. ASSUME NEW s \in Shares, RevokeShare(s) PROVE CallsHaveRead'
  BY <1>0, <1>5, CallsUntouched DEF RevokeShare
<1>6. ASSUME NEW p \in Posts, BanPost(p) \/ DeletePost(p) PROVE CallsHaveRead'
  BY <1>0, <1>6, CallsUntouched DEF BanPost, DeletePost
<1>7. ASSUME NEW c \in Calls, NEW s \in Shares, SaveNewShare(c, s) PROVE CallsHaveRead'
  BY <1>0, <1>7, ReturnStep DEF SaveNewShare
<1>8. ASSUME NEW c \in Calls, NEW p \in Posts, SaveNewPost(c, p) PROVE CallsHaveRead'
  BY <1>0, <1>8, ReturnStep DEF SaveNewPost
<1>9. ASSUME NEW c \in Calls, SavePost(c) PROVE CallsHaveRead'
  BY <1>0, <1>9, ReturnStep DEF SavePost
<1>10. ASSUME NEW c \in Calls, NEW u \in Users, NEW w \in Workflows,
              NEW m \in {"linked", "detached"}, CopyShare(c, u, w, m) PROVE CallsHaveRead'
  BY <1>0, <1>10, ReturnStep DEF CopyShare
<1>11. ASSUME NEW c \in Calls, PushEnds(c) \/ CallFails(c) PROVE CallsHaveRead'
  BY <1>0, <1>11, ReturnStep DEF PushEnds, CallFails
<1>12. ASSUME NEW c \in Calls, NEW w \in Workflows, ReadSource(c, w) PROVE CallsHaveRead'
  <2>1. call' = [call EXCEPT ![c] = [Idle EXCEPT !.step = "sharing", !.wf = w,
      !.content = content[w]]]
    BY <1>12 DEF ReadSource, Goto
  <2>2. PICK r \in CallRecord :
         /\ r = [Idle EXCEPT !.step = "sharing", !.wf = w, !.content = content[w]]
         /\ call' = [call EXCEPT ![c] = r]
    <3>1. call'[c] = [Idle EXCEPT !.step = "sharing", !.wf = w, !.content = content[w]]
      BY <2>1 DEF TypeOK
    <3>2. call'[c] \in CallRecord
      BY DEF TypeOK
    <3> QED BY <2>1, <3>1, <3>2
  <2>3. HasRead(r)'
    BY <1>1, <1>12, <2>2
       DEF ReadSource, HasRead, Idle, CallRecord, RowsMade, Live, workflowVars, shareVars,
        postVars
  <2> QED BY <1>0, <2>2, <2>3, CallStep
<1>13. ASSUME NEW c \in Calls, ReadNoShare(c) PROVE CallsHaveRead'
  <2>1. call' = [call EXCEPT ![c] = [call[c] EXCEPT !.step = "updating", !.version = 1]]
    BY <1>13 DEF ReadNoShare, Goto
  <2>2. PICK r \in CallRecord :
         /\ r = [call[c] EXCEPT !.step = "updating", !.version = 1]
         /\ call' = [call EXCEPT ![c] = r]
    <3>1. call'[c] = [call[c] EXCEPT !.step = "updating", !.version = 1]
      BY <2>1 DEF TypeOK
    <3>2. call'[c] \in CallRecord
      BY DEF TypeOK
    <3> QED BY <2>1, <3>1, <3>2
  <2>a. call[c].of = None
    BY <1>13, <1>1 DEF ReadNoShare, HasRead
  <2>3. HasRead(r)'
    BY <1>1, <1>13, <2>2, <2>a
       DEF ReadNoShare, HasRead, Idle, CallRecord, workflowVars, shareVars, postVars
  <2> QED BY <1>0, <2>2, <2>3, CallStep
<1>14. ASSUME NEW c \in Calls, NEW s \in Shares, ReadShare(c, s) PROVE CallsHaveRead'
  <2>1. call' = [call EXCEPT ![c] = [call[c] EXCEPT !.step = "updating", !.of = s,
      !.version = number[s] + 1]]
    BY <1>14 DEF ReadShare, Goto
  <2>2. PICK r \in CallRecord :
         /\ r = [call[c] EXCEPT !.step = "updating", !.of = s, !.version = number[s] + 1]
         /\ call' = [call EXCEPT ![c] = r]
    <3>1. call'[c] = [call[c] EXCEPT !.step = "updating", !.of = s, !.version = number[s] + 1]
      BY <2>1 DEF TypeOK
    <3>2. call'[c] \in CallRecord
      BY DEF TypeOK
    <3> QED BY <2>1, <3>1, <3>2
  <2>a. number[s] \in Nat
    BY DEF TypeOK
  <2>3. HasRead(r)'
    BY <1>1, <1>14, <2>2, <2>a, RowAssumption
       DEF ReadShare, HasRead, Idle, CallRecord, Scopes, ActiveShares, SharesOf, workflowVars,
        shareVars, postVars
  <2> QED BY <1>0, <2>2, <2>3, CallStep
<1>15. ASSUME NEW c \in Calls, ListCopies(c) PROVE CallsHaveRead'
  <2>1. call' = [call EXCEPT ![c] = [call[c] EXCEPT !.step = "pushing",
      !.todo = LinkedCopies(call[c].of)]]
    BY <1>15 DEF ListCopies, Goto
  <2>2. PICK r \in CallRecord :
         /\ r = [call[c] EXCEPT !.step = "pushing", !.todo = LinkedCopies(call[c].of)]
         /\ call' = [call EXCEPT ![c] = r]
    <3>1. call'[c] = [call[c] EXCEPT !.step = "pushing", !.todo = LinkedCopies(call[c].of)]
      BY <2>1 DEF TypeOK
    <3>2. call'[c] \in CallRecord
      BY DEF TypeOK
    <3> QED BY <2>1, <3>1, <3>2
  <2>3. HasRead(r)'
    BY <1>1, <1>15, <2>2
       DEF ListCopies, HasRead, Idle, CallRecord, LinkedCopies, workflowVars, shareVars, postVars
  <2> QED BY <1>0, <2>2, <2>3, CallStep
<1>16. ASSUME NEW c \in Calls, NEW s \in Shares, ReadShareToCopy(c, s) PROVE CallsHaveRead'
  <2>1. call' = [call EXCEPT ![c] = [Idle EXCEPT !.step = "copying", !.of = s,
      !.content = snapshot[s],
                                  !.version = number[s]]]
    BY <1>16 DEF ReadShareToCopy, Goto
  <2>2. PICK r \in CallRecord : r = [Idle EXCEPT !.step = "copying", !.of = s,
      !.content = snapshot[s],
                                  !.version = number[s]] /\ call' = [call EXCEPT ![c] = r]
    <3>1. call'[c] = [Idle EXCEPT !.step = "copying", !.of = s, !.content = snapshot[s],
                                  !.version = number[s]]
      BY <2>1 DEF TypeOK
    <3>2. call'[c] \in CallRecord
      BY DEF TypeOK
    <3> QED BY <2>1, <3>1, <3>2
  <2>3. HasRead(r)'
    BY <1>1, <1>16, <2>2
       DEF ReadShareToCopy, HasRead, Idle, CallRecord, RowsMade, Versions, workflowVars,
        shareVars, postVars
  <2> QED BY <1>0, <2>2, <2>3, CallStep
<1>17. ASSUME NEW c \in Calls, NEW w \in Workflows, ReadWorkflowToPublish(c, w)
  PROVE CallsHaveRead'
  <2>1. call' = [call EXCEPT ![c] = [Idle EXCEPT !.step = "publishing", !.wf = w,
      !.content = content[w]]]
    BY <1>17 DEF ReadWorkflowToPublish, Goto
  <2>2. PICK r \in CallRecord :
         /\ r = [Idle EXCEPT !.step = "publishing", !.wf = w, !.content = content[w]]
         /\ call' = [call EXCEPT ![c] = r]
    <3>1. call'[c] = [Idle EXCEPT !.step = "publishing", !.wf = w, !.content = content[w]]
      BY <2>1 DEF TypeOK
    <3>2. call'[c] \in CallRecord
      BY DEF TypeOK
    <3> QED BY <2>1, <3>1, <3>2
  <2>3. HasRead(r)'
    BY <1>1, <1>17, <2>2
       DEF ReadWorkflowToPublish, HasRead, Idle, CallRecord, RowsMade, Live, workflowVars,
        shareVars, postVars
  <2> QED BY <1>0, <2>2, <2>3, CallStep
<1>18. ASSUME NEW c \in Calls, ReadNoPost(c) PROVE CallsHaveRead'
  <2>1. call' = [call EXCEPT ![c] = [call[c] EXCEPT !.step = "posting"]]
    BY <1>18 DEF ReadNoPost, Goto
  <2>2. PICK r \in CallRecord :
         /\ r = [call[c] EXCEPT !.step = "posting"]
         /\ call' = [call EXCEPT ![c] = r]
    <3>1. call'[c] = [call[c] EXCEPT !.step = "posting"]
      BY <2>1 DEF TypeOK
    <3>2. call'[c] \in CallRecord
      BY DEF TypeOK
    <3> QED BY <2>1, <3>1, <3>2
  <2>a. call[c].of = None
    BY <1>18, <1>1 DEF ReadNoPost, HasRead
  <2>3. HasRead(r)'
    BY <1>1, <1>18, <2>2, <2>a
       DEF ReadNoPost, HasRead, Idle, CallRecord, workflowVars, shareVars, postVars
  <2> QED BY <1>0, <2>2, <2>3, CallStep
<1>19. ASSUME NEW c \in Calls, NEW p \in Posts, ReadPost(c, p) PROVE CallsHaveRead'
  <2>1. call' = [call EXCEPT ![c] =
                    (IF post[p] = "banned" THEN Idle
                     ELSE [call[c] EXCEPT !.step = "posting", !.of = p])]
    BY <1>19 DEF ReadPost, Goto
  <2>2. PICK r \in CallRecord :
         /\ r = (IF post[p] = "banned" THEN Idle ELSE [call[c] EXCEPT !.step = "posting",
             !.of = p])
         /\ call' = [call EXCEPT ![c] = r]
    <3>1. call'[c] = (IF post[p] = "banned" THEN Idle ELSE [call[c] EXCEPT !.step = "posting",
        !.of = p])
      BY <2>1 DEF TypeOK
    <3>2. call'[c] \in CallRecord
      BY DEF TypeOK
    <3> QED BY <2>1, <3>1, <3>2
  <2>3. HasRead(r)'
    BY <1>1, <1>19, <2>2
       DEF ReadPost, HasRead, Idle, CallRecord, LivePosts, PostsOf, workflowVars, shareVars,
        postVars
  <2> QED BY <1>0, <2>2, <2>3, CallStep
<1>20. ASSUME NEW c \in Calls, NEW p \in Posts, ReadPostToSync(c, p) PROVE CallsHaveRead'
  <2>1. call' = [call EXCEPT ![c] = [Idle EXCEPT !.step = "syncing", !.of = p, !.wf = about[p]]]
    BY <1>20 DEF ReadPostToSync, Goto
  <2>2. PICK r \in CallRecord :
         /\ r = [Idle EXCEPT !.step = "syncing", !.of = p, !.wf = about[p]]
         /\ call' = [call EXCEPT ![c] = r]
    <3>1. call'[c] = [Idle EXCEPT !.step = "syncing", !.of = p, !.wf = about[p]]
      BY <2>1 DEF TypeOK
    <3>2. call'[c] \in CallRecord
      BY DEF TypeOK
    <3> QED BY <2>1, <3>1, <3>2
  <2>3. HasRead(r)'
    BY <1>1, <1>20, <2>2
       DEF ReadPostToSync, HasRead, Idle, CallRecord, RowsMade, workflowVars, shareVars, postVars
  <2> QED BY <1>0, <2>2, <2>3, CallStep
<1>21. ASSUME NEW c \in Calls, ReadWorkflowToSync(c) PROVE CallsHaveRead'
  <2>1. call' = [call EXCEPT ![c] = [call[c] EXCEPT !.step = "posting",
      !.content = content[call[c].wf]]]
    BY <1>21 DEF ReadWorkflowToSync, Goto
  <2>2. PICK r \in CallRecord :
         /\ r = [call[c] EXCEPT !.step = "posting", !.content = content[call[c].wf]]
         /\ call' = [call EXCEPT ![c] = r]
    <3>1. call'[c] = [call[c] EXCEPT !.step = "posting", !.content = content[call[c].wf]]
      BY <2>1 DEF TypeOK
    <3>2. call'[c] \in CallRecord
      BY DEF TypeOK
    <3> QED BY <2>1, <3>1, <3>2
  <2>3. HasRead(r)'
    BY <1>1, <1>21, <2>2
       DEF ReadWorkflowToSync, HasRead, Idle, CallRecord, RowsMade, Live, workflowVars,
        shareVars, postVars
  <2> QED BY <1>0, <2>2, <2>3, CallStep
<1>22. ASSUME NEW c \in Calls, SaveShare(c) PROVE CallsHaveRead'
  <2>1. call' = [call EXCEPT ![c] = [call[c] EXCEPT !.step = "listing"]]
    BY <1>22 DEF SaveShare, Goto
  <2>2. PICK r \in CallRecord :
         /\ r = [call[c] EXCEPT !.step = "listing"]
         /\ call' = [call EXCEPT ![c] = r]
    <3>1. call'[c] = [call[c] EXCEPT !.step = "listing"]
      BY <2>1 DEF TypeOK
    <3>2. call'[c] \in CallRecord
      BY DEF TypeOK
    <3> QED BY <2>1, <3>1, <3>2
  <2>a. /\ call[c].of \in Shares /\ call[c].version \in Versions /\ call[c].content \in Contents
        /\ status'[call[c].of] = "active" /\ number'[call[c].of] = call[c].version
        /\ issued'[call[c].of][call[c].version] = call[c].content
    <3>1. /\ ShareSaved(call[c].of, call[c].wf, call[c].content, call[c].version)
          /\ call[c].of \in Shares /\ call[c].content \in Contents
      BY <1>22, ShareSaves
    <3> QED BY <3>1 DEF ShareSaved
  <2>3. HasRead(r)'
    BY <1>1, <1>22, <2>2, <2>a DEF SaveShare, HasRead, Idle, CallRecord, Versions
  <2> QED BY <1>0, <2>2, <2>3, CallStep
<1>23. ASSUME NEW c \in Calls, NEW w \in Workflows, PushCopy(c, w) PROVE CallsHaveRead'
  <2>1. call' = [call EXCEPT ![c] = [call[c] EXCEPT !.todo = @ \ {w}]]
    BY <1>23 DEF PushCopy, Goto
  <2>2. PICK r \in CallRecord :
         /\ r = [call[c] EXCEPT !.todo = @ \ {w}]
         /\ call' = [call EXCEPT ![c] = r]
    <3>1. call'[c] = [call[c] EXCEPT !.todo = @ \ {w}]
      BY <2>1 DEF TypeOK
    <3>2. call'[c] \in CallRecord
      BY DEF TypeOK
    <3> QED BY <2>1, <3>1, <3>2
  <2>3. HasRead(r)'
    BY <1>1, <1>23, <2>2
       DEF PushCopy, HasRead, Idle, CallRecord, LinkedCopies, workflowVars, shareVars, postVars
  <2> QED BY <1>0, <2>2, <2>3, CallStep
<1>24. CASE UNCHANGED vars
  BY <1>0, <1>24, CallsUntouched DEF vars
<1> QED
  BY <1>2, <1>3, <1>4, <1>5, <1>6, <1>7, <1>8, <1>9, <1>10, <1>11, <1>12, <1>13, <1>14, <1>15,
      <1>16, <1>17, <1>18, <1>19, <1>20, <1>21, <1>22, <1>23, <1>24
     DEF Next, WorkflowNext, ShareNext, PostNext

(* The inductive invariant.  *)
SharesInv == /\ TypeOK /\ RowsMade /\ CallsHaveRead
             /\ ShownIsLive /\ ReferencesMatch /\ CopiesHoldTheirVersion

LEMMA InitInv == Init => SharesInv
<1> SUFFICES ASSUME Init PROVE SharesInv
  OBVIOUS
<1>1. TypeOK
  BY ContentAssumption, IdleRecord DEF Init, TypeOK
<1>2. RowsMade
  BY DEF Init, RowsMade
<1>3. CallsHaveRead
  BY DEF Init, CallsHaveRead, HasRead, Idle
<1>4. ShownIsLive
  BY DEF Init, ShownIsLive
<1>5. ReferencesMatch
  BY DEF Init, ReferencesMatch, Live, Scopes
<1>6. CopiesHoldTheirVersion
  BY DEF Init, CopiesHoldTheirVersion, Live
<1> QED BY <1>1, <1>2, <1>3, <1>4, <1>5, <1>6 DEF SharesInv

LEMMA NextInv == SharesInv /\ [Next]_vars => SharesInv'
<1> SUFFICES ASSUME SharesInv, [Next]_vars PROVE SharesInv'
  OBVIOUS
<1> USE DEF SharesInv
<1>1. TypeOK'
  BY TypeStep
<1>2. RowsMade' /\ CallsHaveRead'
  BY <1>1, MadeStep, ReadStep
<1>3. ShownIsLive' /\ ReferencesMatch' /\ CopiesHoldTheirVersion'
  BY <1>1, ShownStep, ReferenceStep, VersionStep
<1> QED BY <1>1, <1>2, <1>3

THEOREM Invariance == Spec => []SharesInv
BY InitInv, NextInv, PTL DEF Spec

(* Types, and no workflow that was not paid for. *)
THEOREM TypeCorrect == Spec => []TypeOK
<1>1. SharesInv => TypeOK
  BY DEF SharesInv
<1> QED BY <1>1, Invariance, PTL

(* No link and no post of a deleted workflow, whatever calls were under way  *)
(* when it was deleted.                                                    *)
THEOREM DeletedNotShown == Spec => []ShownIsLive
<1>1. SharesInv => ShownIsLive
  BY DEF SharesInv
<1> QED BY <1>1, Invariance, PTL

(* What CloudFiles is told to keep is what workflows, links and posts show. *)
THEOREM ReferencesFollow == Spec => []ReferencesMatch
<1>1. SharesInv => ReferencesMatch
  BY DEF SharesInv
<1> QED BY <1>1, Invariance, PTL

(* A copy its owner has not edited holds the version it says it holds.      *)
THEOREM CopiesCorrect == Spec => []CopiesHoldTheirVersion
<1>1. SharesInv => CopiesHoldTheirVersion
  BY DEF SharesInv
<1> QED BY <1>1, Invariance, PTL

(* Pushes that overtake each other take no copy back; a copy's row is made
   where there was none. *)
LEMMA ForwardStep ==
  ASSUME SharesInv, [Next]_vars
  PROVE  \A v \in Workflows : version'[v] >= version[v]
<1>0. TypeOK /\ RowsMade
  BY DEF SharesInv
<1>1. ASSUME NEW w \in Workflows, NEW k \in Contents, NEW u \in Users, CreateWorkflow(u, w, k)
  PROVE \A v \in Workflows : version'[v] >= version[v]
  BY <1>0, <1>1 DEF CreateWorkflow, NewWorkflow, RowsMade, TypeOK, workflowVars, shareVars,
      postVars
<1>2. ASSUME NEW w \in Workflows, NEW k \in Contents, UpdateWorkflow(w, k)
  PROVE \A v \in Workflows : version'[v] >= version[v]
  BY <1>0, <1>2 DEF UpdateWorkflow, RowsMade, TypeOK, workflowVars, shareVars, postVars
<1>3. ASSUME NEW w \in Workflows, DeleteWorkflow(w)
  PROVE \A v \in Workflows : version'[v] >= version[v]
  BY <1>0, <1>3 DEF DeleteWorkflow, PostsOf, RowsMade, TypeOK, workflowVars, shareVars, postVars
<1>4. ASSUME NEW s \in Shares, RevokeShare(s) PROVE \A v \in Workflows : version'[v] >= version[v]
  BY <1>0, <1>4 DEF RevokeShare, RowsMade, TypeOK, workflowVars, shareVars, postVars
<1>5. ASSUME NEW p \in Posts, BanPost(p) PROVE \A v \in Workflows : version'[v] >= version[v]
  BY <1>0, <1>5 DEF BanPost, RowsMade, TypeOK, workflowVars, shareVars, postVars
<1>6. ASSUME NEW p \in Posts, DeletePost(p) PROVE \A v \in Workflows : version'[v] >= version[v]
  BY <1>0, <1>6 DEF DeletePost, RowsMade, TypeOK, workflowVars, shareVars, postVars
<1>7. ASSUME NEW c \in Calls, NEW s \in Shares, SaveNewShare(c, s)
  PROVE \A v \in Workflows : version'[v] >= version[v]
  BY <1>0, <1>7 DEF SaveNewShare, WriteShare, RowsMade, TypeOK, workflowVars, shareVars, postVars
<1>8. ASSUME NEW c \in Calls, SaveShare(c) PROVE \A v \in Workflows : version'[v] >= version[v]
  BY <1>0, <1>8 DEF SaveShare, WriteShare, StillCurrent, RowsMade, TypeOK, workflowVars,
      shareVars, postVars
<1>9. ASSUME NEW c \in Calls, NEW w \in Workflows, PushCopy(c, w)
  PROVE \A v \in Workflows : version'[v] >= version[v]
  <2>1. version'[w] >= version[w]
    <3>1. version[w] \in Nat /\ call[c].version \in Nat
      BY <1>0, ContentAssumption DEF TypeOK, CallRecord
    <3>2. version' = [version EXCEPT ![w] = IF Live(w) /\ version[w] < call[c].version
                                            THEN call[c].version ELSE version[w]]
      BY <1>9 DEF PushCopy, Outdated
    <3> QED BY <1>0, <3>1, <3>2 DEF TypeOK
  <2>2. \A v \in Workflows : v # w => version'[v] = version[v]
    BY <1>0, <1>9 DEF PushCopy, TypeOK
  <2>3. \A v \in Workflows : version[v] \in Nat
    BY <1>0, ContentAssumption DEF TypeOK
  <2> QED BY <2>1, <2>2, <2>3
<1>10. ASSUME NEW c \in Calls, NEW u \in Users, NEW w \in Workflows,
              NEW m \in {"linked", "detached"}, CopyShare(c, u, w,
                  m) PROVE \A v \in Workflows : version'[v] >= version[v]
  BY <1>0, <1>10 DEF CopyShare, NewWorkflow, CallRecord, RowsMade, TypeOK, workflowVars,
      shareVars, postVars
<1>11. ASSUME NEW c \in Calls, NEW p \in Posts, SaveNewPost(c, p)
  PROVE \A v \in Workflows : version'[v] >= version[v]
  BY <1>0, <1>11 DEF SaveNewPost, WritePost, RowsMade, TypeOK, workflowVars, shareVars, postVars
<1>12. ASSUME NEW c \in Calls, SavePost(c) PROVE \A v \in Workflows : version'[v] >= version[v]
  BY <1>0, <1>12 DEF SavePost, WritePost, StillPosted, RowsMade, TypeOK, workflowVars,
      shareVars, postVars
<1>13. CASE Quiet
  BY <1>0, <1>13 DEF Quiet, TypeOK, workflowVars, shareVars, postVars
<1> QED
  BY <1>1, <1>2, <1>3, <1>4, <1>5, <1>6, <1>7, <1>8, <1>9, <1>10, <1>11, <1>12, <1>13, StepKinds
     DEF Writes

(* No copy goes back to an earlier version, for any number of updates. *)
THEOREM Forward == Spec => CopiesNeverGoBack
<1> DEFINE Holds == \A w \in Workflows : version'[w] >= version[w]
<1>1. SharesInv /\ [Next]_vars => [Holds]_vars
  BY ForwardStep
<1> QED BY <1>1, Invariance, PTL DEF Spec, CopiesNeverGoBack

(* An update asks again whether its share is active. *)
LEMMA RevokedStep ==
  ASSUME SharesInv, [Next]_vars
  PROVE  \A t \in Shares : status[t] = "revoked" => status'[t] = "revoked"
<1>0. TypeOK /\ RowsMade
  BY DEF SharesInv
<1>1. ASSUME NEW w \in Workflows, NEW k \in Contents, NEW u \in Users, CreateWorkflow(u, w, k)
  PROVE \A t \in Shares : status[t] = "revoked" => status'[t] = "revoked"
  BY <1>0, <1>1 DEF CreateWorkflow, NewWorkflow, RowsMade, TypeOK, workflowVars, shareVars,
      postVars
<1>2. ASSUME NEW w \in Workflows, NEW k \in Contents, UpdateWorkflow(w, k)
  PROVE \A t \in Shares : status[t] = "revoked" => status'[t] = "revoked"
  BY <1>0, <1>2 DEF UpdateWorkflow, RowsMade, TypeOK, workflowVars, shareVars, postVars
<1>3. ASSUME NEW w \in Workflows, DeleteWorkflow(w)
  PROVE \A t \in Shares : status[t] = "revoked" => status'[t] = "revoked"
  BY <1>0, <1>3 DEF DeleteWorkflow, PostsOf, RowsMade, TypeOK, workflowVars, shareVars, postVars
<1>4. ASSUME NEW s \in Shares, RevokeShare(s)
  PROVE \A t \in Shares : status[t] = "revoked" => status'[t] = "revoked"
  BY <1>0, <1>4 DEF RevokeShare, RowsMade, TypeOK, workflowVars, shareVars, postVars
<1>5. ASSUME NEW p \in Posts, BanPost(p)
  PROVE \A t \in Shares : status[t] = "revoked" => status'[t] = "revoked"
  BY <1>0, <1>5 DEF BanPost, RowsMade, TypeOK, workflowVars, shareVars, postVars
<1>6. ASSUME NEW p \in Posts, DeletePost(p)
  PROVE \A t \in Shares : status[t] = "revoked" => status'[t] = "revoked"
  BY <1>0, <1>6 DEF DeletePost, RowsMade, TypeOK, workflowVars, shareVars, postVars
<1>7. ASSUME NEW c \in Calls, NEW s \in Shares, SaveNewShare(c, s)
  PROVE \A t \in Shares : status[t] = "revoked" => status'[t] = "revoked"
  BY <1>0, <1>7 DEF SaveNewShare, WriteShare, RowsMade, TypeOK, workflowVars, shareVars, postVars
<1>8. ASSUME NEW c \in Calls, SaveShare(c)
  PROVE \A t \in Shares : status[t] = "revoked" => status'[t] = "revoked"
  BY <1>0, <1>8 DEF SaveShare, WriteShare, StillCurrent, RowsMade, TypeOK, workflowVars,
      shareVars, postVars
<1>9. ASSUME NEW c \in Calls, NEW w \in Workflows, PushCopy(c, w)
  PROVE \A t \in Shares : status[t] = "revoked" => status'[t] = "revoked"
  BY <1>0, <1>9 DEF PushCopy, Outdated, RowsMade, TypeOK, workflowVars, shareVars, postVars
<1>10. ASSUME NEW c \in Calls, NEW u \in Users, NEW w \in Workflows,
              NEW m \in {"linked", "detached"}, CopyShare(c, u, w,
                  m) PROVE \A t \in Shares : status[t] = "revoked" => status'[t] = "revoked"
  BY <1>0, <1>10 DEF CopyShare, NewWorkflow, CallRecord, RowsMade, TypeOK, workflowVars,
      shareVars, postVars
<1>11. ASSUME NEW c \in Calls, NEW p \in Posts, SaveNewPost(c, p)
  PROVE \A t \in Shares : status[t] = "revoked" => status'[t] = "revoked"
  BY <1>0, <1>11 DEF SaveNewPost, WritePost, RowsMade, TypeOK, workflowVars, shareVars, postVars
<1>12. ASSUME NEW c \in Calls, SavePost(c)
  PROVE \A t \in Shares : status[t] = "revoked" => status'[t] = "revoked"
  BY <1>0, <1>12 DEF SavePost, WritePost, StillPosted, RowsMade, TypeOK, workflowVars,
      shareVars, postVars
<1>13. CASE Quiet
  BY <1>0, <1>13 DEF Quiet, TypeOK, workflowVars, shareVars, postVars
<1> QED
  BY <1>1, <1>2, <1>3, <1>4, <1>5, <1>6, <1>7, <1>8, <1>9, <1>10, <1>11, <1>12, <1>13, StepKinds
     DEF Writes

(* A revoked link stays revoked. *)
THEOREM Revoked == Spec => RevocationsHold
<1> DEFINE Holds == \A s \in Shares : status[s] = "revoked" => status'[s] = "revoked"
<1>1. SharesInv /\ [Next]_vars => [Holds]_vars
  BY RevokedStep
<1> QED BY <1>1, Invariance, PTL DEF Spec, RevocationsHold

(* An update asks again whether its post is active. *)
LEMMA BannedStep ==
  ASSUME SharesInv, [Next]_vars
  PROVE  \A q \in Posts : post[q] = "banned" => post'[q] \in {"banned", "deleted"}
<1>0. TypeOK /\ RowsMade
  BY DEF SharesInv
<1>1. ASSUME NEW w \in Workflows, NEW k \in Contents, NEW u \in Users, CreateWorkflow(u, w, k)
  PROVE \A q \in Posts : post[q] = "banned" => post'[q] \in {"banned", "deleted"}
  BY <1>0, <1>1 DEF CreateWorkflow, NewWorkflow, RowsMade, TypeOK, workflowVars, shareVars,
      postVars
<1>2. ASSUME NEW w \in Workflows, NEW k \in Contents, UpdateWorkflow(w, k)
  PROVE \A q \in Posts : post[q] = "banned" => post'[q] \in {"banned", "deleted"}
  BY <1>0, <1>2 DEF UpdateWorkflow, RowsMade, TypeOK, workflowVars, shareVars, postVars
<1>3. ASSUME NEW w \in Workflows, DeleteWorkflow(w)
  PROVE \A q \in Posts : post[q] = "banned" => post'[q] \in {"banned", "deleted"}
  BY <1>0, <1>3 DEF DeleteWorkflow, PostsOf, RowsMade, TypeOK, workflowVars, shareVars, postVars
<1>4. ASSUME NEW s \in Shares, RevokeShare(s)
  PROVE \A q \in Posts : post[q] = "banned" => post'[q] \in {"banned", "deleted"}
  BY <1>0, <1>4 DEF RevokeShare, RowsMade, TypeOK, workflowVars, shareVars, postVars
<1>5. ASSUME NEW p \in Posts, BanPost(p)
  PROVE \A q \in Posts : post[q] = "banned" => post'[q] \in {"banned", "deleted"}
  BY <1>0, <1>5 DEF BanPost, RowsMade, TypeOK, workflowVars, shareVars, postVars
<1>6. ASSUME NEW p \in Posts, DeletePost(p)
  PROVE \A q \in Posts : post[q] = "banned" => post'[q] \in {"banned", "deleted"}
  BY <1>0, <1>6 DEF DeletePost, RowsMade, TypeOK, workflowVars, shareVars, postVars
<1>7. ASSUME NEW c \in Calls, NEW s \in Shares, SaveNewShare(c, s)
  PROVE \A q \in Posts : post[q] = "banned" => post'[q] \in {"banned", "deleted"}
  BY <1>0, <1>7 DEF SaveNewShare, WriteShare, RowsMade, TypeOK, workflowVars, shareVars, postVars
<1>8. ASSUME NEW c \in Calls, SaveShare(c)
  PROVE \A q \in Posts : post[q] = "banned" => post'[q] \in {"banned", "deleted"}
  BY <1>0, <1>8 DEF SaveShare, WriteShare, StillCurrent, RowsMade, TypeOK, workflowVars,
      shareVars, postVars
<1>9. ASSUME NEW c \in Calls, NEW w \in Workflows, PushCopy(c, w)
  PROVE \A q \in Posts : post[q] = "banned" => post'[q] \in {"banned", "deleted"}
  BY <1>0, <1>9 DEF PushCopy, Outdated, RowsMade, TypeOK, workflowVars, shareVars, postVars
<1>10. ASSUME NEW c \in Calls, NEW u \in Users, NEW w \in Workflows,
              NEW m \in {"linked", "detached"}, CopyShare(c, u, w,
                  m) PROVE \A q \in Posts : post[q] = "banned" => post'[q] \in {"banned",
                  "deleted"}
  BY <1>0, <1>10 DEF CopyShare, NewWorkflow, CallRecord, RowsMade, TypeOK, workflowVars,
      shareVars, postVars
<1>11. ASSUME NEW c \in Calls, NEW p \in Posts, SaveNewPost(c, p)
  PROVE \A q \in Posts : post[q] = "banned" => post'[q] \in {"banned", "deleted"}
  BY <1>0, <1>11 DEF SaveNewPost, WritePost, RowsMade, TypeOK, workflowVars, shareVars, postVars
<1>12. ASSUME NEW c \in Calls, SavePost(c)
  PROVE \A q \in Posts : post[q] = "banned" => post'[q] \in {"banned", "deleted"}
  BY <1>0, <1>12 DEF SavePost, WritePost, StillPosted, RowsMade, TypeOK, workflowVars,
      shareVars, postVars
<1>13. CASE Quiet
  BY <1>0, <1>13 DEF Quiet, TypeOK, workflowVars, shareVars, postVars
<1> QED
  BY <1>1, <1>2, <1>3, <1>4, <1>5, <1>6, <1>7, <1>8, <1>9, <1>10, <1>11, <1>12, <1>13, StepKinds
     DEF Writes

(* A banned post stays banned until it is deleted. *)
THEOREM Banned == Spec => BansHold
<1> DEFINE Holds == \A p \in Posts : post[p] = "banned" => post'[p] \in {"banned", "deleted"}
<1>1. SharesInv /\ [Next]_vars => [Holds]_vars
  BY BannedStep
<1> QED BY <1>1, Invariance, PTL DEF Spec, BansHold

-----------------------------------------------------------------------------
(* The history of a link *)

(* A share that was not saved has no version; what is no copy follows none. *)
Unmade ==
  /\ \A s \in Shares : status[s] = "none" => number[s] = 0
  /\ \A w \in Workflows : source[w] = None => mode[w] = "none"

LEMMA UnmadeStep ==
  ASSUME TypeOK, RowsMade, CallsHaveRead, Unmade, [Next]_vars
  PROVE  Unmade'
<1>1. ASSUME UNCHANGED <<status, number, mode, source>> PROVE Unmade'
  BY <1>1 DEF Unmade
<1>2. ASSUME NEW u \in Users, NEW w \in Workflows, NEW k \in Contents, CreateWorkflow(u, w, k)
      PROVE  Unmade'
  <2>1. WorkflowMade(w, k, "none", None, 0)
    BY <1>2, CreateMakes
  <2> QED BY <2>1 DEF WorkflowMade, Unmade
<1>3. ASSUME NEW c \in Calls, NEW u \in Users, NEW w \in Workflows,
             NEW m \in {"linked", "detached"}, CopyShare(c, u, w, m)
      PROVE  Unmade'
  <2>1. WorkflowMade(w, call[c].content, m, call[c].of, call[c].version) /\ call[c].of \in Shares
    BY <1>3, CopyMakes
  <2>2. call[c].of # None
    BY <2>1, RowAssumption DEF Scopes
  <2> QED BY <2>1, <2>2 DEF WorkflowMade, Unmade
<1>4. ASSUME NEW t \in Shares, NEW w, NEW k, NEW n, ShareSaved(t, w, k, n) PROVE Unmade'
  BY <1>4 DEF ShareSaved, Unmade
<1>5. ASSUME NEW c \in Calls, NEW s \in Shares, SaveNewShare(c, s) PROVE Unmade'
  BY <1>4, <1>5, NewShareSaves
<1>6. ASSUME NEW c \in Calls, SaveShare(c) PROVE Unmade'
  BY <1>4, <1>6, ShareSaves
<1>7. ASSUME UNCHANGED <<number, mode, source>>,
             \A s \in Shares : status'[s] = "none" => status[s] = "none"
      PROVE  Unmade'
  BY <1>7 DEF Unmade
<1>8. ASSUME NEW s \in Shares, RevokeShare(s) PROVE Unmade'
  BY <1>7, <1>8 DEF RevokeShare, TypeOK, workflowVars
<1>9. ASSUME NEW w \in Workflows, DeleteWorkflow(w) PROVE Unmade'
  BY <1>7, <1>9 DEF DeleteWorkflow, TypeOK
<1>10. ASSUME NEW c \in Calls, NEW w \in Workflows, PushCopy(c, w) PROVE Unmade'
  BY <1>1, <1>10 DEF PushCopy, shareVars
<1>11. ASSUME NEW w \in Workflows, NEW k \in Contents, UpdateWorkflow(w, k) PROVE Unmade'
  BY <1>1, <1>11 DEF UpdateWorkflow, shareVars
<1>12. CASE Quiet
  BY <1>1, <1>12 DEF Quiet, workflowVars, shareVars
<1>13. ASSUME NEW c \in Calls, PostNext(c) PROVE Unmade'
  BY <1>1, <1>13 DEF PostNext, ReadWorkflowToPublish, ReadPost, ReadPostToSync, SaveNewPost,
     ReadNoPost, ReadWorkflowToSync, SavePost, WritePost, workflowVars, shareVars
<1>14. ASSUME NEW p \in Posts, BanPost(p) \/ DeletePost(p) PROVE Unmade'
  BY <1>1, <1>14 DEF BanPost, DeletePost, workflowVars, shareVars
<1>15. ASSUME NEW c \in Calls, ShareNext(c) PROVE Unmade'
  <2>1. ASSUME NEW w \in Workflows, ReadSource(c, w) PROVE Quiet
    BY <2>1 DEF ReadSource, Quiet
  <2>2. ASSUME NEW s \in Shares, ReadShare(c, s) \/ ReadShareToCopy(c, s) PROVE Quiet
    BY <2>2 DEF ReadShare, ReadShareToCopy, Quiet
  <2>3. CASE ReadNoShare(c) \/ ListCopies(c) \/ PushEnds(c)
    BY <1>12, <2>3 DEF ReadNoShare, ListCopies, PushEnds, Quiet
  <2> QED BY <1>3, <1>5, <1>6, <1>10, <1>12, <1>15, <2>1, <2>2, <2>3 DEF ShareNext
<1>16. ASSUME NEW c \in Calls, CallFails(c) PROVE Unmade'
  BY <1>12, <1>16 DEF CallFails, Quiet
<1>17. CASE UNCHANGED vars
  BY <1>1, <1>17 DEF vars, workflowVars, shareVars
<1> QED
  BY <1>2, <1>8, <1>9, <1>11, <1>13, <1>14, <1>15, <1>16, <1>17 DEF Next, WorkflowNext

(* A sequence that is one longer than another and begins with it. *)
LEMMA Appended ==
  ASSUME NEW S, NEW n \in Nat, NEW f \in [1..n -> S], NEW g \in [1..(n + 1) -> S],
         \A v \in 1..n : g[v] = f[v]
  PROVE  g = Append(f, g[n + 1])
<1>1. f \in Seq(S) /\ g \in Seq(S)
  BY SeqDef
<1>2. Len(f) = n
  <2>1. Len(f) \in Nat /\ DOMAIN f = 1..Len(f) /\ DOMAIN f = 1..n
    BY <1>1, LenProperties
  <2> QED BY <2>1
<1>3. Len(g) = n + 1
  <2>1. Len(g) \in Nat /\ DOMAIN g = 1..Len(g) /\ DOMAIN g = 1..(n + 1)
    BY <1>1, LenProperties
  <2> QED BY <2>1
<1> DEFINE k == g[n + 1]
<1>4. k \in S
  OBVIOUS
<1> HIDE DEF k
<1>5. /\ Append(f, k) \in Seq(S) /\ Len(Append(f, k)) = n + 1
      /\ \A v \in 1..n : Append(f, k)[v] = f[v]
      /\ Append(f, k)[n + 1] = k
  BY <1>1, <1>2, <1>4, AppendProperties
<1>6. \A v \in 1..(n + 1) : g[v] = Append(f, k)[v]
  BY <1>5 DEF k
<1>7. g = Append(f, k)
  BY <1>1, <1>3, <1>5, <1>6, SeqEqual
<1> QED BY <1>7 DEF k

(* A step that changes neither a link nor its snapshots nor a copy. *)
LEMMA HistoryStutters ==
  ASSUME UNCHANGED <<status, number, issued, mode, source, version, content>>
  PROVE  UNCHANGED History!vars
BY DEF History!vars, History!copyVars

(* The next version is what is appended. *)
LEMMA HistoryGrows ==
  ASSUME TypeOK, NEW r \in CallRecord, NEW t \in Shares, WriteShare(r, t),
         r.content \in Contents, r.version = number[t] + 1, status[t] # "revoked"
  PROVE  History!Save(t, r.content)
<1> DEFINE H == [s \in Shares |-> [v \in 1..number[s] |-> issued[s][v]]]
           n == number[t]
           f == [v \in 1..n |-> issued[t][v]]
           g == [v \in 1..(n + 1) |-> issued'[t][v]]
<1>1. ShareSaved(t, r.wf, r.content, r.version)
  BY ShareIsSaved
<1>2. /\ r.version \in Versions /\ issued'[t][r.version] = r.content
      /\ \A v \in Versions \ {r.version} : issued'[t][v] = issued[t][v]
      /\ number'[t] = r.version
      /\ \A s \in Shares \ {t} : number'[s] = number[s] /\ issued'[s] = issued[s]
      /\ UNCHANGED <<mode, source, version, content>>
  BY <1>1 DEF ShareSaved
<1>3. n \in Nat /\ n + 1 \in Versions /\ Versions = 1..MaxVersion /\ MaxVersion \in Nat
  BY <1>2, ContentAssumption DEF TypeOK, Versions
<1>4. \A v \in 1..n : issued[t][v] \in Contents \cup {None} /\ issued'[t][v] = issued[t][v]
  BY <1>2, <1>3 DEF TypeOK
<1>5. f \in [1..n -> Contents \cup {None}] /\ g \in [1..(n + 1) -> Contents \cup {None}]
  <2>1. \A v \in 1..(n + 1) : issued'[t][v] \in Contents \cup {None}
    BY <1>2, <1>3, <1>4
  <2> QED BY <1>4, <2>1
<1>6. (\A v \in 1..n : g[v] = f[v]) /\ g[n + 1] = r.content
  BY <1>2, <1>3, <1>4
<1>7. H'[t] = g /\ H[t] = f
  BY <1>2
<1>8. g = Append(f, r.content)
  <2> HIDE DEF f, g, n
  <2> QED BY <1>3, <1>5, <1>6, Appended
<1>9. H' = [H EXCEPT ![t] = Append(@, r.content)]
  <2>1. \A s \in Shares \ {t} : H'[s] = H[s]
    BY <1>2
  <2>2. H'[t] = Append(H[t], r.content)
    BY <1>7, <1>8
  <2> QED BY <2>1, <2>2
<1>10. status' = [status EXCEPT ![t] = "active"]
  BY DEF WriteShare
<1> QED BY <1>2, <1>9, <1>10 DEF History!Save, History!copyVars

(* What a call that is copying or pushing has read is in the history. *)
LEMMA HistoryHas ==
  ASSUME NEW s \in Shares, NEW v \in 1..number[s]
  PROVE  LET H == [t \in Shares |-> [n \in 1..number[t] |-> issued[t][n]]]
         IN  v \in DOMAIN H[s] /\ H[s][v] = issued[s][v]
OBVIOUS

(* Every step of the calls is a step of the history or none. *)
LEMMA HistoryStep ==
  ASSUME TypeOK, RowsMade, CallsHaveRead, Unmade, [Next]_vars
  PROVE  [History!Next]_(History!vars)
<1>1. ASSUME UNCHANGED <<status, number, issued, mode, source, version, content>>
      PROVE  [History!Next]_(History!vars)
  BY <1>1, HistoryStutters
<1>2. ASSUME NEW w \in Workflows, NEW k \in Contents, content' = [content EXCEPT ![w] = k],
             UNCHANGED <<status, number, issued, mode, source, version>>
      PROVE  [History!Next]_(History!vars)
  <2>1. History!Edit(w, k)
    BY <1>2 DEF History!Edit
  <2> QED BY <2>1 DEF History!Next
<1>3. ASSUME NEW s \in Shares, NEW k \in Contents, History!Save(s, k)
      PROVE  [History!Next]_(History!vars)
  BY <1>3 DEF History!Next
<1>4. ASSUME NEW S \in SUBSET Shares, \A s \in S : status[s] # "none",
             status' = [s \in Shares |-> IF s \in S THEN "revoked" ELSE status[s]],
             UNCHANGED <<number, issued, mode, source, version, content>>
      PROVE  [History!Next]_(History!vars)
  <2>1. History!Revoke(S)
    BY <1>4 DEF History!Revoke, History!copyVars
  <2> QED BY <2>1 DEF History!Next
<1>5. ASSUME NEW u \in Users, NEW w \in Workflows, NEW k \in Contents, CreateWorkflow(u, w, k)
      PROVE  [History!Next]_(History!vars)
  <2>1. /\ life[w] = "none" /\ content' = [content EXCEPT ![w] = k]
        /\ mode' = [mode EXCEPT ![w] = "none"] /\ source' = [source EXCEPT ![w] = None]
        /\ version' = [version EXCEPT ![w] = 0] /\ UNCHANGED <<status, number, issued>>
    BY <1>5 DEF CreateWorkflow, NewWorkflow, shareVars
  <2>2. mode[w] = "none" /\ source[w] = None /\ version[w] = 0
    BY <2>1 DEF RowsMade, Unmade
  <2>3. UNCHANGED <<mode, source, version>>
    BY <2>1, <2>2 DEF TypeOK
  <2> QED BY <1>2, <2>1, <2>3
<1>6. ASSUME NEW c \in Calls, NEW u \in Users, NEW w \in Workflows,
             NEW m \in {"linked", "detached"}, CopyShare(c, u, w, m)
      PROVE  [History!Next]_(History!vars)
  <2> DEFINE s == call[c].of
             v == call[c].version
  <2>1. /\ life[w] = "none" /\ content' = [content EXCEPT ![w] = call[c].content]
        /\ mode' = [mode EXCEPT ![w] = m] /\ source' = [source EXCEPT ![w] = s]
        /\ version' = [version EXCEPT ![w] = v] /\ UNCHANGED <<status, number, issued>>
    BY <1>6 DEF CopyShare, NewWorkflow, shareVars
  <2>2. s \in Shares /\ v \in 1..number[s] /\ call[c].content = issued[s][v]
    BY <1>6, CopyMakes
  <2>3. source[w] = None
    BY <2>1 DEF RowsMade
  <2> HIDE DEF s, v
  <2>4. History!Take(w, s, v, m)
    BY <2>1, <2>2, <2>3 DEF History!Take
  <2> QED BY <2>2, <2>4, HistoryHas DEF History!Next
<1>7. ASSUME NEW c \in Calls, NEW s \in Shares, SaveNewShare(c, s)
      PROVE  [History!Next]_(History!vars)
  <2>1. /\ call[c] \in CallRecord /\ HasRead(call[c]) /\ WriteShare(call[c], s)
        /\ call[c].step = "updating" /\ call[c].of = None /\ status[s] = "none"
    BY <1>7 DEF SaveNewShare, TypeOK, CallsHaveRead
  <2>2. call[c].content \in Contents /\ call[c].version = number[s] + 1
    BY <2>1 DEF HasRead, Unmade
  <2> QED BY <1>3, <2>1, <2>2, HistoryGrows
<1>8. ASSUME NEW c \in Calls, SaveShare(c) PROVE [History!Next]_(History!vars)
  <2>1. call[c] \in CallRecord /\ WriteShare(call[c], call[c].of)
    BY <1>8 DEF SaveShare, TypeOK
  <2>2. /\ call[c].of \in Shares /\ status[call[c].of] = "active" /\ call[c].content \in Contents
        /\ call[c].version = number[call[c].of] + 1
    BY <1>8, ShareSaves
  <2> QED BY <1>3, <2>1, <2>2, HistoryGrows
<1>9. ASSUME NEW c \in Calls, NEW w \in Workflows, PushCopy(c, w)
      PROVE  [History!Next]_(History!vars)
  <2> DEFINE s == call[c].of
             v == call[c].version
  <2>1. /\ call[c].step = "pushing" /\ w \in call[c].todo
        /\ UNCHANGED <<mode, source, status, number, issued>>
    BY <1>9 DEF PushCopy, shareVars
  <2>2. /\ s \in Shares /\ v \in 1..number[s] /\ call[c].content = issued[s][v]
        /\ source[w] = s /\ mode[w] = "linked"
    BY <2>1 DEF CallsHaveRead, HasRead, LinkedCopies
  <2>3. CASE Live(w) /\ Outdated(w, v)
    <3>1. /\ content' = [content EXCEPT ![w] = call[c].content]
          /\ version' = [version EXCEPT ![w] = v]
      BY <1>9, <2>3 DEF PushCopy
    <3>2. v > version[w]
      BY <2>2, <2>3 DEF Outdated, TypeOK
    <3> HIDE DEF s, v
    <3>3. History!CatchUp(w, s, v)
      BY <2>1, <2>2, <3>1, <3>2 DEF History!CatchUp
    <3> QED BY <2>2, <3>3, HistoryHas DEF History!Next
  <2>4. CASE ~(Live(w) /\ Outdated(w, v))
    <3>1. UNCHANGED <<content, version>>
      BY <1>9, <2>4 DEF PushCopy, TypeOK
    <3> QED BY <1>1, <2>1, <3>1
  <2> QED BY <2>3, <2>4
<1>10. ASSUME NEW w \in Workflows, NEW k \in Contents, UpdateWorkflow(w, k)
       PROVE  [History!Next]_(History!vars)
  BY <1>2, <1>10 DEF UpdateWorkflow, shareVars
<1>11. ASSUME NEW w \in Workflows, DeleteWorkflow(w) PROVE [History!Next]_(History!vars)
  <2>1. \A s \in SharesOf(w) : s \in Shares /\ status[s] # "none"
    BY RowAssumption DEF SharesOf, RowsMade, Scopes
  <2>2. SharesOf(w) \in SUBSET Shares
    BY <2>1
  <2> QED BY <1>4, <1>11, <2>1, <2>2 DEF DeleteWorkflow
<1>12. ASSUME NEW s \in Shares, RevokeShare(s) PROVE [History!Next]_(History!vars)
  <2>1. status[s] = "active" /\ status' = [status EXCEPT ![s] = "revoked"]
    BY <1>12 DEF RevokeShare
  <2>2. status' = [t \in Shares |-> IF t \in {s} THEN "revoked" ELSE status[t]]
    BY <2>1 DEF TypeOK
  <2>3. UNCHANGED <<number, issued, mode, source, version, content>>
    BY <1>12 DEF RevokeShare, workflowVars
  <2> QED BY <1>4, <2>1, <2>2, <2>3
<1>13. CASE Quiet
  BY <1>1, <1>13 DEF Quiet, workflowVars, shareVars
<1>14. ASSUME NEW c \in Calls, NEW p \in Posts, SaveNewPost(c, p)
       PROVE  [History!Next]_(History!vars)
  BY <1>1, <1>14 DEF SaveNewPost, WritePost, workflowVars, shareVars
<1>15. ASSUME NEW c \in Calls, SavePost(c) PROVE [History!Next]_(History!vars)
  BY <1>1, <1>15 DEF SavePost, WritePost, workflowVars, shareVars
<1>16. ASSUME NEW p \in Posts, BanPost(p) \/ DeletePost(p) PROVE [History!Next]_(History!vars)
  BY <1>1, <1>16 DEF BanPost, DeletePost, workflowVars, shareVars
<1>17. CASE Writes
  BY <1>5, <1>6, <1>7, <1>8, <1>9, <1>10, <1>11, <1>12, <1>14, <1>15, <1>16, <1>17 DEF Writes
<1> QED BY <1>13, <1>17, StepKinds

(* Whatever calls overlap, fail or die, a link has one history: no version   *)
(* is issued twice, skipped or rewritten, nothing is added after the link  *)
(* is revoked, a copy is a snapshot of that history until its owner writes  *)
(* over it, and a linked copy is only ever taken forward along it.         *)
THEOREM OneHistory == Spec => HistorySpec
<1>1. Init => History!Init /\ Unmade
  <2>1. SUFFICES ASSUME Init PROVE History!Init /\ Unmade
    OBVIOUS
  <2>2. \A s \in Shares : [v \in 1..number[s] |-> issued[s][v]] = <<>>
    <3>1. \A s \in Shares : number[s] = 0 /\ 1..0 = {}
      BY <2>1 DEF Init
    <3> QED BY <3>1
  <2>3. [s \in Shares |-> [v \in 1..number[s] |-> issued[s][v]]] = [s \in Shares |-> <<>>]
    BY <2>2
  <2> QED BY <2>1, <2>3 DEF Init, History!Init, Unmade
<1>2. SharesInv /\ Unmade /\ [Next]_vars => Unmade' /\ [History!Next]_(History!vars)
  BY UnmadeStep, HistoryStep DEF SharesInv
<1> QED BY Invariance, <1>1, <1>2, PTL DEF Spec, HistorySpec, History!Spec
=============================================================================
