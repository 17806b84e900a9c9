------------------------------ MODULE PageDesign ------------------------------
(***************************************************************************)
(* The look of one status page: the editors open on it, the draft they     *)
(* share, the published versions and the images both refer to.             *)
(*                                                                         *)
(* components/admin/SimpleAppearanceEditor.tsx and AssetUploader.tsx (the  *)
(* browser), pages/[pageId]/design/actions.ts and the assets route (the    *)
(* server).  A design is a look and one image.  A browser sends its server *)
(* actions one after the other; each runs as one transaction that locks    *)
(* the page, except the sweep of images that follows a publishing.         *)
(***************************************************************************)
EXTENDS Naturals, Sequences, FiniteSets

CONSTANTS
    Editors,       \* bound: browser tabs on the appearance page
    Looks,         \* bound: layouts, styles, colours
    Images,        \* bound: uploads, each with an id of its own
    None,          \* no image, no upload, no sweep
    FirstLook,     \* what createPage publishes
    HistoryLimit,  \* PAGE_DESIGN_VERSION_HISTORY_LIMIT (30)
    MaxEvents,     \* bound: edits, requests refused or lost, failed sweeps
    MaxCalls       \* bound: server actions a tab has under way

ASSUME DesignsAssumption == FirstLook \in Looks /\ None \notin Images
ASSUME LimitsAssumption ==
    /\ HistoryLimit \in Nat \ {0}
    /\ MaxEvents \in Nat /\ MaxCalls \in Nat \ {0}

VARIABLES
    page,      \* pages: publishedDesign and publishedDesignVersion
    draft,     \* pageDesignDrafts: the page's row; revision 0 is no row
    versions,  \* pageDesignVersions: those kept
    image,     \* assets and assetBlobs: the row and the file of an image
    editor,    \* the state of each SimpleAppearanceEditor
    calls,     \* its server actions, the first of them at the server
    upload,    \* its AssetUploader's request
    sweep,     \* pruneUnreferencedDesignerAssets after its publishing
    seen,      \* history: the design this tab last loaded or stored
    mishaps,   \* history: since it loaded, another tab changed the draft or
               \* the page, an answer was lost, or it was edited during a call
    events     \* bound: edits and faults so far

design == <<page, draft, versions>>
client == <<editor, seen>>
vars == <<design, client, image, calls, upload, sweep, mishaps, events>>

Designs == [look : Looks, image : Images \union {None}]
FirstDesign == [look |-> FirstLook, image |-> None]
Places == {"page", "draft", "versions", "assets"}

Blank == [state |-> "CLOSED", design |-> FirstDesign,
          published |-> FirstDesign, revision |-> 0]

\* createPage: version 1 has no row among the versions.
Init ==
    /\ page = [version |-> 1, design |-> FirstDesign]
    /\ draft = [revision |-> 0, base |-> 1, design |-> FirstDesign]
    /\ versions = {}
    /\ image = [i \in Images |-> [row |-> "NONE", file |-> FALSE]]
    /\ editor = [e \in Editors |-> Blank]
    /\ calls = [e \in Editors |-> << >>]
    /\ upload = [e \in Editors |-> None]
    /\ sweep = [e \in Editors |-> None]
    /\ seen = [e \in Editors |-> FirstDesign]
    /\ mishaps = [e \in Editors |-> {}]
    /\ events = 0

Event == events < MaxEvents /\ events' = events + 1

-----------------------------------------------------------------------------
(***************************************************************************)
(* The browser                                                             *)
(***************************************************************************)

IsOpen(e) == editor[e].state \notin {"CLOSED", "LOADING"}

\* PageAppearance reads the page, then the draft.
OpenPage(e) ==
    /\ editor[e].state = "CLOSED"
    /\ editor' = [editor EXCEPT ![e].state = "LOADING",
                                ![e].published = page.design]
    /\ mishaps' = [mishaps EXCEPT ![e] = {}]
    /\ UNCHANGED <<design, seen, image, calls, upload, sweep, events>>

OpenDraft(e) ==
    LET loaded == IF draft.revision > 0 THEN draft.design
                                        ELSE editor[e].published
    IN  /\ editor[e].state = "LOADING"
        /\ editor' = [editor EXCEPT ![e].state = "SAVED",
                                    ![e].design = loaded,
                                    ![e].revision = draft.revision]
        /\ seen' = [seen EXCEPT ![e] = loaded]
        /\ UNCHANGED <<design, image, calls, upload, sweep, mishaps, events>>

\* A tab that is left with calls under way is one that never edits again.
CloseTab(e) ==
    /\ IsOpen(e) /\ calls[e] = << >> /\ upload[e] = None
    /\ editor' = [editor EXCEPT ![e] = Blank]
    /\ seen' = [seen EXCEPT ![e] = FirstDesign]
    /\ mishaps' = [mishaps EXCEPT ![e] = {}]
    /\ UNCHANGED <<design, image, calls, upload, sweep, events>>

\* commit
Commits(e, next) ==
    /\ next # editor[e].design
    /\ editor' = [editor EXCEPT ![e].design = next, ![e].state = "DIRTY"]
    /\ mishaps' = IF calls[e] = << >> THEN mishaps
                  ELSE [mishaps EXCEPT ![e] = @ \union {"late"}]
    /\ UNCHANGED <<design, seen, calls, sweep>>

\* selectLayout, selectPreset, selectBrandColor, the other fields
ChangeLook(e, look) ==
    /\ IsOpen(e) /\ Event
    /\ Commits(e, [editor[e].design EXCEPT !.look = look])
    /\ UNCHANGED <<image, upload>>

\* remove of a staged AssetUploader; the file stays.
RemoveImage(e) ==
    /\ IsOpen(e) /\ upload[e] = None /\ Event
    /\ Commits(e, [editor[e].design EXCEPT !.image = None])
    /\ UNCHANGED <<image, upload>>

Calling(e, call) ==
    /\ editor' = [editor EXCEPT ![e].state = "SAVING"]
    /\ calls' = [calls EXCEPT ![e] = Append(@, call)]
    /\ mishaps' = IF calls[e] = << >>
                  THEN [mishaps EXCEPT ![e] = @ \ {"late"}] ELSE mishaps
    /\ UNCHANGED <<design, seen, image, upload, sweep, events>>

Call(op, shown, revision, publishes) ==
    [op |-> op, design |-> shown, revision |-> revision,
     publishes |-> publishes, result |-> "NONE"]

\* saveDraft, 800 ms after the last edit: a change of the state in between
\* clears the timer.
Autosave(e) ==
    /\ editor[e].state = "DIRTY" /\ Len(calls[e]) < MaxCalls
    /\ Calling(e, Call("save", editor[e].design, editor[e].revision, FALSE))

\* publish: saves first.
ClickPublish(e) ==
    /\ editor[e].state \in {"SAVED", "DIRTY", "ERROR"}
    /\ editor[e].design # editor[e].published
    /\ Len(calls[e]) < MaxCalls
    /\ Calling(e, Call("save", editor[e].design, editor[e].revision, TRUE))

-----------------------------------------------------------------------------
(***************************************************************************)
(* The server actions                                                      *)
(***************************************************************************)

Serves(e, op) == calls[e] # << >> /\ Head(calls[e]).op = op
                                  /\ Head(calls[e]).result = "NONE"

\* Mutant: the tab is told the revision it expected, not the new one.
ReturnsExpected(e, result, revision) ==
    calls' = [calls EXCEPT ![e][1].result = result]

Returns(e, result, revision) ==
    calls' = [calls EXCEPT ![e][1].result = result,
                           ![e][1].revision = revision]

TellsOthers(e) ==
    mishaps' = [o \in Editors |->
                   IF o = e THEN mishaps[o] ELSE mishaps[o] \union {"foreign"}]

\* Mutant: a tab opened before there was a draft is not held against it.
StaleUnlessNew(expected) == expected > 0 /\ draft.revision # expected

\* saveDesignDraft: the revision the tab expects is not the draft's, or the
\* page has been published since.
Stale(expected) ==
    \/ draft.revision # expected
    \/ draft.revision > 0 /\ draft.base # page.version

Save(e) ==
    LET call == Head(calls[e])
        changed == draft.revision = 0 \/ draft.design # call.design
    IN  /\ Serves(e, "save") /\ ~Stale(call.revision)
        /\ IF changed
           THEN /\ draft' = [revision |-> draft.revision + 1,
                             base |-> page.version, design |-> call.design]
                /\ TellsOthers(e)
           ELSE UNCHANGED <<draft, mishaps>>
        /\ Returns(e, "OK", draft'.revision)
        /\ UNCHANGED <<page, versions, client, image, upload, sweep, events>>

\* publishDesignDraft
CannotPublish(expected) == draft.revision = 0 \/ Stale(expected)

\* Mutant: one too few.
KeptButOne(rows) ==
    {row \in rows :
        Cardinality({r \in rows : r.version > row.version}) < HistoryLimit - 1}

\* pruneDesignHistory keeps the newest by publishedAt.  The web process stamps
\* it under the lock that numbers the versions, so that both orders are the same
\* as long as no clock runs backwards between two publishings: assumed here.
Kept(rows) ==
    {row \in rows :
        Cardinality({r \in rows : r.version > row.version}) < HistoryLimit}

PublishSame(e) ==
    LET call == Head(calls[e])
    IN  /\ Serves(e, "publish") /\ ~CannotPublish(call.revision)
        /\ draft.design = page.design
        /\ Returns(e, "OK", draft.revision)
        /\ UNCHANGED <<design, client, image, upload, sweep, mishaps, events>>

\* The transaction; the images follow before the tab is answered.
PublishNew(e) ==
    LET call == Head(calls[e])
        next == page.version + 1
    IN  /\ Serves(e, "publish") /\ ~CannotPublish(call.revision)
        /\ draft.design # page.design
        /\ page' = [version |-> next, design |-> draft.design]
        /\ versions' = Kept(versions \union {page'})
        /\ draft' = [draft EXCEPT !.base = next]
        /\ Returns(e, "SWEEPING", draft.revision)
        /\ sweep' = [sweep EXCEPT ![e] =
                        [unread |-> Places, doomed |-> Images, dropped |-> None,
                         version |-> next, revision |-> draft.revision]]
        /\ TellsOthers(e)
        /\ UNCHANGED <<client, image, upload, events>>

\* Both answer a conflict without a change.
Conflict(e) ==
    /\ \/ Serves(e, "save") /\ Stale(Head(calls[e]).revision)
       \/ Serves(e, "publish") /\ CannotPublish(Head(calls[e]).revision)
    /\ Returns(e, "CONFLICT", Head(calls[e]).revision)
    /\ UNCHANGED <<design, client, image, upload, sweep, mishaps, events>>

\* A session that ended, an organization that is not ACTIVE, a failed
\* statement: the transaction is undone.
Refuse(e) ==
    /\ Serves(e, "save") \/ Serves(e, "publish")
    /\ Returns(e, "FAILED", Head(calls[e]).revision)
    /\ Event
    /\ UNCHANGED <<design, client, image, upload, sweep, mishaps>>

\* What saveDraft and publish do with the result.
Answered(e) ==
    LET call == Head(calls[e])
        goesOn == call.op = "save" /\ call.result = "OK" /\ call.publishes
        state == CASE call.result = "CONFLICT" -> "CONFLICT"
                   [] call.result = "FAILED" -> "ERROR"
                   [] goesOn -> "SAVING"
                   [] OTHER -> "SAVED"
        stored == call.op = "save" /\ call.result = "OK"
        shown == call.op = "publish" /\ call.result = "OK"
        rest == Tail(calls[e])
    IN  /\ calls[e] # << >> /\ call.result \in {"OK", "CONFLICT", "FAILED"}
        /\ editor' = [editor EXCEPT
              ![e].state = state,
              ![e].revision = IF stored THEN call.revision ELSE @,
              ![e].published = IF shown THEN call.design ELSE @]
        /\ seen' = IF stored THEN [seen EXCEPT ![e] = call.design] ELSE seen
        /\ calls' = [calls EXCEPT ![e] =
              IF goesOn
              THEN Append(rest, Call("publish", call.design, call.revision, FALSE))
              ELSE rest]
        /\ UNCHANGED <<design, image, upload, sweep, mishaps, events>>

\* The request or its answer is lost; saveDraft throws and changes nothing.
AnswerLost(e) ==
    /\ calls[e] # << >> /\ Head(calls[e]).result # "SWEEPING"
    /\ calls' = [calls EXCEPT ![e] = Tail(@)]
    /\ mishaps' = [mishaps EXCEPT ![e] = @ \union {"lost"}]
    /\ Event
    /\ UNCHANGED <<design, client, image, upload, sweep>>

-----------------------------------------------------------------------------
(***************************************************************************)
(* Images                                                                  *)
(***************************************************************************)

\* upload and POST: the file first, then its row.  The design of this moment
\* is the one the image is put into when the answer comes.
StartUpload(e, i) ==
    /\ IsOpen(e) /\ upload[e] = None /\ Event
    /\ image[i] = [row |-> "NONE", file |-> FALSE]
    /\ image' = [image EXCEPT ![i].file = TRUE]
    /\ upload' = [upload EXCEPT ![e] = [image |-> i, into |-> editor[e].design]]
    /\ UNCHANGED <<design, client, calls, sweep, mishaps>>

InsertRow(e) ==
    /\ upload[e] # None /\ image[upload[e].image].row = "NONE"
    /\ image' = [image EXCEPT ![upload[e].image].row = "LIVE"]
    /\ UNCHANGED <<design, client, calls, upload, sweep, mishaps, events>>

\* The transaction fails, and the file is deleted again.
UploadRefused(e) ==
    /\ upload[e] # None /\ image[upload[e].image].row = "NONE"
    /\ image' = [image EXCEPT ![upload[e].image].file = FALSE]
    /\ upload' = [upload EXCEPT ![e] = None]
    /\ Event
    /\ UNCHANGED <<design, client, calls, sweep, mishaps>>

\* The process stops, or the answer takes longer than a minute.
UploadLost(e) ==
    /\ upload[e] # None
    /\ upload' = [upload EXCEPT ![e] = None]
    /\ Event
    /\ UNCHANGED <<design, client, image, calls, sweep, mishaps>>

\* onStagedChange
Uploaded(e) ==
    /\ upload[e] # None /\ image[upload[e].image].row # "NONE"
    /\ Commits(e, [upload[e].into EXCEPT !.image = upload[e].image])
    /\ upload' = [upload EXCEPT ![e] = None]
    /\ UNCHANGED <<image, events>>

\* Mutant: the versions kept are not asked.
SparesNow(place) ==
    CASE place = "page" -> {page.design.image}
      [] place = "draft" -> {draft.design.image : r \in 1..draft.revision}
      [] place = "versions" -> {}
      [] place = "assets" -> {i \in Images : image[i].row # "LIVE"}

\* pruneUnreferencedDesignerAssets.  Its four reads are not one snapshot, and
\* come in any order: the images that each of them refers to are spared, and
\* so are those that have no row when the assets are read.  With none left to
\* delete the other reads change nothing.
Spares(place) ==
    CASE place = "page" -> {page.design.image}
      [] place = "draft" -> {draft.design.image : r \in 1..draft.revision}
      [] place = "versions" -> {row.design.image : row \in versions}
      [] place = "assets" -> {i \in Images : image[i].row # "LIVE"}

SweepReads(e, place) ==
    /\ sweep[e] # None /\ place \in sweep[e].unread
    /\ LET left == sweep[e].doomed \ Spares(place)
       IN  sweep' = [sweep EXCEPT
              ![e].unread = IF left = {} THEN {} ELSE @ \ {place},
              ![e].doomed = left]
    /\ UNCHANGED <<design, client, image, calls, upload, mishaps, events>>

SweepActs(e) ==
    sweep[e] # None /\ sweep[e].unread = {} /\ sweep[e].dropped = None

\* The row, unless another sweep had it; its file only then.
DropRow(e, i) ==
    /\ SweepActs(e) /\ i \in sweep[e].doomed
    /\ sweep' = [sweep EXCEPT
          ![e].doomed = @ \ {i},
          ![e].dropped = IF image[i].row = "LIVE" THEN i ELSE None]
    /\ image' = [image EXCEPT ![i].row = IF @ = "LIVE" THEN "DELETED" ELSE @]
    /\ UNCHANGED <<design, client, calls, upload, mishaps, events>>

\* A file that cannot be deleted is left.
DropFile(e) ==
    /\ sweep[e] # None /\ sweep[e].dropped # None
    /\ sweep' = [sweep EXCEPT ![e].dropped = None]
    /\ \/ /\ image' = [image EXCEPT ![sweep[e].dropped].file = FALSE]
          /\ UNCHANGED events
       \/ Event /\ UNCHANGED image
    /\ UNCHANGED <<design, client, calls, upload, mishaps>>

SweepEnds(e) ==
    /\ SweepActs(e) /\ sweep[e].doomed = {}
    /\ sweep' = [sweep EXCEPT ![e] = None]
    /\ Returns(e, "OK", Head(calls[e]).revision)
    /\ UNCHANGED <<design, client, image, upload, mishaps, events>>

\* A statement fails or the process stops: published, but answered as failed.
SweepFails(e) ==
    /\ sweep[e] # None
    /\ sweep' = [sweep EXCEPT ![e] = None]
    /\ Returns(e, "FAILED", Head(calls[e]).revision)
    /\ Event
    /\ UNCHANGED <<design, client, image, upload, mishaps>>

Next ==
    \E e \in Editors :
        \/ OpenPage(e) \/ OpenDraft(e) \/ CloseTab(e)
        \/ \E look \in Looks : ChangeLook(e, look)
        \/ RemoveImage(e)
        \/ Autosave(e) \/ ClickPublish(e)
        \/ Save(e) \/ PublishSame(e) \/ PublishNew(e)
        \/ Conflict(e) \/ Refuse(e) \/ Answered(e) \/ AnswerLost(e)
        \/ \E i \in Images : StartUpload(e, i) \/ DropRow(e, i)
        \/ InsertRow(e) \/ UploadRefused(e) \/ UploadLost(e) \/ Uploaded(e)
        \/ \E place \in Places : SweepReads(e, place)
        \/ DropFile(e) \/ SweepEnds(e) \/ SweepFails(e)

Spec == Init /\ [][Next]_vars

-----------------------------------------------------------------------------
(***************************************************************************)
(* Properties                                                              *)
(***************************************************************************)

States == {"CLOSED", "LOADING", "SAVED", "DIRTY", "SAVING", "CONFLICT", "ERROR"}
Revisions == Nat
Versions == Nat \ {0}
Drafts == [revision : Revisions, base : Versions, design : Designs]
Pages == [version : Versions, design : Designs]
Calls == [op : {"save", "publish"}, design : Designs, revision : Revisions,
          publishes : BOOLEAN,
          result : {"NONE", "SWEEPING", "OK", "CONFLICT", "FAILED"}]
Uploads == [image : Images, into : Designs]
Sweeps == [unread : SUBSET Places, doomed : SUBSET Images,
           dropped : Images \union {None},
           version : Versions, revision : Revisions]

TypeOK ==
    /\ page \in Pages /\ draft \in Drafts /\ versions \subseteq Pages
    /\ image \in [Images -> [row : {"NONE", "LIVE", "DELETED"}, file : BOOLEAN]]
    /\ editor \in [Editors -> [state : States, design : Designs,
                               published : Designs, revision : Revisions]]
    /\ calls \in [Editors -> Seq(Calls)]
    /\ \A e \in Editors : Len(calls[e]) <= MaxCalls
    /\ upload \in [Editors -> Uploads \union {None}]
    /\ sweep \in [Editors -> Sweeps \union {None}]
    /\ mishaps \in [Editors -> SUBSET {"foreign", "late", "lost"}]
    /\ seen \in [Editors -> Designs]
    /\ events \in 0..MaxEvents

\* The stored rows agree whatever the tabs do to them at the same time: the
\* page shows the newest version, exactly the last HistoryLimit versions are
\* kept, a draft is always based on the live version, and an image that is
\* served has its file (publishDesignDraft, pruneDesignHistory, the route).
RowsAgree ==
    /\ TypeOK
    /\ draft.revision > 0 => draft.base = page.version
    /\ page.version > 1 => page \in versions
    /\ {row.version : row \in versions} =
           {n \in 2..page.version : n + HistoryLimit > page.version}
    /\ \A i \in Images : image[i].row = "LIVE" => image[i].file

\* The label of the editor tells the truth.  "Draft rN" of a tab that was not
\* edited during a call is the design it stored, and, if nobody else changed
\* it and no answer was lost, the draft there is; "Reload needed" comes only
\* after one of the three (saveDraft, publish).
LabelIsTrue ==
    \A e \in Editors :
        /\ editor[e].state = "SAVED" /\ "late" \notin mishaps[e]
             => editor[e].design = seen[e]
        /\ editor[e].state = "SAVED" /\ mishaps[e] = {} /\ draft.revision > 0
             => /\ editor[e].revision = draft.revision
                /\ editor[e].design = draft.design
        /\ editor[e].state = "CONFLICT" => mishaps[e] # {}

\* No one's work is overwritten and nothing is published unasked: a tab
\* replaces only the draft that it loaded or stored last, and the page
\* changes to nothing but the design shown at a click of "Publish changes"
\* (the revision that saveDesignDraft and publishDesignDraft compare).
OnlyKnownWorkIsReplaced ==
    [][\A e \in Editors :
        LET acts == calls'[e] # calls[e]
        IN  /\ acts /\ draft'.design # draft.design /\ draft.revision > 0
                 => seen[e] = draft.design
            /\ acts /\ page' # page => page'.design = Head(calls[e]).design
      ]_vars

\* The sweep after a publishing deletes no image of a version that was there
\* when it began and is kept still, nor one of the draft as it was then, as
\* long as that draft stands (pruneUnreferencedDesignerAssets).
KeptImagesAreSpared ==
    [][\A e \in Editors : sweep[e] # None =>
        \A i \in Images :
            image[i].row = "LIVE" /\ image'[i].row = "DELETED"
                /\ sweep'[e] # sweep[e] =>
            /\ \A row \in versions :
                   row.version <= sweep[e].version => row.design.image # i
            /\ sweep[e].revision = draft.revision => draft.design.image # i
      ]_vars

=============================================================================
