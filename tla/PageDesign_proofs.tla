-------------------------- MODULE PageDesign_proofs --------------------------
(***************************************************************************)
(* Safety of the appearance pages for every number of tabs, looks, images, *)
(* edits, faults, calls under way and versions kept.                       *)
(*                                                                         *)
(* The four properties need each other's strengthening.  A tab's revision  *)
(* stands for the design it has seen (TabInv); as long as nobody else      *)
(* wrote and no answer was lost it is the draft's, and as long as nothing  *)
(* was edited during a call there is one call at most (LabelInv).  A sweep *)
(* has spared what it has read about (SweepInv), an upload owns its image  *)
(* until its row is there (ImageInv), and versions have one row each       *)
(* (RowsInv).                                                              *)
(***************************************************************************)
EXTENDS PageDesign, FiniteSetTheorems, SequenceTheorems, TLAPS

\* One row per version; the draft is based on the page; the page is kept.
RowsInv ==
    /\ draft.revision > 0 => draft.base = page.version
    /\ page.version > 1 => page \in versions
    /\ {row.version : row \in versions} =
           {n \in 2..page.version : n + HistoryLimit > page.version}
    /\ \A r, s \in versions : r.version = s.version => r = s

\* A file is there before its row and as long as it; until the row is there
\* one upload knows of it, so that a failed one may delete the file again.
ImageInv ==
    /\ \A i \in Images : image[i].row = "LIVE" => image[i].file
    /\ \A e \in Editors : upload[e] # None /\ image[upload[e].image].row = "NONE" =>
          /\ image[upload[e].image].file
          /\ \A f \in Editors : upload[f] # None /\ upload[f].image = upload[e].image => f = e
    /\ \A e \in Editors : sweep[e] # None /\ sweep[e].dropped # None =>
          image[sweep[e].dropped].row = "DELETED"

\* A sweep belongs to a publishing that has not been answered; what is doomed
\* after a read is in nothing that was read.
SweepInv(e) ==
    sweep[e] # None =>
        /\ calls[e] # << >>
        /\ Head(calls[e]).op = "publish" /\ Head(calls[e]).result = "SWEEPING"
        /\ sweep[e].version <= page.version
        /\ sweep[e].revision > 0 /\ sweep[e].revision <= draft.revision
        /\ "versions" \notin sweep[e].unread =>
              \A row \in versions :
                  row.version <= sweep[e].version => row.design.image \notin sweep[e].doomed
        /\ "draft" \notin sweep[e].unread /\ sweep[e].revision = draft.revision =>
              draft.design.image \notin sweep[e].doomed

\* A call expects a revision that the tab has had; a call that carries the
\* draft's revision after it was saved carries the draft's design.
CallInv(e, n) ==
    LET call == calls[e][n]
        current == call.revision = draft.revision => call.design = draft.design
    IN  /\ n > 1 => call.result = "NONE"
        /\ call.revision <= draft.revision
        /\ call.op = "save" /\ call.result = "NONE" => call.revision <= editor[e].revision
        /\ call.op = "save" /\ call.result = "OK" =>
              call.revision > 0 /\ call.revision >= editor[e].revision /\ current
        /\ call.op = "publish" => call.revision > 0 /\ current

\* A tab with the draft's revision has seen the draft.
TabInv(e) ==
    /\ editor[e].revision <= draft.revision
    /\ editor[e].revision = draft.revision /\ draft.revision > 0 => seen[e] = draft.design
    /\ ~IsOpen(e) => calls[e] = << >> /\ upload[e] = None
    /\ \A n \in DOMAIN calls[e] : CallInv(e, n)

Stored(e) == calls[e] # << >> /\ Head(calls[e]).op = "save" /\ Head(calls[e]).result = "OK"

\* What the label of the editor depends on.
LabelInv(e) ==
    /\ IsOpen(e) /\ "foreign" \notin mishaps[e] /\ "lost" \notin mishaps[e] =>
          draft.revision = IF Stored(e) THEN Head(calls[e]).revision ELSE editor[e].revision
    /\ "late" \notin mishaps[e] =>
          /\ editor[e].state = "SAVED" => editor[e].design = seen[e]
          /\ Len(calls[e]) <= 1
          /\ calls[e] # << >> =>
                /\ editor[e].state = "SAVING"
                /\ Head(calls[e]).design = editor[e].design
                /\ Head(calls[e]).op = "publish" => seen[e] = editor[e].design
                /\ Head(calls[e]).result = "NONE" => Head(calls[e]).revision = editor[e].revision
    /\ editor[e].state = "CONFLICT" => mishaps[e] # {}
    /\ calls[e] # << >> /\ Head(calls[e]).result = "CONFLICT" => mishaps[e] # {}

DesignInv ==
    /\ TypeOK /\ RowsInv /\ ImageInv
    /\ \A e \in Editors : SweepInv(e) /\ TabInv(e) /\ LabelInv(e)
USE DesignsAssumption, LimitsAssumption

Tabs == [state : States, design : Designs, published : Designs, revision : Revisions]
Results == {"NONE", "SWEEPING", "OK", "CONFLICT", "FAILED"}

-----------------------------------------------------------------------------
(* The queue of calls of a tab.                                            *)

LEMMA QueueFacts ==
  ASSUME NEW s \in Seq(Calls)
  PROVE  /\ Len(s) \in Nat /\ DOMAIN s = 1..Len(s)
         /\ \A n \in 1..Len(s) : s[n] \in Calls
         /\ s = << >> <=> Len(s) = 0
         /\ s # << >> => Head(s) = s[1] /\ 1 \in DOMAIN s /\ Head(s) \in Calls
  BY LenProperties, EmptySeq, HeadTailProperties

\* A call at the end.
LEMMA AppendFacts ==
  ASSUME NEW s \in Seq(Calls), NEW c \in Calls
  PROVE  /\ Append(s, c) \in Seq(Calls) /\ Append(s, c) # << >>
         /\ Len(Append(s, c)) = Len(s) + 1
         /\ \A n \in 1..Len(s) : Append(s, c)[n] = s[n]
         /\ Append(s, c)[Len(s) + 1] = c
         /\ Head(Append(s, c)) = IF s = << >> THEN c ELSE Head(s)
  BY AppendProperties, HeadTailAppend

\* The first call answered or given up.
LEMMA TailFacts ==
  ASSUME NEW s \in Seq(Calls), s # << >>
  PROVE  /\ Tail(s) \in Seq(Calls) /\ Len(Tail(s)) = Len(s) - 1
         /\ \A n \in 1..Len(Tail(s)) : Tail(s)[n] = s[n + 1]
  BY HeadTailProperties

\* A call as the browser makes it.
LEMMA CallType ==
  ASSUME NEW op \in {"save", "publish"}, NEW d \in Designs, NEW r \in Nat,
         NEW publishes \in BOOLEAN
  PROVE  Call(op, d, r, publishes) \in Calls
  BY DEF Call, Calls, Revisions

\* The first call with its result.
LEMMA ReturnFacts ==
  ASSUME calls \in [Editors -> Seq(Calls)], NEW e \in Editors, calls[e] # << >>,
         NEW result \in Results, NEW revision \in Nat, Returns(e, result, revision)
  PROVE  \E s \in Seq(Calls) :
            /\ calls' = [calls EXCEPT ![e] = s]
            /\ s # << >> /\ Len(s) = Len(calls[e])
            /\ \A n \in 2..Len(s) : s[n] = calls[e][n]
            /\ Head(s).op = Head(calls[e]).op /\ Head(s).design = Head(calls[e]).design
            /\ Head(s).result = result /\ Head(s).revision = revision
  <1> DEFINE c == [calls[e][1] EXCEPT !.result = result, !.revision = revision]
             s == [calls[e] EXCEPT ![1] = c]
  <1>1. calls[e] \in Seq(Calls) /\ 1 \in 1..Len(calls[e]) /\ calls[e][1] \in Calls
        /\ Head(calls[e]) = calls[e][1] /\ DOMAIN calls[e] = 1..Len(calls[e])
    BY QueueFacts
  <1>2. c \in Calls /\ c.op = calls[e][1].op /\ c.design = calls[e][1].design
    BY <1>1 DEF Calls, Revisions, Results
  <1>3. c.result = result /\ c.revision = revision
    BY <1>1 DEF Calls
  <1>4. calls' = [calls EXCEPT ![e] = s]
    BY <1>1 DEF Returns, Calls
  <1> HIDE DEF c
  <1>5. /\ s \in Seq(Calls) /\ Len(s) = Len(calls[e])
        /\ \A n \in 1..Len(s) : s[n] = IF n = 1 THEN c ELSE calls[e][n]
    BY <1>1, <1>2, ExceptSeq
  <1> HIDE DEF s
  <1>6. s # << >> /\ Head(s) = c
    BY <1>1, <1>5, QueueFacts
  <1>7. \A n \in 2..Len(s) : s[n] = calls[e][n]
    <2>1. Len(s) \in Nat
      BY <1>5, QueueFacts
    <2>2. QED
      BY <1>5, <2>1
  <1>8. /\ Head(s).op = Head(calls[e]).op /\ Head(s).design = Head(calls[e]).design
        /\ Head(s).result = result /\ Head(s).revision = revision
    BY <1>1, <1>2, <1>3, <1>6
  <1>9. QED
    BY <1>4, <1>5, <1>6, <1>7, <1>8
-----------------------------------------------------------------------------
(* What a step of one tab leaves to the others.                            *)

\* Versions and revisions only grow, and a revision stands for one design.
DesignStep ==
    /\ page'.version >= page.version
    /\ draft'.revision >= draft.revision
    /\ draft'.revision = draft.revision => draft'.design = draft.design
    /\ \A row \in versions' : row \in versions \/ row.version > page.version

\* The other tabs stand still, but are marked when the draft changes.
Others(e) ==
    \A o \in Editors \ {e} :
        /\ editor'[o] = editor[o] /\ seen'[o] = seen[o] /\ calls'[o] = calls[o]
        /\ upload'[o] = upload[o] /\ sweep'[o] = sweep[o]
        /\ \/ mishaps'[o] = mishaps[o] /\ draft'.revision = draft.revision
           \/ mishaps'[o] = mishaps[o] \union {"foreign"}

TabsInv(e) == SweepInv(e) /\ TabInv(e) /\ LabelInv(e)

LEMMA OthersInv ==
  ASSUME DesignInv, TypeOK', NEW e \in Editors, DesignStep, Others(e), NEW o \in Editors \ {e}
  PROVE  TabsInv(o)'
  <1>1. SweepInv(o) /\ TabInv(o) /\ LabelInv(o)
    BY DEF DesignInv
  <1>2. /\ page.version \in Nat /\ page'.version \in Nat
        /\ draft.revision \in Nat /\ draft'.revision \in Nat
        /\ editor[o].revision \in Nat
        /\ \A row \in versions : row.version \in Nat
        /\ calls[o] \in Seq(Calls)
        /\ sweep[o] # None => sweep[o] \in Sweeps
    BY DEF DesignInv, TypeOK, Pages, Drafts, Versions, Revisions
  <1>3. \A n \in DOMAIN calls[o] : calls[o][n].revision \in Nat
    BY <1>2, QueueFacts DEF Calls, Revisions
  <1>4. SweepInv(o)'
    <2>1. /\ sweep'[o] = sweep[o] /\ calls'[o] = calls[o]
      BY DEF Others
    <2>2. sweep[o] # None => sweep[o].version \in Nat /\ sweep[o].revision \in Nat
      BY <1>2 DEF Sweeps, Versions, Revisions
    <2> SUFFICES ASSUME sweep[o] # None PROVE SweepInv(o)'
      BY <2>1 DEF SweepInv
    <2> DEFINE s == sweep[o]
    <2>3. /\ calls[o] # << >>
          /\ Head(calls[o]).op = "publish" /\ Head(calls[o]).result = "SWEEPING"
          /\ s.version <= page.version /\ s.revision > 0 /\ s.revision <= draft.revision
      BY <1>1 DEF SweepInv
    <2>4. s.version <= page'.version /\ s.revision <= draft'.revision
      BY <1>2, <2>2, <2>3 DEF DesignStep
    <2>5. ASSUME "versions" \notin s.unread, NEW row \in versions', row.version <= s.version
          PROVE  row.design.image \notin s.doomed
      <3>1. row \in versions
        BY <1>2, <2>2, <2>3, <2>5 DEF DesignStep, TypeOK, Pages, Versions
      <3>2. QED
        BY <1>1, <2>5, <3>1 DEF SweepInv
    <2>6. ASSUME "draft" \notin s.unread, s.revision = draft'.revision
          PROVE  draft'.design.image \notin s.doomed
      <3>1. draft'.revision = draft.revision
        BY <1>2, <2>2, <2>3, <2>6 DEF DesignStep
      <3>2. QED
        BY <1>1, <2>6, <3>1 DEF SweepInv, DesignStep
    <2>7. QED
      BY <2>1, <2>3, <2>4, <2>5, <2>6 DEF SweepInv
  <1>5. TabInv(o)'
    <2>1. /\ editor'[o] = editor[o] /\ calls'[o] = calls[o] /\ seen'[o] = seen[o]
          /\ upload'[o] = upload[o]
      BY DEF Others
    <2>2. ASSUME NEW n \in DOMAIN calls'[o] PROVE CallInv(o, n)'
      BY <1>1, <1>2, <1>3, <2>1 DEF TabInv, CallInv, DesignStep
    <2>3. QED
      BY <1>1, <1>2, <2>1, <2>2 DEF TabInv, DesignStep, IsOpen
  <1>6. LabelInv(o)'
    BY <1>1 DEF LabelInv, Others, IsOpen, Stored
  <1>7. QED
    BY <1>4, <1>5, <1>6 DEF TabsInv

LEMMA StepInv ==
  ASSUME DesignInv, TypeOK', RowsInv', ImageInv',
         NEW e \in Editors, DesignStep, Others(e), TabsInv(e)'
  PROVE  DesignInv'
  <1>1. \A o \in Editors : TabsInv(o)'
    BY OthersInv
  <1>2. QED
    BY <1>1 DEF DesignInv, TabsInv

\* Many steps leave the page, its draft and its versions alone.
LEMMA SameDesign == DesignInv /\ UNCHANGED design => RowsInv' /\ DesignStep
  BY DEF design, DesignInv, RowsInv, DesignStep, TypeOK, Pages, Drafts, Versions, Revisions

\* And many the images.
LEMMA SameImages ==
  DesignInv /\ UNCHANGED <<image, upload, sweep>> => ImageInv'
  BY DEF DesignInv, ImageInv

-----------------------------------------------------------------------------
(* The browser.                                                            *)

LEMMA OpenPageInv == ASSUME DesignInv, NEW e \in Editors, OpenPage(e) PROVE DesignInv'
  <1> DEFINE tab == [editor[e] EXCEPT !.state = "LOADING", !.published = page.design]
  <1>1. editor[e] \in Tabs /\ page.design \in Designs
    BY DEF DesignInv, TypeOK, Tabs, Pages
  <1>2. /\ tab \in Tabs /\ tab.state = "LOADING" /\ tab.revision = editor[e].revision
        /\ tab.design = editor[e].design
    BY <1>1 DEF Tabs, States
  <1>3. /\ editor' = [editor EXCEPT ![e] = tab] /\ mishaps' = [mishaps EXCEPT ![e] = {}]
        /\ UNCHANGED <<design, seen, image, calls, upload, sweep, events>>
    BY DEF OpenPage, DesignInv, TypeOK
  <1> HIDE DEF tab
  <1>4. TypeOK'
    BY <1>2, <1>3 DEF DesignInv, TypeOK, Tabs, design
  <1>5. Others(e)
    BY <1>3 DEF Others, DesignInv, TypeOK, design
  <1>6. TabsInv(e)'
    <2>1. ~IsOpen(e) /\ calls[e] = << >> /\ upload[e] = None
      BY DEF OpenPage, IsOpen, DesignInv, TabInv
    <2>2. editor'[e] = tab /\ calls'[e] = << >> /\ upload'[e] = None /\ mishaps'[e] = {}
      BY <1>3, <2>1 DEF DesignInv, TypeOK
    <2>3. SweepInv(e)'
      BY <1>3, <2>1 DEF DesignInv, SweepInv
    <2>4. TabInv(e)'
      BY <1>2, <1>3, <2>1, <2>2 DEF design, DesignInv, TabInv, CallInv, IsOpen
    <2>5. LabelInv(e)'
      BY <1>2, <1>3, <2>2, EmptySeq DEF LabelInv, IsOpen
    <2>6. QED
      BY <2>3, <2>4, <2>5 DEF TabsInv
  <1>7. QED
    BY <1>3, <1>4, <1>5, <1>6, SameDesign, SameImages, StepInv

LEMMA OpenDraftInv == ASSUME DesignInv, NEW e \in Editors, OpenDraft(e) PROVE DesignInv'
  <1> DEFINE loaded == IF draft.revision > 0 THEN draft.design ELSE editor[e].published
             tab == [editor[e] EXCEPT !.state = "SAVED", !.design = loaded,
                                      !.revision = draft.revision]
  <1>1. /\ editor[e] \in Tabs /\ draft.design \in Designs /\ draft.revision \in Nat
        /\ editor[e].published \in Designs
    BY DEF DesignInv, TypeOK, Tabs, Drafts, Revisions
  <1>2. loaded \in Designs /\ (draft.revision > 0 => loaded = draft.design)
    BY <1>1
  <1>3. editor' = [editor EXCEPT ![e] = tab] /\ seen' = [seen EXCEPT ![e] = loaded]
    BY DEF OpenDraft, DesignInv, TypeOK
  <1>4. UNCHANGED <<design, image, calls, upload, sweep, mishaps, events>>
    BY DEF OpenDraft
  <1> HIDE DEF loaded
  <1>5. /\ tab \in Tabs /\ tab.state = "SAVED" /\ tab.revision = draft.revision
        /\ tab.design = loaded
    BY <1>1, <1>2 DEF Tabs, States, Revisions
  <1> HIDE DEF tab
  <1>6. TypeOK'
    BY <1>2, <1>3, <1>4, <1>5 DEF DesignInv, TypeOK, Tabs, design
  <1>7. Others(e)
    BY <1>3, <1>4 DEF Others, DesignInv, TypeOK, design
  <1>8. TabsInv(e)'
    <2>1. ~IsOpen(e) /\ calls[e] = << >> /\ upload[e] = None
      BY DEF OpenDraft, IsOpen, DesignInv, TabInv
    <2>2. /\ editor'[e] = tab /\ calls'[e] = << >> /\ upload'[e] = None
          /\ seen'[e] = loaded /\ draft' = draft /\ sweep'[e] = None
      BY <1>3, <1>4, <2>1 DEF DesignInv, TypeOK, SweepInv, design
    <2>3. SweepInv(e)'
      BY <2>2 DEF SweepInv
    <2>4. TabInv(e)'
      BY <1>1, <1>2, <1>5, <2>2 DEF TabInv, CallInv, IsOpen
    <2>5. LabelInv(e)'
      BY <1>5, <2>2, EmptySeq DEF LabelInv, IsOpen, Stored
    <2>6. QED
      BY <2>3, <2>4, <2>5 DEF TabsInv
  <1>9. QED
    BY <1>4, <1>6, <1>7, <1>8, SameDesign, SameImages, StepInv

LEMMA CloseTabInv == ASSUME DesignInv, NEW e \in Editors, CloseTab(e) PROVE DesignInv'
  <1>1. Blank \in Tabs /\ Blank.state = "CLOSED" /\ Blank.revision = 0 /\ FirstDesign \in Designs
    BY DEF Blank, Tabs, States, Designs, FirstDesign, Revisions
  <1>2. /\ editor' = [editor EXCEPT ![e] = Blank] /\ seen' = [seen EXCEPT ![e] = FirstDesign]
        /\ mishaps' = [mishaps EXCEPT ![e] = {}]
        /\ UNCHANGED <<design, image, calls, upload, sweep, events>>
        /\ calls[e] = << >> /\ upload[e] = None
    BY DEF CloseTab
  <1>3. TypeOK'
    BY <1>1, <1>2 DEF DesignInv, TypeOK, Tabs, design
  <1>4. Others(e)
    BY <1>2 DEF Others, DesignInv, TypeOK, design
  <1>5. TabsInv(e)'
    <2>1. /\ editor'[e] = Blank /\ calls'[e] = << >> /\ upload'[e] = None
          /\ draft' = draft /\ sweep'[e] = None /\ draft.revision \in Nat
      BY <1>2 DEF DesignInv, TypeOK, SweepInv, design, Drafts, Revisions
    <2>2. SweepInv(e)'
      BY <2>1 DEF SweepInv
    <2>3. TabInv(e)'
      BY <1>1, <2>1 DEF TabInv, CallInv, IsOpen
    <2>4. LabelInv(e)'
      BY <1>1, <2>1, EmptySeq DEF LabelInv, IsOpen
    <2>5. QED
      BY <2>2, <2>3, <2>4 DEF TabsInv
  <1>6. QED
    BY <1>2, <1>3, <1>4, <1>5, SameDesign, SameImages, StepInv

\* Every edit: a field, the image removed or the image uploaded.
LEMMA CommitsInv ==
  ASSUME DesignInv, NEW e \in Editors, NEW next \in Designs, IsOpen(e), Commits(e, next),
         UNCHANGED image, events' \in 0..MaxEvents,
         UNCHANGED upload \/ upload' = [upload EXCEPT ![e] = None]
  PROVE  DesignInv'
  <1> DEFINE tab == [editor[e] EXCEPT !.design = next, !.state = "DIRTY"]
             marks == IF calls[e] = << >> THEN mishaps[e] ELSE mishaps[e] \union {"late"}
  <1>1. editor[e] \in Tabs /\ mishaps[e] \in SUBSET {"foreign", "late", "lost"}
    BY DEF DesignInv, TypeOK, Tabs
  <1>2. /\ tab \in Tabs /\ tab.state = "DIRTY" /\ tab.revision = editor[e].revision
    BY <1>1 DEF Tabs, States
  <1>3. editor' = [editor EXCEPT ![e] = tab] /\ mishaps' = [mishaps EXCEPT ![e] = marks]
    BY DEF Commits, DesignInv, TypeOK
  <1>4. UNCHANGED <<design, seen, calls, sweep>>
    BY DEF Commits
  <1> HIDE DEF tab
  <1>5. /\ marks \in SUBSET {"foreign", "late", "lost"} /\ mishaps[e] \subseteq marks
        /\ calls[e] # << >> => "late" \in marks
    BY <1>1
  <1> HIDE DEF marks
  <1>6. TypeOK'
    BY <1>2, <1>3, <1>4, <1>5 DEF DesignInv, TypeOK, Tabs, design
  <1>7. Others(e)
    BY <1>3, <1>4 DEF Others, DesignInv, TypeOK, design
  <1>8. TabsInv(e)'
    <2>1. /\ editor'[e] = tab /\ mishaps'[e] = marks /\ calls'[e] = calls[e]
          /\ seen'[e] = seen[e] /\ sweep'[e] = sweep[e]
          /\ draft' = draft /\ page' = page /\ versions' = versions
      BY <1>3, <1>4 DEF DesignInv, TypeOK, design
    <2>2. SweepInv(e)'
      BY <2>1 DEF DesignInv, SweepInv
    <2>3. TabInv(e)'
      BY <1>2, <2>1 DEF DesignInv, TabInv, CallInv, IsOpen
    <2>4. LabelInv(e)'
      <3>1. /\ Stored(e)' <=> Stored(e)
            /\ editor'[e].state = "DIRTY" /\ editor'[e].revision = editor[e].revision
        BY <1>2, <2>1 DEF Stored
      <3>2. LabelInv(e) /\ IsOpen(e)
        BY DEF DesignInv
      <3>3. "late" \notin marks => calls[e] = << >> /\ Len(calls[e]) <= 1
        BY <1>5, <3>2 DEF LabelInv
      <3>4. "foreign" \notin marks /\ "lost" \notin marks =>
               draft.revision = IF Stored(e) THEN Head(calls[e]).revision ELSE editor[e].revision
        BY <1>5, <3>2 DEF LabelInv
      <3>5. calls[e] # << >> /\ Head(calls[e]).result = "CONFLICT" => marks # {}
        BY <1>5
      <3>6. QED
        BY <2>1, <3>1, <3>3, <3>4, <3>5 DEF LabelInv
    <2>5. QED
      BY <2>2, <2>3, <2>4 DEF TabsInv
  <1>9. ImageInv'
    <2>1. \A f \in Editors : upload'[f] = upload[f] \/ upload'[f] = None
      BY DEF DesignInv, TypeOK
    <2>2. image' = image /\ sweep' = sweep
      BY <1>4
    <2>3. QED
      BY <2>1, <2>2 DEF DesignInv, ImageInv
  <1>10. QED
    BY <1>4, <1>6, <1>7, <1>8, <1>9, SameDesign, StepInv

LEMMA EventFacts == ASSUME DesignInv, Event PROVE events' \in 0..MaxEvents
  BY DEF DesignInv, TypeOK, Event

LEMMA ChangeLookInv ==
  ASSUME DesignInv, NEW e \in Editors, NEW look \in Looks, ChangeLook(e, look)
  PROVE  DesignInv'
  <1>1. editor[e].design \in Designs
    BY DEF DesignInv, TypeOK
  <1>2. [editor[e].design EXCEPT !.look = look] \in Designs
    BY <1>1 DEF Designs
  <1>3. QED
    BY <1>2, EventFacts, CommitsInv DEF ChangeLook

LEMMA RemoveImageInv ==
  ASSUME DesignInv, NEW e \in Editors, RemoveImage(e) PROVE DesignInv'
  <1>1. editor[e].design \in Designs
    BY DEF DesignInv, TypeOK
  <1>2. [editor[e].design EXCEPT !.image = None] \in Designs
    BY <1>1 DEF Designs
  <1>3. QED
    BY <1>2, EventFacts, CommitsInv DEF RemoveImage

LEMMA UploadedInv ==
  ASSUME DesignInv, NEW e \in Editors, Uploaded(e) PROVE DesignInv'
  <1>1. upload[e] \in Uploads
    BY DEF DesignInv, TypeOK, Uploaded
  <1>2. [upload[e].into EXCEPT !.image = upload[e].image] \in Designs
    BY <1>1 DEF Uploads, Designs
  <1>3. IsOpen(e) /\ events' \in 0..MaxEvents
    BY DEF DesignInv, TypeOK, TabInv, Uploaded
  <1>4. QED
    BY <1>2, <1>3, CommitsInv DEF Uploaded

\* A save that the browser asks for.
LEMMA CallingInv ==
  ASSUME DesignInv, NEW e \in Editors, NEW publishes \in BOOLEAN,
         editor[e].state \in {"SAVED", "DIRTY", "ERROR"}, Len(calls[e]) < MaxCalls,
         Calling(e, Call("save", editor[e].design, editor[e].revision, publishes))
  PROVE  DesignInv'
  <1> DEFINE tab == [editor[e] EXCEPT !.state = "SAVING"]
             c == Call("save", editor[e].design, editor[e].revision, publishes)
             q == Append(calls[e], c)
             marks == IF calls[e] = << >> THEN mishaps[e] \ {"late"} ELSE mishaps[e]
  <1>1. /\ editor[e] \in Tabs /\ mishaps[e] \in SUBSET {"foreign", "late", "lost"}
        /\ editor[e].design \in Designs /\ editor[e].revision \in Nat
        /\ calls[e] \in Seq(Calls)
    BY DEF DesignInv, TypeOK, Tabs, Revisions
  <1>2. /\ tab \in Tabs /\ tab.state = "SAVING" /\ tab.revision = editor[e].revision
        /\ tab.design = editor[e].design
    BY <1>1 DEF Tabs, States
  <1>3. c \in Calls
    BY <1>1, CallType
  <1>4. /\ c.op = "save" /\ c.result = "NONE" /\ c.design = editor[e].design
        /\ c.revision = editor[e].revision
    BY DEF Call
  <1>5. /\ editor' = [editor EXCEPT ![e] = tab] /\ calls' = [calls EXCEPT ![e] = q]
        /\ mishaps' = [mishaps EXCEPT ![e] = marks]
    BY DEF Calling, DesignInv, TypeOK
  <1>6. UNCHANGED <<design, seen, image, upload, sweep, events>>
    BY DEF Calling
  <1> HIDE DEF tab, c
  <1>7. /\ q \in Seq(Calls) /\ q # << >> /\ Len(q) = Len(calls[e]) + 1
        /\ \A n \in 1..Len(calls[e]) : q[n] = calls[e][n]
        /\ q[Len(calls[e]) + 1] = c
        /\ Head(q) = IF calls[e] = << >> THEN c ELSE Head(calls[e])
    BY <1>1, <1>3, AppendFacts
  <1>8. Len(calls[e]) \in Nat /\ Len(q) \in Nat /\ DOMAIN q = 1..Len(q) /\ MaxCalls \in Nat
        /\ DOMAIN calls[e] = 1..Len(calls[e])
    BY <1>1, <1>7, QueueFacts
  <1>9. Len(q) <= MaxCalls
    BY <1>7, <1>8
  <1> HIDE DEF q
  <1>10. /\ marks \in SUBSET {"foreign", "late", "lost"}
         /\ calls[e] # << >> => marks = mishaps[e]
         /\ "foreign" \notin marks /\ "lost" \notin marks =>
               "foreign" \notin mishaps[e] /\ "lost" \notin mishaps[e]
    BY <1>1
  <1> HIDE DEF marks
  <1>11. TypeOK'
    BY <1>2, <1>5, <1>6, <1>7, <1>9, <1>10 DEF DesignInv, TypeOK, Tabs, design
  <1>12. Others(e)
    BY <1>5, <1>6 DEF Others, DesignInv, TypeOK, design
  <1>13. TabsInv(e)'
    <2>1. /\ editor'[e] = tab /\ mishaps'[e] = marks /\ calls'[e] = q
          /\ seen'[e] = seen[e] /\ sweep'[e] = sweep[e] /\ upload'[e] = upload[e]
          /\ draft' = draft /\ page' = page /\ versions' = versions
      BY <1>5, <1>6 DEF DesignInv, TypeOK, design
    <2>2. SweepInv(e) /\ TabInv(e) /\ LabelInv(e) /\ IsOpen(e)
      BY DEF DesignInv, IsOpen
    <2>3. SweepInv(e)'
      BY <1>7, <2>1, <2>2 DEF SweepInv
    <2>4. ASSUME NEW n \in DOMAIN q PROVE CallInv(e, n)'
      <3>1. CASE n = Len(calls[e]) + 1
        <4>1. q[n] = c /\ editor[e].revision <= draft.revision
          BY <1>7, <2>2, <3>1 DEF TabInv
        <4>2. /\ calls'[e][n] = c /\ c.revision <= draft'.revision
              /\ c.revision = editor'[e].revision
          BY <1>2, <1>4, <2>1, <4>1
        <4>3. editor'[e].revision <= editor'[e].revision
          BY <1>1, <1>2, <2>1
        <4>4. QED
          BY <1>4, <4>2, <4>3 DEF CallInv
      <3>2. CASE n # Len(calls[e]) + 1
        <4>1. n \in DOMAIN calls[e] /\ q[n] = calls[e][n]
          BY <1>7, <1>8, <3>2
        <4>2. CallInv(e, n)
          BY <2>2, <4>1 DEF TabInv
        <4>3. /\ calls'[e][n] = calls[e][n] /\ draft' = draft
              /\ editor'[e].revision = editor[e].revision
          BY <1>2, <2>1, <4>1
        <4>4. QED
          BY <4>2, <4>3 DEF CallInv
      <3>3. QED
        BY <3>1, <3>2
    <2>5. TabInv(e)'
      BY <1>2, <2>1, <2>2, <2>4 DEF TabInv, IsOpen
    <2>6. LabelInv(e)'
      <3>1. Stored(e)' <=> Stored(e)
        BY <1>4, <1>7, <2>1 DEF Stored
      <3>2. Stored(e) => Head(q) = Head(calls[e])
        BY <1>7 DEF Stored
      <3>3. IsOpen(e)' /\ "foreign" \notin marks /\ "lost" \notin marks =>
               draft.revision = IF Stored(e) THEN Head(q).revision ELSE tab.revision
        BY <1>2, <1>10, <2>2, <3>2 DEF LabelInv
      <3>4. "late" \notin marks => calls[e] = << >>
        BY <1>10, <2>2 DEF LabelInv
      <3>5. "late" \notin marks => Head(q) = c
        BY <1>7, <3>4
      <3>6. Head(q).result = "CONFLICT" => marks # {}
        BY <1>4, <1>7, <1>10, <2>2 DEF LabelInv
      <3>7. /\ editor'[e].state = "SAVING" /\ editor'[e].design = c.design
            /\ editor'[e].revision = c.revision
        BY <1>2, <1>4, <2>1
      <3>8. "late" \notin marks => Len(q) <= 1
        <4>1. calls[e] = << >> => Len(q) = 1
          BY <1>7, EmptySeq
        <4>2. \A n \in Nat : n = 1 => n <= 1
          OBVIOUS
        <4>3. QED
          BY <1>8, <3>4, <4>1, <4>2
      <3>9. QED
        BY <1>4, <2>1, <3>1, <3>3, <3>5, <3>6, <3>7, <3>8 DEF LabelInv
    <2>7. QED
      BY <2>3, <2>5, <2>6 DEF TabsInv
  <1>14. QED
    BY <1>6, <1>11, <1>12, <1>13, SameDesign, SameImages, StepInv

LEMMA AutosaveInv == ASSUME DesignInv, NEW e \in Editors, Autosave(e) PROVE DesignInv'
  BY CallingInv DEF Autosave

LEMMA ClickPublishInv == ASSUME DesignInv, NEW e \in Editors, ClickPublish(e) PROVE DesignInv'
  BY CallingInv DEF ClickPublish

-----------------------------------------------------------------------------
(* The server actions.                                                     *)

\* What the first call of a tab is.
LEMMA HeadFacts ==
  ASSUME DesignInv, NEW e \in Editors, calls[e] # << >>
  PROVE  /\ calls[e] \in Seq(Calls) /\ Len(calls[e]) \in Nat /\ Len(calls[e]) > 0
         /\ DOMAIN calls[e] = 1..Len(calls[e])
         /\ Head(calls[e]) = calls[e][1] /\ Head(calls[e]) \in Calls
         /\ Head(calls[e]).revision \in Nat /\ Head(calls[e]).design \in Designs
         /\ editor[e].revision \in Nat /\ draft.revision \in Nat /\ page.version \in Nat
         /\ CallInv(e, 1) /\ TabInv(e) /\ LabelInv(e) /\ SweepInv(e) /\ IsOpen(e)
  <1>1. calls[e] \in Seq(Calls)
    BY DEF DesignInv, TypeOK
  <1>2. /\ Len(calls[e]) \in Nat /\ Len(calls[e]) > 0 /\ 1 \in DOMAIN calls[e]
        /\ DOMAIN calls[e] = 1..Len(calls[e])
        /\ Head(calls[e]) = calls[e][1] /\ Head(calls[e]) \in Calls
    BY <1>1, QueueFacts
  <1>3. editor[e].revision \in Nat /\ draft.revision \in Nat /\ page.version \in Nat
    BY DEF DesignInv, TypeOK, Drafts, Pages, Revisions, Versions
  <1>4. TabInv(e) /\ LabelInv(e) /\ SweepInv(e)
    BY DEF DesignInv
  <1>5. CallInv(e, 1) /\ IsOpen(e)
    BY <1>2, <1>4 DEF TabInv
  <1>6. Head(calls[e]).revision \in Nat /\ Head(calls[e]).design \in Designs
    BY <1>2 DEF Calls, Revisions
  <1>7. QED
    BY <1>1, <1>2, <1>3, <1>4, <1>5, <1>6

\* An answer that changes neither the design nor a tab, and ends a sweep.
LEMMA AnswerInv ==
  ASSUME DesignInv, NEW e \in Editors, calls[e] # << >>,
         NEW result \in {"OK", "CONFLICT", "FAILED"},
         Returns(e, result, Head(calls[e]).revision),
         Head(calls[e]).op = "save" => result # "OK",
         Head(calls[e]).result # "OK",
         result = "CONFLICT" => mishaps[e] # {},
         sweep' = [sweep EXCEPT ![e] = None],
         UNCHANGED <<design, client, image, upload, mishaps>>,
         events' \in 0..MaxEvents
  PROVE  DesignInv'
  <1> DEFINE r == Head(calls[e]).revision
  <1>1. calls \in [Editors -> Seq(Calls)] /\ result \in Results
    BY DEF DesignInv, TypeOK, Results
  <1>2. r \in Nat
    BY HeadFacts
  <1>3. PICK s \in Seq(Calls) :
            /\ calls' = [calls EXCEPT ![e] = s]
            /\ s # << >> /\ Len(s) = Len(calls[e])
            /\ \A n \in 2..Len(s) : s[n] = calls[e][n]
            /\ Head(s).op = Head(calls[e]).op /\ Head(s).design = Head(calls[e]).design
            /\ Head(s).result = result /\ Head(s).revision = r
    BY <1>1, <1>2, ReturnFacts
  <1> HIDE DEF r
  <1>4. TypeOK'
    <2>1. Len(s) <= MaxCalls
      BY <1>3 DEF DesignInv, TypeOK
    <2>2. QED
      BY <1>3, <2>1 DEF DesignInv, TypeOK, design, client
  <1>5. Others(e)
    BY <1>3 DEF Others, DesignInv, TypeOK, design, client
  <1>6. ImageInv'
    BY DEF DesignInv, TypeOK, ImageInv
  <1>7. TabsInv(e)'
    <2>1. /\ calls'[e] = s /\ sweep'[e] = None /\ editor'[e] = editor[e]
          /\ seen'[e] = seen[e] /\ upload'[e] = upload[e] /\ mishaps'[e] = mishaps[e]
          /\ draft' = draft
      BY <1>1, <1>3 DEF DesignInv, TypeOK, design, client
    <2>2. SweepInv(e)'
      BY <2>1 DEF SweepInv
    <2>3. /\ Len(s) \in Nat /\ DOMAIN s = 1..Len(s) /\ Head(s) = s[1]
          /\ DOMAIN calls[e] = 1..Len(calls[e]) /\ Head(calls[e]) = calls[e][1]
      BY <1>3, QueueFacts, HeadFacts
    <2>4. CallInv(e, 1) /\ TabInv(e) /\ LabelInv(e) /\ IsOpen(e)
      BY HeadFacts
    <2>5. ASSUME NEW n \in DOMAIN s PROVE CallInv(e, n)'
      <3>1. CASE n = 1
        <4>1. s[1].result # "NONE" /\ ~(s[1].op = "save" /\ s[1].result = "OK")
          BY <1>3, <2>3
        <4>2. /\ s[1].op = calls[e][1].op /\ s[1].design = calls[e][1].design
              /\ s[1].revision = calls[e][1].revision
          BY <1>3, <2>3 DEF r
        <4>3. QED
          BY <2>1, <2>4, <3>1, <4>1, <4>2 DEF CallInv
      <3>2. CASE n # 1
        <4>1. n \in DOMAIN calls[e] /\ s[n] = calls[e][n]
          BY <1>3, <2>3, <3>2
        <4>2. CallInv(e, n)
          BY <2>4, <4>1 DEF TabInv
        <4>3. QED
          BY <2>1, <4>1, <4>2 DEF CallInv
      <3>3. QED
        BY <3>1, <3>2
    <2>6. TabInv(e)'
      BY <2>1, <2>4, <2>5 DEF TabInv, IsOpen
    <2>7. LabelInv(e)'
      <3>1. ~Stored(e) /\ ~Stored(e)'
        BY <1>3, <2>1 DEF Stored
      <3>2. Head(s).result # "NONE"
        BY <1>3
      <3>3. QED
        BY <1>3, <2>1, <2>4, <3>1, <3>2 DEF LabelInv, IsOpen
    <2>8. QED
      BY <2>2, <2>6, <2>7 DEF TabsInv
  <1>8. QED
    BY <1>4, <1>5, <1>6, <1>7, SameDesign, StepInv

\* No sweep is under way before the publishing.
LEMMA NoSweep ==
  ASSUME DesignInv, NEW e \in Editors, NEW op, Serves(e, op)
  PROVE  sweep[e] = None /\ sweep = [sweep EXCEPT ![e] = None]
  <1>1. sweep[e] = None
    BY DEF DesignInv, SweepInv, Serves
  <1>2. QED
    BY <1>1 DEF DesignInv, TypeOK

LEMMA PublishSameInv == ASSUME DesignInv, NEW e \in Editors, PublishSame(e) PROVE DesignInv'
  <1>1. /\ calls[e] # << >> /\ Head(calls[e]).op = "publish" /\ Head(calls[e]).result = "NONE"
        /\ Head(calls[e]).revision = draft.revision
        /\ Returns(e, "OK", draft.revision)
        /\ UNCHANGED <<design, client, image, upload, sweep, mishaps, events>>
    BY DEF PublishSame, Serves, CannotPublish, Stale
  <1>2. sweep' = [sweep EXCEPT ![e] = None]
    BY <1>1, NoSweep DEF PublishSame
  <1>3. events' \in 0..MaxEvents
    BY <1>1 DEF DesignInv, TypeOK
  <1>4. QED
    BY <1>1, <1>2, <1>3, AnswerInv

\* A conflict is never the tab's own doing.
LEMMA ConflictIsForeign ==
  ASSUME DesignInv, NEW e \in Editors, calls[e] # << >>, Head(calls[e]).result = "NONE",
         \/ Head(calls[e]).op = "save" /\ Stale(Head(calls[e]).revision)
         \/ Head(calls[e]).op = "publish" /\ CannotPublish(Head(calls[e]).revision)
  PROVE  mishaps[e] # {}
  <1> SUFFICES ASSUME mishaps[e] = {} PROVE FALSE
    OBVIOUS
  <1>1. LabelInv(e) /\ CallInv(e, 1) /\ IsOpen(e) /\ Head(calls[e]) = calls[e][1]
    BY HeadFacts
  <1>2. ~Stored(e)
    BY DEF Stored
  <1>3. draft.revision = editor[e].revision /\ Head(calls[e]).revision = editor[e].revision
    BY <1>1, <1>2 DEF LabelInv
  <1>4. ~Stale(Head(calls[e]).revision)
    BY <1>3 DEF Stale, DesignInv, RowsInv
  <1>5. Head(calls[e]).op = "publish" => draft.revision # 0
    BY <1>1, <1>3, HeadFacts DEF CallInv
  <1>6. QED
    BY <1>4, <1>5 DEF CannotPublish

LEMMA ConflictInv == ASSUME DesignInv, NEW e \in Editors, Conflict(e) PROVE DesignInv'
  <1>1. /\ calls[e] # << >> /\ Head(calls[e]).result = "NONE"
        /\ \/ Head(calls[e]).op = "save" /\ Stale(Head(calls[e]).revision)
           \/ Head(calls[e]).op = "publish" /\ CannotPublish(Head(calls[e]).revision)
        /\ Returns(e, "CONFLICT", Head(calls[e]).revision)
        /\ UNCHANGED <<design, client, image, upload, sweep, mishaps, events>>
    BY DEF Conflict, Serves
  <1>2. mishaps[e] # {}
    BY <1>1, ConflictIsForeign
  <1>3. sweep' = [sweep EXCEPT ![e] = None]
    BY <1>1, NoSweep DEF Conflict
  <1>4. events' \in 0..MaxEvents
    BY <1>1 DEF DesignInv, TypeOK
  <1>5. QED
    BY <1>1, <1>2, <1>3, <1>4, AnswerInv

LEMMA RefuseInv == ASSUME DesignInv, NEW e \in Editors, Refuse(e) PROVE DesignInv'
  <1>1. /\ calls[e] # << >> /\ Head(calls[e]).result = "NONE"
        /\ Returns(e, "FAILED", Head(calls[e]).revision)
        /\ UNCHANGED <<design, client, image, upload, sweep, mishaps>> /\ Event
    BY DEF Refuse, Serves
  <1>2. sweep' = [sweep EXCEPT ![e] = None]
    BY <1>1, NoSweep DEF Refuse
  <1>3. QED
    BY <1>1, <1>2, EventFacts, AnswerInv

LEMMA SweepEndsInv == ASSUME DesignInv, NEW e \in Editors, SweepEnds(e) PROVE DesignInv'
  <1>1. sweep[e] # None
    BY DEF SweepEnds, SweepActs
  <1>2. calls[e] # << >> /\ Head(calls[e]).op = "publish" /\ Head(calls[e]).result = "SWEEPING"
    BY <1>1 DEF DesignInv, SweepInv
  <1>3. events' \in 0..MaxEvents
    BY DEF SweepEnds, DesignInv, TypeOK
  <1>4. QED
    BY <1>2, <1>3, AnswerInv DEF SweepEnds

LEMMA SweepFailsInv == ASSUME DesignInv, NEW e \in Editors, SweepFails(e) PROVE DesignInv'
  <1>1. calls[e] # << >> /\ Head(calls[e]).op = "publish" /\ Head(calls[e]).result = "SWEEPING"
    BY DEF DesignInv, SweepInv, SweepFails
  <1>2. QED
    BY <1>1, EventFacts, AnswerInv DEF SweepFails

LEMMA SaveInv == ASSUME DesignInv, NEW e \in Editors, Save(e) PROVE DesignInv'
  <1> DEFINE call == Head(calls[e])
             changed == draft.revision = 0 \/ draft.design # call.design
             r == draft'.revision
             d == [revision |-> draft.revision + 1, base |-> page.version, design |-> call.design]
  <1>1. /\ calls[e] # << >> /\ call.op = "save" /\ call.result = "NONE"
        /\ call.revision = draft.revision /\ (draft.revision > 0 => draft.base = page.version)
    BY DEF Save, Serves, Stale
  <1>2. /\ UNCHANGED <<page, versions, client, image, upload, sweep, events>>
        /\ changed => draft' = d /\ TellsOthers(e)
        /\ ~changed => UNCHANGED <<draft, mishaps>>
        /\ Returns(e, "OK", r)
    BY DEF Save
  <1>3. /\ calls[e] \in Seq(Calls) /\ Len(calls[e]) \in Nat
        /\ DOMAIN calls[e] = 1..Len(calls[e]) /\ call = calls[e][1]
        /\ call.design \in Designs /\ draft.revision \in Nat /\ page.version \in Nat
        /\ editor[e].revision \in Nat
        /\ CallInv(e, 1) /\ TabInv(e) /\ LabelInv(e) /\ IsOpen(e)
    BY <1>1, HeadFacts
  <1>4. /\ draft \in Drafts /\ page.version \in Versions
        /\ calls \in [Editors -> Seq(Calls)] /\ "OK" \in Results
    BY DEF DesignInv, TypeOK, Pages, Results
  <1>5. changed => /\ d \in Drafts /\ d.revision = draft.revision + 1
                   /\ d.base = page.version /\ d.design = call.design
    BY <1>3, <1>4 DEF Drafts, Revisions
  <1> HIDE DEF d
  <1>6. /\ draft' \in Drafts /\ r \in Nat /\ r > 0 /\ r >= draft.revision
        /\ draft'.design = call.design
        /\ draft'.base = page.version
        /\ changed => r > draft.revision
        /\ ~changed => r = draft.revision
    <2>1. CASE changed
      BY <1>2, <1>3, <1>5, <2>1
    <2>2. CASE ~changed
      BY <1>1, <1>2, <1>3, <1>4, <2>2 DEF Drafts, Revisions
    <2>3. QED
      BY <2>1, <2>2
  <1>7. PICK s \in Seq(Calls) :
            /\ calls' = [calls EXCEPT ![e] = s]
            /\ s # << >> /\ Len(s) = Len(calls[e])
            /\ \A n \in 2..Len(s) : s[n] = calls[e][n]
            /\ Head(s).op = Head(calls[e]).op /\ Head(s).design = Head(calls[e]).design
            /\ Head(s).result = "OK" /\ Head(s).revision = r
    BY <1>1, <1>2, <1>4, <1>6, ReturnFacts
  <1>8. /\ mishaps'[e] = mishaps[e]
        /\ mishaps' \in [Editors -> SUBSET {"foreign", "late", "lost"}]
        /\ \A o \in Editors \ {e} :
              \/ mishaps'[o] = mishaps[o] /\ r = draft.revision
              \/ mishaps'[o] = mishaps[o] \union {"foreign"}
    <2>1. mishaps \in [Editors -> SUBSET {"foreign", "late", "lost"}]
      BY DEF DesignInv, TypeOK
    <2>2. QED
      BY <1>2, <2>1 DEF TellsOthers
  <1>9. /\ page' = page /\ versions' = versions /\ editor' = editor /\ seen' = seen
        /\ image' = image /\ upload' = upload /\ sweep' = sweep /\ events' = events
    BY <1>2 DEF client
  <1>10. changed \/ (draft' = draft /\ ~changed)
    BY <1>2
  <1> HIDE DEF changed, r
  <1>11. TypeOK'
    <2>1. Len(s) <= MaxCalls
      BY <1>7 DEF DesignInv, TypeOK
    <2>2. QED
      BY <1>6, <1>7, <1>8, <1>9, <2>1 DEF DesignInv, TypeOK
  <1>12. RowsInv'
    BY <1>6, <1>9 DEF DesignInv, RowsInv
  <1>13. DesignStep
    BY <1>3, <1>6, <1>9, <1>10 DEF DesignStep, r
  <1>14. Others(e)
    BY <1>4, <1>7, <1>8, <1>9 DEF Others, r
  <1>15. TabsInv(e)'
    <2>1. /\ calls'[e] = s /\ sweep'[e] = sweep[e] /\ editor'[e] = editor[e]
          /\ seen'[e] = seen[e] /\ upload'[e] = upload[e] /\ mishaps'[e] = mishaps[e]
      BY <1>4, <1>7, <1>8, <1>9
    <2>2. SweepInv(e)'
      BY <1>1, <2>1, NoSweep DEF SweepInv, Save
    <2>3. /\ Len(s) \in Nat /\ DOMAIN s = 1..Len(s) /\ Head(s) = s[1]
      BY <1>7, QueueFacts
    <2>4. ASSUME NEW n \in DOMAIN s PROVE CallInv(e, n)'
      <3>1. CASE n = 1
        <4>1. /\ s[1].op = "save" /\ s[1].result = "OK" /\ s[1].revision = draft'.revision
              /\ s[1].design = draft'.design
          BY <1>1, <1>6, <1>7, <2>3 DEF r
        <4>2. /\ draft'.revision > 0 /\ draft'.revision >= editor[e].revision
              /\ draft'.revision <= draft'.revision
          BY <1>3, <1>6 DEF TabInv, r
        <4>3. QED
          BY <2>1, <3>1, <4>1, <4>2 DEF CallInv
      <3>2. CASE n # 1
        <4>1. n \in DOMAIN calls[e] /\ s[n] = calls[e][n] /\ calls[e][n] \in Calls
          BY <1>3, <1>7, <2>3, <3>2, QueueFacts
        <4>2. CallInv(e, n) /\ calls[e][n].revision \in Nat
          BY <1>3, <4>1 DEF TabInv, Calls, Revisions
        <4>3. calls[e][n].revision <= draft'.revision
          BY <1>3, <1>6, <4>2 DEF CallInv, r
        <4>4. calls[e][n].revision = draft'.revision =>
                 calls[e][n].revision = draft.revision /\ draft' = draft
          BY <1>3, <1>6, <1>10, <4>2 DEF CallInv, r
        <4>5. QED
          BY <2>1, <4>1, <4>2, <4>3, <4>4 DEF CallInv
      <3>3. QED
        BY <3>1, <3>2
    <2>5. editor[e].revision <= draft'.revision
      BY <1>3, <1>6 DEF TabInv, r
    <2>6. editor[e].revision = draft'.revision => draft' = draft
      BY <1>3, <1>6, <1>10 DEF TabInv, r
    <2>7. TabInv(e)'
      BY <1>3, <2>1, <2>4, <2>5, <2>6 DEF TabInv, IsOpen
    <2>8. LabelInv(e)'
      <3>1. Stored(e)' /\ Head(s).revision = draft'.revision
        BY <1>1, <1>7, <2>1 DEF Stored, r
      <3>2. Head(s).op # "publish" /\ Head(s).result = "OK"
        BY <1>1, <1>7
      <3>3. QED
        BY <1>3, <1>7, <2>1, <3>1, <3>2 DEF LabelInv, IsOpen
    <2>9. QED
      BY <2>2, <2>7, <2>8 DEF TabsInv
  <1>16. ImageInv'
    BY <1>9, SameImages
  <1>17. QED
    BY <1>11, <1>12, <1>13, <1>14, <1>15, <1>16, StepInv

LEMMA AnsweredInv == ASSUME DesignInv, NEW e \in Editors, Answered(e) PROVE DesignInv'
  <1> DEFINE call == Head(calls[e])
             goesOn == call.op = "save" /\ call.result = "OK" /\ call.publishes
             state == CASE call.result = "CONFLICT" -> "CONFLICT"
                        [] call.result = "FAILED" -> "ERROR"
                        [] goesOn -> "SAVING"
                        [] OTHER -> "SAVED"
             stored == call.op = "save" /\ call.result = "OK"
             shown == call.op = "publish" /\ call.result = "OK"
             rest == Tail(calls[e])
             next == Call("publish", call.design, call.revision, FALSE)
             q == IF goesOn THEN Append(rest, next) ELSE rest
             tab == [editor[e] EXCEPT
                       !.state = state,
                       !.revision = IF stored THEN call.revision ELSE @,
                       !.published = IF shown THEN call.design ELSE @]
             view == IF stored THEN call.design ELSE seen[e]
  <1>1. /\ calls[e] # << >> /\ call.result \in {"OK", "CONFLICT", "FAILED"}
        /\ UNCHANGED <<design, image, upload, sweep, mishaps, events>>
    BY DEF Answered
  <1>2. /\ editor \in [Editors -> Tabs] /\ calls \in [Editors -> Seq(Calls)]
        /\ seen \in [Editors -> Designs]
    BY DEF DesignInv, TypeOK, Tabs
  <1>3. /\ editor' = [editor EXCEPT ![e] = tab] /\ calls' = [calls EXCEPT ![e] = q]
        /\ seen' = [seen EXCEPT ![e] = view]
    BY <1>2 DEF Answered
  <1>4. /\ calls[e] \in Seq(Calls) /\ Len(calls[e]) \in Nat /\ Len(calls[e]) > 0
        /\ DOMAIN calls[e] = 1..Len(calls[e]) /\ call = calls[e][1]
        /\ call.design \in Designs /\ call.revision \in Nat
        /\ draft.revision \in Nat /\ editor[e].revision \in Nat
        /\ CallInv(e, 1) /\ TabInv(e) /\ LabelInv(e) /\ IsOpen(e) /\ SweepInv(e)
    BY <1>1, HeadFacts
  <1>5. /\ rest \in Seq(Calls) /\ Len(rest) = Len(calls[e]) - 1
        /\ \A n \in 1..Len(rest) : rest[n] = calls[e][n + 1]
    BY <1>1, <1>4, TailFacts
  <1>6. next \in Calls /\ next.op = "publish" /\ next.design = call.design
        /\ next.revision = call.revision /\ next.result = "NONE"
    BY <1>4, CallType DEF Call
  <1> HIDE DEF rest, next
  <1>7. /\ q \in Seq(Calls)
        /\ goesOn => /\ Len(q) = Len(rest) + 1 /\ q[Len(rest) + 1] = next
                     /\ \A n \in 1..Len(rest) : q[n] = rest[n]
        /\ ~goesOn => q = rest
    BY <1>5, <1>6, AppendFacts
  <1> HIDE DEF q
  <1>8. state \in {"SAVED", "SAVING", "CONFLICT", "ERROR"}
    OBVIOUS
  <1>9. /\ state = "CONFLICT" => call.result = "CONFLICT"
        /\ state = "SAVED" => call.result = "OK" /\ ~goesOn
        /\ goesOn => state = "SAVING" /\ stored
        /\ stored => state \in {"SAVED", "SAVING"}
    <2>1. CASE call.result = "CONFLICT"
      BY <2>1
    <2>2. CASE call.result = "FAILED"
      BY <2>2
    <2>3. CASE call.result = "OK"
      BY <2>3
    <2>4. QED
      BY <1>1, <2>1, <2>2, <2>3
  <1> HIDE DEF state
  <1>10. editor[e] \in Tabs
    BY <1>2
  <1>11. /\ tab \in Tabs /\ tab.state = state /\ tab.design = editor[e].design
         /\ tab.revision = IF stored THEN call.revision ELSE editor[e].revision
    BY <1>4, <1>8, <1>10 DEF Tabs, States, Revisions
  <1> HIDE DEF tab
  <1>12. view \in Designs
    BY <1>2, <1>4
  <1>13. Len(q) <= Len(calls[e]) /\ Len(q) \in Nat /\ DOMAIN q = 1..Len(q) /\ Len(rest) \in Nat
    <2>1. Len(q) \in Nat /\ DOMAIN q = 1..Len(q) /\ Len(rest) \in Nat
      BY <1>5, <1>7, QueueFacts
    <2>2. QED
      BY <1>4, <1>5, <1>7, <2>1
  <1>14. TypeOK'
    <2>1. Len(q) <= MaxCalls
      BY <1>4, <1>13 DEF DesignInv, TypeOK
    <2>2. /\ editor' \in [Editors -> [state : States, design : Designs,
                                      published : Designs, revision : Revisions]]
          /\ calls' \in [Editors -> Seq(Calls)] /\ seen' \in [Editors -> Designs]
      BY <1>2, <1>3, <1>7, <1>11, <1>12 DEF Tabs
    <2>3. \A o \in Editors : Len(calls'[o]) <= MaxCalls
      BY <1>2, <1>3, <2>1 DEF DesignInv, TypeOK
    <2> HIDE DEF call, goesOn, stored, shown, view
    <2>4. QED
      BY <1>1, <2>2, <2>3 DEF DesignInv, TypeOK, design
  <1>15. Others(e)
    BY <1>1, <1>2, <1>3 DEF Others, design
  <1>16. \A n \in 1..Len(rest) : /\ rest[n].result = "NONE"
                                 /\ n + 1 \in DOMAIN calls[e] /\ CallInv(e, n + 1)
    <2> TAKE n \in 1..Len(rest)
    <2>1. n + 1 \in DOMAIN calls[e] /\ n + 1 > 1
      BY <1>4, <1>5, <1>13
    <2>2. CallInv(e, n + 1)
      BY <1>4, <2>1 DEF TabInv
    <2>3. QED
      BY <1>5, <2>1, <2>2 DEF CallInv
  <1>17. \A n \in DOMAIN q \ (1..Len(rest)) : goesOn /\ q[n] = next
    <2> TAKE n \in DOMAIN q \ (1..Len(rest))
    <2>1. goesOn
      BY <1>7
    <2>2. Len(q) = Len(rest) + 1 /\ q[Len(rest) + 1] = next
      BY <1>7, <2>1
    <2>3. n = Len(rest) + 1
      BY <1>13, <2>2
    <2>4. QED
      BY <2>1, <2>2, <2>3
  <1>18. \A n \in DOMAIN q : q[n].result = "NONE"
    <2> TAKE n \in DOMAIN q
    <2>1. CASE n \in 1..Len(rest)
      BY <1>7, <1>16, <2>1
    <2>2. CASE n \notin 1..Len(rest)
      BY <1>6, <1>17, <2>2
    <2>3. QED
      BY <2>1, <2>2
  <1>19. stored => /\ call.revision >= editor[e].revision /\ call.revision > 0
                   /\ call.revision <= draft.revision
                   /\ (call.revision = draft.revision => call.design = draft.design)
    BY <1>4 DEF CallInv
  <1>20. TabsInv(e)'
    <2>1. /\ editor'[e] = tab /\ calls'[e] = q /\ seen'[e] = view
          /\ mishaps'[e] = mishaps[e] /\ sweep'[e] = None /\ upload'[e] = upload[e]
          /\ draft' = draft
      BY <1>1, <1>2, <1>3, <1>4 DEF design, SweepInv
    <2>2. SweepInv(e)'
      BY <2>1 DEF SweepInv
    <2>3. tab.revision >= editor[e].revision /\ tab.revision <= draft.revision
      BY <1>4, <1>11, <1>19 DEF TabInv
    <2>4. tab.revision \in Nat
      BY <1>11 DEF Tabs, Revisions
    <2>5. ASSUME NEW n \in DOMAIN q PROVE CallInv(e, n)'
      <3>1. CASE n \in 1..Len(rest)
        <4>1. q[n] = calls[e][n + 1] /\ CallInv(e, n + 1) /\ n + 1 \in DOMAIN calls[e]
          BY <1>5, <1>7, <1>16, <3>1
        <4>2. q[n] \in Calls /\ q[n].result = "NONE"
          BY <1>7, <1>13, <1>18, QueueFacts
        <4>3. q[n].revision \in Nat
          BY <4>2 DEF Calls, Revisions
        <4>4. q[n].op = "save" => q[n].revision <= tab.revision
          BY <1>4, <2>3, <2>4, <4>1, <4>2, <4>3 DEF CallInv
        <4>5. QED
          BY <2>1, <4>1, <4>2, <4>4 DEF CallInv
      <3>2. CASE n \notin 1..Len(rest)
        <4>1. goesOn /\ q[n] = next
          BY <1>17, <3>2
        <4>2. /\ q[n].op = "publish" /\ q[n].result = "NONE" /\ q[n].revision > 0
              /\ q[n].revision <= draft.revision
              /\ (q[n].revision = draft.revision => q[n].design = draft.design)
          BY <1>6, <1>19, <4>1
        <4>3. QED
          BY <2>1, <4>2 DEF CallInv
      <3>3. QED
        BY <3>1, <3>2
    <2>6. TabInv(e)'
      <3>1. tab.revision = draft.revision /\ draft.revision > 0 => view = draft.design
        BY <1>4, <1>11, <1>19 DEF TabInv
      <3>2. IsOpen(e)'
        BY <1>8, <1>11, <2>1 DEF IsOpen
      <3>3. QED
        BY <2>1, <2>3, <2>5, <3>1, <3>2 DEF TabInv
    <2>7. LabelInv(e)'
      <3>1. q # << >> => Head(q).result = "NONE"
        BY <1>7, <1>18, QueueFacts
      <3>2. ~Stored(e)'
        BY <2>1, <3>1 DEF Stored
      <3>3. Stored(e) <=> stored
        BY <1>1 DEF Stored
      <3>4. "foreign" \notin mishaps[e] /\ "lost" \notin mishaps[e] =>
                draft.revision = tab.revision
        BY <1>4, <1>11, <3>3 DEF LabelInv
      <3>5. ASSUME "late" \notin mishaps[e]
            PROVE  /\ Len(rest) = 0 /\ call.design = editor[e].design
                   /\ call.op = "publish" => seen[e] = editor[e].design
        <4>1. /\ Len(calls[e]) <= 1 /\ call.design = editor[e].design
              /\ call.op = "publish" => seen[e] = editor[e].design
          BY <1>1, <1>4, <3>5 DEF LabelInv
        <4>2. \A n \in Nat : n > 0 /\ n <= 1 => n - 1 = 0
          OBVIOUS
        <4>3. QED
          BY <1>4, <1>5, <4>1, <4>2
      <3>6. ASSUME "late" \notin mishaps[e], state = "SAVED"
            PROVE  editor[e].design = view
        <4>1. call \in Calls
          BY <1>4, HeadFacts, <1>1
        <4>2. call.op = "save" \/ call.op = "publish"
          BY <4>1 DEF Calls
        <4>3. QED
          BY <1>9, <3>5, <3>6, <4>2
      <3>7. ASSUME "late" \notin mishaps[e]
            PROVE  /\ Len(q) <= 1
                   /\ q # << >> => goesOn /\ Head(q) = next
        <4>1. CASE goesOn
          <5>1. Len(q) = 0 + 1 /\ q[0 + 1] = next
            BY <1>7, <3>5, <3>7, <4>1
          <5>2. 0 + 1 = 1 /\ \A n \in Nat : n = 1 => n <= 1 /\ n # 0
            OBVIOUS
          <5>3. Len(q) <= 1 /\ Len(q) # 0 /\ q[1] = next
            BY <1>13, <5>1, <5>2
          <5>4. QED
            BY <1>7, <4>1, <5>3, QueueFacts
        <4>2. CASE ~goesOn
          <5>1. Len(q) = 0
            BY <1>7, <3>5, <3>7, <4>2
          <5>2. q = << >>
            BY <1>7, <5>1, QueueFacts
          <5>3. QED
            BY <5>1, <5>2
        <4>3. QED
          BY <4>1, <4>2
      <3>8. ASSUME "late" \notin mishaps[e], q # << >>
            PROVE  /\ state = "SAVING" /\ Head(q).design = editor[e].design
                   /\ view = editor[e].design /\ Head(q).revision = tab.revision
        BY <1>6, <1>9, <1>11, <3>5, <3>7, <3>8
      <3>9. state = "CONFLICT" => mishaps[e] # {}
        BY <1>1, <1>4, <1>9 DEF LabelInv
      <3> HIDE DEF call, goesOn, stored, shown, view
      <3>10. QED
        BY <1>11, <2>1, <3>1, <3>2, <3>4, <3>6, <3>7, <3>8, <3>9 DEF LabelInv
    <2>8. QED
      BY <2>2, <2>6, <2>7 DEF TabsInv
  <1>21. QED
    BY <1>1, <1>14, <1>15, <1>20, SameDesign, SameImages, StepInv

LEMMA AnswerLostInv == ASSUME DesignInv, NEW e \in Editors, AnswerLost(e) PROVE DesignInv'
  <1> DEFINE rest == Tail(calls[e])
  <1>1. /\ calls[e] # << >> /\ Head(calls[e]).result # "SWEEPING"
        /\ calls' = [calls EXCEPT ![e] = rest]
        /\ mishaps' = [mishaps EXCEPT ![e] = @ \union {"lost"}]
        /\ UNCHANGED <<design, client, image, upload, sweep>> /\ events' \in 0..MaxEvents
    BY EventFacts DEF AnswerLost
  <1>2. /\ calls[e] \in Seq(Calls) /\ Len(calls[e]) \in Nat /\ Len(calls[e]) > 0
        /\ DOMAIN calls[e] = 1..Len(calls[e])
        /\ TabInv(e) /\ LabelInv(e) /\ IsOpen(e) /\ SweepInv(e)
    BY <1>1, HeadFacts
  <1>3. /\ rest \in Seq(Calls) /\ Len(rest) = Len(calls[e]) - 1
        /\ \A n \in 1..Len(rest) : rest[n] = calls[e][n + 1]
    BY <1>1, <1>2, TailFacts
  <1> HIDE DEF rest
  <1>4. Len(rest) \in Nat /\ DOMAIN rest = 1..Len(rest)
    BY <1>3, QueueFacts
  <1>5. TypeOK'
    <2>1. Len(rest) <= MaxCalls
      BY <1>2, <1>3 DEF DesignInv, TypeOK
    <2>2. QED
      BY <1>1, <1>3, <2>1 DEF DesignInv, TypeOK, design, client
  <1>6. Others(e)
    BY <1>1 DEF Others, DesignInv, TypeOK, design, client
  <1>7. \A n \in DOMAIN rest : /\ rest[n] = calls[e][n + 1] /\ rest[n].result = "NONE"
                               /\ CallInv(e, n + 1)
    <2> TAKE n \in DOMAIN rest
    <2>1. n + 1 \in DOMAIN calls[e] /\ n + 1 > 1 /\ rest[n] = calls[e][n + 1]
      BY <1>2, <1>3, <1>4
    <2>2. CallInv(e, n + 1)
      BY <1>2, <2>1 DEF TabInv
    <2>3. QED
      BY <2>1, <2>2 DEF CallInv
  <1>8. TabsInv(e)'
    <2>1. /\ editor'[e] = editor[e] /\ calls'[e] = rest /\ seen'[e] = seen[e]
          /\ mishaps'[e] = mishaps[e] \union {"lost"} /\ sweep'[e] = None
          /\ upload'[e] = upload[e] /\ draft' = draft
      BY <1>1, <1>2 DEF DesignInv, TypeOK, design, client, SweepInv
    <2>2. SweepInv(e)'
      BY <2>1 DEF SweepInv
    <2>3. ASSUME NEW n \in DOMAIN rest PROVE CallInv(e, n)'
      BY <1>7, <2>1 DEF CallInv
    <2>4. TabInv(e)'
      BY <1>2, <2>1, <2>3 DEF TabInv, IsOpen
    <2>5. LabelInv(e)'
      <3>1. "late" \notin mishaps[e] =>
               editor[e].state = "SAVING" /\ Len(rest) = 0 /\ rest = << >>
        <4>1. "late" \notin mishaps[e] => editor[e].state = "SAVING" /\ Len(calls[e]) <= 1
          BY <1>1, <1>2 DEF LabelInv
        <4>2. \A n \in Nat : n > 0 /\ n <= 1 => n - 1 = 0
          OBVIOUS
        <4>3. "late" \notin mishaps[e] => Len(rest) = 0
          BY <1>2, <1>3, <4>1, <4>2
        <4>4. QED
          BY <1>3, <4>1, <4>3, QueueFacts
      <3>2. QED
        BY <2>1, <3>1 DEF LabelInv
    <2>6. QED
      BY <2>2, <2>4, <2>5 DEF TabsInv
  <1>9. QED
    BY <1>1, <1>5, <1>6, <1>8, SameDesign, SameImages, StepInv

-----------------------------------------------------------------------------
(* The history of versions.                                                *)

\* Of rows that have the versions lo..hi, one each, hi - v are newer than v.
LEMMA NewerRows ==
  ASSUME NEW rows \in SUBSET Pages, NEW lo \in Nat, NEW hi \in Nat, NEW v \in lo..hi,
         {r.version : r \in rows} = lo..hi,
         \A r, s \in rows : r.version = s.version => r = s
  PROVE  Cardinality({r \in rows : r.version > v}) = hi - v
  <1> DEFINE S == (v + 1)..hi
             T == {r \in rows : r.version > v}
             f == [n \in S |-> CHOOSE r \in rows : r.version = n]
  <1>1. \A r \in rows : r.version \in lo..hi /\ r.version \in Nat
    BY DEF Pages, Versions
  <1>2. \A n \in S : f[n] \in rows /\ f[n].version = n
    <2> TAKE n \in S
    <2>1. n \in lo..hi
      OBVIOUS
    <2>2. \E r \in rows : r.version = n
      BY <2>1
    <2>3. QED
      BY <2>2
  <1> HIDE DEF f
  <1>3. f \in [S -> T]
    <2>1. f = [n \in S |-> f[n]]
      BY DEF f
    <2>2. \A n \in S : n > v
      OBVIOUS
    <2>3. QED
      BY <1>2, <2>1, <2>2
  <1>4. f \in Injection(S, T)
    BY <1>2, <1>3 DEF Injection, IsInjective
  <1>5. ASSUME NEW t \in T PROVE \E n \in S : f[n] = t
    <2>1. t.version \in S
      BY <1>1
    <2>2. f[t.version] \in rows /\ f[t.version].version = t.version
      BY <1>2, <2>1
    <2>3. QED
      BY <2>1, <2>2
  <1>6. f \in Surjection(S, T)
    BY <1>3, <1>5 DEF Surjection
  <1>7. ExistsBijection(S, T)
    BY <1>4, <1>6 DEF Bijection, ExistsBijection
  <1>8. /\ IsFiniteSet(S)
        /\ Cardinality(S) = IF v + 1 > hi THEN 0 ELSE hi - (v + 1) + 1
    <2>1. v + 1 \in Int /\ hi \in Int
      OBVIOUS
    <2> HIDE DEF S
    <2>2. QED
      BY <2>1, FS_Interval DEF S
  <1>9. Cardinality(T) = Cardinality(S)
    BY <1>7, <1>8, FS_Bijection
  <1>10. QED
    BY <1>8, <1>9

\* A publishing keeps exactly the newest versions.
LEMMA PublishedRows ==
  ASSUME DesignInv, NEW design2 \in Designs
  PROVE  LET new == [version |-> page.version + 1, design |-> design2]
             rows == versions \union {new}
         IN  /\ new \in Pages /\ new \in Kept(rows)
             /\ Kept(rows) \subseteq rows
             /\ \A r, s \in rows : r.version = s.version => r = s
             /\ {row.version : row \in Kept(rows)} =
                    {n \in 2..new.version : n + HistoryLimit > new.version}
  <1> DEFINE v == page.version
             new == [version |-> v + 1, design |-> design2]
             rows == versions \union {new}
             olds == {n \in 2..v : n + HistoryLimit > v}
             lo == IF v + 1 > HistoryLimit + 1 THEN (v + 1) - HistoryLimit ELSE 2
  <1>1. v \in Nat /\ v > 0 /\ HistoryLimit \in Nat /\ HistoryLimit > 0 /\ versions \subseteq Pages
    BY DEF DesignInv, TypeOK, Pages, Versions
  <1>2. new \in Pages /\ new.version = v + 1
    BY <1>1 DEF Pages, Versions
  <1>3. /\ {row.version : row \in versions} = olds
        /\ \A r, s \in versions : r.version = s.version => r = s
    BY DEF DesignInv, RowsInv
  <1> HIDE DEF new
  <1>4. \A r \in versions : r.version \in Nat /\ r.version <= v /\ r.version + HistoryLimit > v
    <2> TAKE r \in versions
    <2>1. r.version \in olds
      BY <1>3
    <2>2. QED
      BY <1>1, <2>1
  <1>5. \A r, s \in rows : r.version = s.version => r = s
    <2> TAKE r, s \in rows
    <2>1. \A t \in versions : t.version # v + 1
      BY <1>1, <1>4
    <2>2. QED
      BY <1>2, <1>3, <2>1
  <1>6. lo \in Nat /\ lo <= v + 1
    BY <1>1
  <1>7. {r.version : r \in rows} = olds \union {v + 1}
    BY <1>2, <1>3
  <1>8. olds \union {v + 1} = lo..(v + 1)
    <2>1. ASSUME NEW n \in olds PROVE n \in lo..(v + 1)
      BY <1>1
    <2>2. v + 1 \in lo..(v + 1)
      BY <1>1, <1>6
    <2>3. ASSUME NEW n \in lo..(v + 1), n # v + 1 PROVE n \in olds
      BY <1>1, <1>6, <2>3
    <2>4. QED
      BY <2>1, <2>2, <2>3
  <1>9. rows \in SUBSET Pages
    BY <1>1, <1>2
  <1> HIDE DEF lo, rows
  <1>10. \A r \in rows : Cardinality({s \in rows : s.version > r.version}) = (v + 1) - r.version
    <2>1. v + 1 \in Nat
      BY <1>1
    <2>2. {t.version : t \in rows} = lo..(v + 1)
      BY <1>7, <1>8
    <2>3. \A w \in lo..(v + 1) : Cardinality({s \in rows : s.version > w}) = (v + 1) - w
      BY <1>5, <1>6, <1>9, <2>1, <2>2, NewerRows
    <2>4. \A r \in rows : r.version \in lo..(v + 1)
      BY <2>2
    <2>5. QED
      BY <2>3, <2>4
  <1>11. \A r \in rows : r.version \in Nat
    BY <1>9 DEF Pages, Versions
  <1>12. \A r \in rows : r \in Kept(rows) <=> r.version + HistoryLimit > v + 1
    <2> TAKE r \in rows
    <2>1. r \in Kept(rows) <=> (v + 1) - r.version < HistoryLimit
      BY <1>10 DEF Kept
    <2>2. QED
      BY <1>1, <1>11, <2>1
  <1>13. Kept(rows) \subseteq rows
    BY DEF Kept
  <1>14. new \in rows
    BY DEF rows
  <1>15. new \in Kept(rows)
    BY <1>1, <1>2, <1>12, <1>14
  <1>16. {r.version : r \in Kept(rows)} = {n \in 2..(v + 1) : n + HistoryLimit > v + 1}
    <2>1. ASSUME NEW r \in Kept(rows)
          PROVE  r.version \in 2..(v + 1) /\ r.version + HistoryLimit > v + 1
      <3>1. r \in rows /\ r.version + HistoryLimit > v + 1
        BY <1>12, <1>13
      <3>2. r.version \in olds \union {v + 1}
        BY <1>7, <3>1
      <3>3. QED
        BY <1>1, <3>1, <3>2
    <2>2. ASSUME NEW n \in 2..(v + 1), n + HistoryLimit > v + 1
          PROVE  \E r \in Kept(rows) : r.version = n
      <3>1. n \in olds \union {v + 1}
        BY <1>1, <2>2
      <3>2. PICK r \in rows : r.version = n
        BY <1>7, <3>1
      <3>3. QED
        BY <1>12, <2>2, <3>2
    <2>3. QED
      BY <2>1, <2>2
  <1>17. QED
    BY <1>2, <1>5, <1>13, <1>15, <1>16 DEF new, rows

LEMMA PublishNewInv == ASSUME DesignInv, NEW e \in Editors, PublishNew(e) PROVE DesignInv'
  <1> DEFINE call == Head(calls[e])
             new == [version |-> page.version + 1, design |-> draft.design]
             run == [unread |-> Places, doomed |-> Images, dropped |-> None,
                     version |-> page.version + 1, revision |-> draft.revision]
  <1>1. /\ calls[e] # << >> /\ call.op = "publish" /\ call.result = "NONE"
        /\ call.revision = draft.revision /\ draft.revision # 0
        /\ page' = new /\ versions' = Kept(versions \union {new})
        /\ draft' = [draft EXCEPT !.base = page.version + 1]
        /\ Returns(e, "SWEEPING", draft.revision)
        /\ sweep' = [sweep EXCEPT ![e] = run] /\ TellsOthers(e)
        /\ UNCHANGED <<client, image, upload, events>>
    BY DEF PublishNew, Serves, CannotPublish, Stale
  <1>2. /\ calls[e] \in Seq(Calls) /\ Len(calls[e]) \in Nat
        /\ DOMAIN calls[e] = 1..Len(calls[e]) /\ call = calls[e][1]
        /\ draft.revision \in Nat /\ page.version \in Nat
        /\ CallInv(e, 1) /\ TabInv(e) /\ LabelInv(e) /\ IsOpen(e)
    BY <1>1, HeadFacts
  <1>3. /\ draft \in Drafts /\ draft.design \in Designs /\ versions \subseteq Pages
        /\ calls \in [Editors -> Seq(Calls)] /\ "SWEEPING" \in Results
    BY DEF DesignInv, TypeOK, Drafts, Results
  <1>4. /\ new \in Pages /\ new \in versions' /\ versions' \subseteq versions \union {new}
        /\ \A r, s \in versions \union {new} : r.version = s.version => r = s
        /\ {row.version : row \in versions'} =
               {n \in 2..new.version : n + HistoryLimit > new.version}
    BY <1>1, <1>3, PublishedRows
  <1>5. new.version = page.version + 1 /\ new.design = draft.design /\ new.version \in Versions
    BY <1>2 DEF Versions
  <1>6. /\ run \in Sweeps /\ run.unread = Places /\ run.dropped = None
        /\ run.version = new.version /\ run.revision = draft.revision
    BY <1>2, <1>5 DEF Sweeps, Revisions
  <1>7. /\ draft' \in Drafts /\ draft'.revision = draft.revision
        /\ draft'.design = draft.design /\ draft'.base = new.version
    BY <1>1, <1>3, <1>5 DEF Drafts
  <1>8. PICK s \in Seq(Calls) :
            /\ calls' = [calls EXCEPT ![e] = s]
            /\ s # << >> /\ Len(s) = Len(calls[e])
            /\ \A n \in 2..Len(s) : s[n] = calls[e][n]
            /\ Head(s).op = Head(calls[e]).op /\ Head(s).design = Head(calls[e]).design
            /\ Head(s).result = "SWEEPING" /\ Head(s).revision = draft.revision
    BY <1>1, <1>2, <1>3, ReturnFacts
  <1>9. /\ mishaps'[e] = mishaps[e]
        /\ mishaps' \in [Editors -> SUBSET {"foreign", "late", "lost"}]
        /\ \A o \in Editors \ {e} : mishaps'[o] = mishaps[o] \union {"foreign"}
    <2>1. mishaps \in [Editors -> SUBSET {"foreign", "late", "lost"}]
      BY DEF DesignInv, TypeOK
    <2>2. QED
      BY <1>1, <2>1 DEF TellsOthers
  <1>10. /\ editor' = editor /\ seen' = seen /\ image' = image /\ upload' = upload
         /\ events' = events /\ sweep' = [sweep EXCEPT ![e] = run] /\ page' = new
    BY <1>1 DEF client
  <1> HIDE DEF new, run
  <1>11. TypeOK'
    <2>1. Len(s) <= MaxCalls
      BY <1>8 DEF DesignInv, TypeOK
    <2>2. sweep' \in [Editors -> Sweeps \union {None}]
      BY <1>6, <1>10 DEF DesignInv, TypeOK
    <2>3. versions' \subseteq Pages
      BY <1>3, <1>4
    <2>4. QED
      BY <1>4, <1>7, <1>8, <1>9, <1>10, <2>1, <2>2, <2>3 DEF DesignInv, TypeOK
  <1>12. RowsInv'
    <2>1. \A r, t \in versions' : r.version = t.version => r = t
      BY <1>4
    <2>2. draft'.base = page'.version
      BY <1>7, <1>10
    <2>3. page' \in versions'
      BY <1>4, <1>10
    <2>4. {row.version : row \in versions'} =
             {n \in 2..page'.version : n + HistoryLimit > page'.version}
      BY <1>4, <1>10
    <2>5. QED
      BY <2>1, <2>2, <2>3, <2>4 DEF RowsInv
  <1>13. DesignStep
    <2>1. page'.version >= page.version /\ new.version > page.version
      BY <1>2, <1>5, <1>10
    <2>2. draft'.revision >= draft.revision
      BY <1>2, <1>7
    <2>3. QED
      BY <1>4, <1>7, <2>1, <2>2 DEF DesignStep
  <1>14. Others(e)
    BY <1>3, <1>8, <1>9, <1>10 DEF Others, DesignInv, TypeOK
  <1>15. ImageInv'
    BY <1>6, <1>10 DEF DesignInv, TypeOK, ImageInv
  <1>16. TabsInv(e)'
    <2>1. /\ calls'[e] = s /\ sweep'[e] = run /\ editor'[e] = editor[e]
          /\ seen'[e] = seen[e] /\ upload'[e] = upload[e] /\ mishaps'[e] = mishaps[e]
      BY <1>3, <1>8, <1>9, <1>10 DEF DesignInv, TypeOK
    <2>2. SweepInv(e)'
      <3>1. /\ new.version <= new.version /\ draft.revision > 0
            /\ draft.revision <= draft.revision
        BY <1>1, <1>2, <1>5
      <3>2. "versions" \in Places /\ "draft" \in Places
        BY DEF Places
      <3>3. /\ run.version <= page'.version /\ run.revision > 0
            /\ run.revision <= draft'.revision
        BY <1>6, <1>7, <1>10, <3>1
      <3>4. QED
        BY <1>1, <1>6, <1>8, <2>1, <3>2, <3>3 DEF SweepInv
    <2>3. /\ Len(s) \in Nat /\ DOMAIN s = 1..Len(s) /\ Head(s) = s[1]
      BY <1>8, QueueFacts
    <2>4. ASSUME NEW n \in DOMAIN s PROVE CallInv(e, n)'
      <3>1. CASE n = 1
        <4>1. /\ s[1].op = "publish" /\ s[1].result = "SWEEPING"
              /\ s[1].revision = draft'.revision /\ s[1].design = draft'.design
          BY <1>1, <1>2, <1>7, <1>8, <2>3 DEF CallInv
        <4>2. draft'.revision > 0 /\ draft'.revision <= draft'.revision
          BY <1>1, <1>2, <1>7
        <4>3. QED
          BY <2>1, <3>1, <4>1, <4>2 DEF CallInv
      <3>2. CASE n # 1
        <4>1. n \in DOMAIN calls[e] /\ s[n] = calls[e][n]
          BY <1>2, <1>8, <2>3, <3>2
        <4>2. CallInv(e, n)
          BY <1>2, <4>1 DEF TabInv
        <4>3. QED
          BY <1>7, <2>1, <4>1, <4>2 DEF CallInv
      <3>3. QED
        BY <3>1, <3>2
    <2>5. TabInv(e)'
      BY <1>2, <1>7, <2>1, <2>4 DEF TabInv, IsOpen
    <2>6. LabelInv(e)'
      <3>1. ~Stored(e) /\ ~Stored(e)'
        BY <1>1, <1>8, <2>1 DEF Stored
      <3>2. Head(s).result = "SWEEPING" /\ Head(s).op = "publish"
        BY <1>1, <1>8
      <3>3. QED
        BY <1>1, <1>2, <1>7, <1>8, <2>1, <3>1, <3>2 DEF LabelInv, IsOpen
    <2>7. QED
      BY <2>2, <2>5, <2>6 DEF TabsInv
  <1>17. QED
    BY <1>11, <1>12, <1>13, <1>14, <1>15, <1>16, StepInv

-----------------------------------------------------------------------------
(* Images: uploads and sweeps leave the design, the tabs' edits and their  *)
(* calls alone.                                                            *)

LEMMA ImageStepInv ==
  ASSUME DesignInv, NEW e \in Editors, UNCHANGED <<design, client, calls, mishaps>>,
         image' \in [Images -> [row : {"NONE", "LIVE", "DELETED"}, file : BOOLEAN]],
         NEW u \in Uploads \union {None}, upload' = [upload EXCEPT ![e] = u],
         u = None \/ IsOpen(e),
         NEW w \in Sweeps \union {None}, sweep' = [sweep EXCEPT ![e] = w],
         SweepInv(e)', events' \in 0..MaxEvents, ImageInv'
  PROVE  DesignInv'
  <1>1. TypeOK'
    BY DEF DesignInv, TypeOK, design, client
  <1>2. Others(e)
    BY DEF Others, DesignInv, TypeOK, design, client
  <1>3. TabInv(e)'
    <2>1. /\ TabInv(e) /\ editor' = editor /\ seen' = seen /\ calls' = calls /\ draft' = draft
          /\ upload'[e] = u
      BY DEF DesignInv, TypeOK, design, client
    <2>2. QED
      BY <2>1 DEF TabInv, CallInv, IsOpen
  <1>4. LabelInv(e)'
    BY DEF DesignInv, LabelInv, IsOpen, Stored, design, client
  <1>5. TabsInv(e)'
    BY <1>3, <1>4 DEF TabsInv
  <1>6. QED
    BY <1>1, <1>2, <1>5, SameDesign, StepInv

\* What an upload step leaves to the sweep of its tab.
LEMMA SweepStays ==
  ASSUME DesignInv, NEW e \in Editors, UNCHANGED <<design, calls, sweep>>
  PROVE  /\ SweepInv(e)' /\ sweep[e] \in Sweeps \union {None}
         /\ sweep' = [sweep EXCEPT ![e] = sweep[e]]
  BY DEF DesignInv, TypeOK, SweepInv, design

LEMMA UploadStays ==
  ASSUME DesignInv, NEW e \in Editors, UNCHANGED upload
  PROVE  /\ upload[e] \in Uploads \union {None} /\ upload' = [upload EXCEPT ![e] = upload[e]]
         /\ upload[e] = None \/ IsOpen(e)
  BY DEF DesignInv, TypeOK, TabInv

LEMMA UploadFacts ==
  ASSUME DesignInv, NEW e \in Editors, upload[e] # None
  PROVE  /\ upload[e] \in Uploads /\ upload[e].image \in Images
         /\ image[upload[e].image] \in [row : {"NONE", "LIVE", "DELETED"}, file : BOOLEAN]
  <1>1. upload[e] \in Uploads
    BY DEF DesignInv, TypeOK
  <1>2. upload[e].image \in Images
    BY <1>1 DEF Uploads
  <1>3. QED
    BY <1>1, <1>2 DEF DesignInv, TypeOK

LEMMA StartUploadInv ==
  ASSUME DesignInv, NEW e \in Editors, NEW i \in Images, StartUpload(e, i)
  PROVE  DesignInv'
  <1> DEFINE u == [image |-> i, into |-> editor[e].design]
  <1>1. /\ IsOpen(e) /\ upload[e] = None /\ image[i].row = "NONE" /\ image[i].file = FALSE
        /\ image' = [image EXCEPT ![i].file = TRUE]
        /\ upload' = [upload EXCEPT ![e] = u] /\ events' \in 0..MaxEvents
        /\ UNCHANGED <<design, client, calls, sweep, mishaps>>
    BY EventFacts DEF StartUpload
  <1>2. u \in Uploads /\ u.image = i
    BY DEF DesignInv, TypeOK, Uploads
  <1> HIDE DEF u
  <1>3. /\ image \in [Images -> [row : {"NONE", "LIVE", "DELETED"}, file : BOOLEAN]]
        /\ upload \in [Editors -> Uploads \union {None}]
    BY DEF DesignInv, TypeOK
  <1>4. /\ image' \in [Images -> [row : {"NONE", "LIVE", "DELETED"}, file : BOOLEAN]]
        /\ image'[i].row = "NONE" /\ image'[i].file
        /\ \A j \in Images : image'[j].row = image[j].row /\ (image[j].file => image'[j].file)
    BY <1>1, <1>3
  <1>5. \A f \in Editors : upload[f] # None => upload[f].image # i
    BY <1>1 DEF DesignInv, ImageInv
  <1>6. ImageInv'
    <2>1. \A j \in Images : image'[j].row = "LIVE" => image'[j].file
      BY <1>4 DEF DesignInv, ImageInv
    <2>2. ASSUME NEW o \in Editors, upload'[o] # None, image'[upload'[o].image].row = "NONE"
          PROVE  /\ image'[upload'[o].image].file
                 /\ \A f \in Editors :
                       upload'[f] # None /\ upload'[f].image = upload'[o].image => f = o
      <3>1. CASE o = e
        BY <1>1, <1>2, <1>3, <1>4, <1>5, <3>1
      <3>2. CASE o # e
        <4>1. upload'[o] = upload[o] /\ upload[o].image \in Images /\ upload[o].image # i
          BY <1>1, <1>3, <1>5, <2>2, <3>2, UploadFacts
        <4>2. image[upload[o].image].row = "NONE"
          BY <1>4, <2>2, <4>1
        <4>3. /\ image[upload[o].image].file
              /\ \A f \in Editors :
                    upload[f] # None /\ upload[f].image = upload[o].image => f = o
          BY <2>2, <4>1, <4>2 DEF DesignInv, ImageInv
        <4>4. QED
          BY <1>1, <1>2, <1>3, <1>4, <4>1, <4>3
      <3>3. QED
        BY <3>1, <3>2
    <2>3. \A o \in Editors : sweep'[o] # None /\ sweep'[o].dropped # None =>
             image'[sweep'[o].dropped].row = "DELETED"
      <3> TAKE o \in Editors
      <3>1. sweep' = sweep
        BY <1>1
      <3>2. sweep[o] # None /\ sweep[o].dropped # None => sweep[o].dropped \in Images
        BY DEF DesignInv, TypeOK, Sweeps
      <3>3. QED
        BY <1>4, <3>1, <3>2 DEF DesignInv, ImageInv
    <2>4. QED
      BY <2>1, <2>2, <2>3 DEF ImageInv
  <1>7. /\ SweepInv(e)' /\ sweep[e] \in Sweeps \union {None}
        /\ sweep' = [sweep EXCEPT ![e] = sweep[e]]
    BY <1>1, SweepStays
  <1>8. u \in Uploads \union {None}
    BY <1>2
  <1>9. QED
    BY <1>1, <1>4, <1>6, <1>7, <1>8, ImageStepInv

LEMMA InsertRowInv == ASSUME DesignInv, NEW e \in Editors, InsertRow(e) PROVE DesignInv'
  <1> DEFINE i == upload[e].image
  <1>1. /\ upload[e] # None /\ image[i].row = "NONE"
        /\ image' = [image EXCEPT ![i].row = "LIVE"]
        /\ UNCHANGED <<design, client, calls, upload, sweep, mishaps, events>>
        /\ events' \in 0..MaxEvents
    BY DEF InsertRow, DesignInv, TypeOK
  <1>2. i \in Images
    BY <1>1, UploadFacts
  <1>3. image[i].file
    BY <1>1 DEF DesignInv, ImageInv
  <1> HIDE DEF i
  <1>4. image \in [Images -> [row : {"NONE", "LIVE", "DELETED"}, file : BOOLEAN]]
    BY DEF DesignInv, TypeOK
  <1>5. /\ image' \in [Images -> [row : {"NONE", "LIVE", "DELETED"}, file : BOOLEAN]]
        /\ image'[i].row = "LIVE" /\ image'[i].file
        /\ \A j \in Images \ {i} : image'[j] = image[j]
    BY <1>1, <1>2, <1>3, <1>4
  <1>6. ImageInv'
    <2>1. \A j \in Images : image'[j].row = "LIVE" => image'[j].file
      BY <1>5 DEF DesignInv, ImageInv
    <2>2. ASSUME NEW o \in Editors, upload'[o] # None, image'[upload'[o].image].row = "NONE"
          PROVE  /\ image'[upload'[o].image].file
                 /\ \A f \in Editors :
                       upload'[f] # None /\ upload'[f].image = upload'[o].image => f = o
      <3>1. upload' = upload /\ upload[o].image \in Images
        BY <1>1, <2>2, UploadFacts
      <3>2. image'[upload[o].image] = image[upload[o].image]
        BY <1>5, <2>2, <3>1
      <3>3. QED
        BY <2>2, <3>1, <3>2 DEF DesignInv, ImageInv
    <2>3. \A o \in Editors : sweep'[o] # None /\ sweep'[o].dropped # None =>
             image'[sweep'[o].dropped].row = "DELETED"
      <3> TAKE o \in Editors
      <3>1. sweep' = sweep
        BY <1>1
      <3>2. sweep[o] # None /\ sweep[o].dropped # None => sweep[o].dropped \in Images
        BY DEF DesignInv, TypeOK, Sweeps
      <3>3. QED
        BY <1>1, <1>5, <3>1, <3>2 DEF DesignInv, ImageInv
    <2>4. QED
      BY <2>1, <2>2, <2>3 DEF ImageInv
  <1>7. /\ upload[e] \in Uploads \union {None} /\ upload' = [upload EXCEPT ![e] = upload[e]]
        /\ upload[e] = None \/ IsOpen(e)
    BY <1>1, UploadStays
  <1>8. /\ SweepInv(e)' /\ sweep[e] \in Sweeps \union {None}
        /\ sweep' = [sweep EXCEPT ![e] = sweep[e]]
    BY <1>1, SweepStays
  <1>9. QED
    BY <1>1, <1>5, <1>6, <1>7, <1>8, ImageStepInv

LEMMA UploadRefusedInv == ASSUME DesignInv, NEW e \in Editors, UploadRefused(e) PROVE DesignInv'
  <1> DEFINE i == upload[e].image
  <1>1. /\ upload[e] # None /\ image[i].row = "NONE"
        /\ image' = [image EXCEPT ![i].file = FALSE]
        /\ upload' = [upload EXCEPT ![e] = None] /\ events' \in 0..MaxEvents
        /\ UNCHANGED <<design, client, calls, sweep, mishaps>>
    BY EventFacts DEF UploadRefused
  <1>2. i \in Images
    BY <1>1, UploadFacts
  <1>3. \A f \in Editors : upload[f] # None /\ upload[f].image = i => f = e
    BY <1>1 DEF DesignInv, ImageInv
  <1> HIDE DEF i
  <1>4. /\ image \in [Images -> [row : {"NONE", "LIVE", "DELETED"}, file : BOOLEAN]]
        /\ upload \in [Editors -> Uploads \union {None}]
    BY DEF DesignInv, TypeOK
  <1>5. /\ image' \in [Images -> [row : {"NONE", "LIVE", "DELETED"}, file : BOOLEAN]]
        /\ image'[i].row = "NONE"
        /\ \A j \in Images \ {i} : image'[j] = image[j]
    BY <1>1, <1>2, <1>4
  <1>6. ImageInv'
    <2>1. \A j \in Images : image'[j].row = "LIVE" => image'[j].file
      BY <1>5 DEF DesignInv, ImageInv
    <2>2. ASSUME NEW o \in Editors, upload'[o] # None, image'[upload'[o].image].row = "NONE"
          PROVE  /\ image'[upload'[o].image].file
                 /\ \A f \in Editors :
                       upload'[f] # None /\ upload'[f].image = upload'[o].image => f = o
      <3>1. o # e /\ upload'[o] = upload[o]
        BY <1>1, <1>4, <2>2
      <3>2. upload[o].image \in Images /\ upload[o].image # i
        BY <1>3, <2>2, <3>1, UploadFacts
      <3>3. image'[upload[o].image] = image[upload[o].image]
        BY <1>5, <3>2
      <3>4. /\ image[upload[o].image].file
            /\ \A f \in Editors : upload[f] # None /\ upload[f].image = upload[o].image => f = o
        BY <2>2, <3>1, <3>3 DEF DesignInv, ImageInv
      <3>5. QED
        BY <1>1, <1>4, <3>1, <3>3, <3>4
    <2>3. \A o \in Editors : sweep'[o] # None /\ sweep'[o].dropped # None =>
             image'[sweep'[o].dropped].row = "DELETED"
      <3> TAKE o \in Editors
      <3>1. sweep' = sweep
        BY <1>1
      <3>2. sweep[o] # None /\ sweep[o].dropped # None => sweep[o].dropped \in Images
        BY DEF DesignInv, TypeOK, Sweeps
      <3>3. QED
        BY <1>1, <1>5, <3>1, <3>2 DEF DesignInv, ImageInv
    <2>4. QED
      BY <2>1, <2>2, <2>3 DEF ImageInv
  <1>7. QED
    BY <1>1, <1>5, <1>6, SweepStays, ImageStepInv

LEMMA UploadLostInv == ASSUME DesignInv, NEW e \in Editors, UploadLost(e) PROVE DesignInv'
  <1>1. /\ upload' = [upload EXCEPT ![e] = None] /\ events' \in 0..MaxEvents
        /\ UNCHANGED <<design, client, image, calls, sweep, mishaps>>
    BY EventFacts DEF UploadLost
  <1>2. ImageInv'
    BY <1>1 DEF DesignInv, TypeOK, ImageInv
  <1>3. image' \in [Images -> [row : {"NONE", "LIVE", "DELETED"}, file : BOOLEAN]]
    BY <1>1 DEF DesignInv, TypeOK
  <1>4. QED
    BY <1>1, <1>2, <1>3, SweepStays, ImageStepInv

LEMMA SweepReadsInv ==
  ASSUME DesignInv, NEW e \in Editors, NEW place \in Places, SweepReads(e, place)
  PROVE  DesignInv'
  <1> DEFINE s == sweep[e]
             left == s.doomed \ Spares(place)
             w == [s EXCEPT !.unread = IF left = {} THEN {} ELSE @ \ {place},
                            !.doomed = left]
  <1>1. /\ s # None /\ place \in s.unread
        /\ sweep \in [Editors -> Sweeps \union {None}]
        /\ UNCHANGED <<design, client, image, calls, upload, mishaps, events>>
    BY DEF SweepReads, DesignInv, TypeOK
  <1>2. sweep' = [sweep EXCEPT ![e] = w]
    BY <1>1 DEF SweepReads
  <1>3. s \in Sweeps
    BY <1>1
  <1>4. /\ w \in Sweeps /\ w.doomed = left /\ w.dropped = s.dropped
        /\ w.version = s.version /\ w.revision = s.revision
        /\ left # {} => w.unread = s.unread \ {place}
    BY <1>3 DEF Sweeps
  <1> HIDE DEF w
  <1>5. SweepInv(e)'
    <2>1. /\ sweep'[e] = w /\ page' = page /\ draft' = draft /\ versions' = versions
          /\ calls'[e] = calls[e]
      BY <1>1, <1>2 DEF design
    <2>2. SweepInv(e)
      BY DEF DesignInv
    <2>3. ASSUME "versions" \notin w.unread, NEW row \in versions, row.version <= w.version
          PROVE  row.design.image \notin left
      <3>1. CASE place = "versions"
        BY <2>3, <3>1 DEF Spares
      <3>2. CASE place # "versions" /\ left # {}
        BY <1>1, <1>4, <2>2, <2>3, <3>2 DEF SweepInv
      <3>3. QED
        BY <3>1, <3>2
    <2>4. ASSUME "draft" \notin w.unread, w.revision = draft.revision
          PROVE  draft.design.image \notin left
      <3>1. CASE place = "draft"
        <4>1. draft.revision \in Nat /\ draft.revision > 0
          BY <1>1, <1>4, <2>2, <2>4 DEF SweepInv, DesignInv, TypeOK, Drafts, Revisions
        <4>2. 1 \in 1..draft.revision
          BY <4>1
        <4>3. QED
          BY <3>1, <4>2 DEF Spares
      <3>2. CASE place # "draft" /\ left # {}
        BY <1>1, <1>4, <2>2, <2>4, <3>2 DEF SweepInv
      <3>3. QED
        BY <3>1, <3>2
    <2> HIDE DEF left
    <2>5. QED
      BY <1>1, <1>4, <2>1, <2>2, <2>3, <2>4 DEF SweepInv
  <1>6. ImageInv'
    BY <1>1, <1>2, <1>4 DEF DesignInv, ImageInv
  <1>7. image' \in [Images -> [row : {"NONE", "LIVE", "DELETED"}, file : BOOLEAN]]
        /\ events' \in 0..MaxEvents
    BY <1>1 DEF DesignInv, TypeOK
  <1>8. /\ upload[e] \in Uploads \union {None} /\ upload' = [upload EXCEPT ![e] = upload[e]]
        /\ upload[e] = None \/ IsOpen(e)
    BY <1>1, UploadStays
  <1>9. QED
    BY <1>1, <1>2, <1>4, <1>5, <1>6, <1>7, <1>8, ImageStepInv

LEMMA DropRowInv ==
  ASSUME DesignInv, NEW e \in Editors, NEW i \in Images, DropRow(e, i) PROVE DesignInv'
  <1> DEFINE s == sweep[e]
             w == [s EXCEPT !.doomed = @ \ {i},
                            !.dropped = IF image[i].row = "LIVE" THEN i ELSE None]
  <1>1. /\ s # None /\ i \in s.doomed
        /\ sweep \in [Editors -> Sweeps \union {None}]
        /\ image \in [Images -> [row : {"NONE", "LIVE", "DELETED"}, file : BOOLEAN]]
        /\ image' = [image EXCEPT ![i].row = IF @ = "LIVE" THEN "DELETED" ELSE @]
        /\ UNCHANGED <<design, client, calls, upload, mishaps, events>>
    BY DEF DropRow, SweepActs, DesignInv, TypeOK
  <1>2. sweep' = [sweep EXCEPT ![e] = w]
    BY <1>1 DEF DropRow
  <1>3. s \in Sweeps
    BY <1>1
  <1>4. /\ w \in Sweeps /\ w.doomed \subseteq s.doomed /\ w.unread = s.unread
        /\ w.version = s.version /\ w.revision = s.revision
        /\ w.dropped # None => w.dropped = i /\ image[i].row = "LIVE"
    BY <1>3 DEF Sweeps
  <1> HIDE DEF w
  <1>5. /\ image' \in [Images -> [row : {"NONE", "LIVE", "DELETED"}, file : BOOLEAN]]
        /\ image[i].row = "LIVE" => image'[i].row = "DELETED"
        /\ \A j \in Images : /\ image'[j].file = image[j].file
                             /\ image'[j].row = "LIVE" => image[j].row = "LIVE"
                             /\ image'[j].row = "NONE" => image[j].row = "NONE"
                             /\ image[j].row = "DELETED" => image'[j].row = "DELETED"
    BY <1>1
  <1>6. SweepInv(e)'
    BY <1>1, <1>2, <1>4 DEF DesignInv, SweepInv, design
  <1>7. ImageInv'
    <2>1. \A j \in Images : image'[j].row = "LIVE" => image'[j].file
      BY <1>5 DEF DesignInv, ImageInv
    <2>2. ASSUME NEW o \in Editors, upload'[o] # None, image'[upload'[o].image].row = "NONE"
          PROVE  /\ image'[upload'[o].image].file
                 /\ \A f \in Editors :
                       upload'[f] # None /\ upload'[f].image = upload'[o].image => f = o
      <3>1. upload' = upload /\ upload[o].image \in Images
        BY <1>1, <2>2, UploadFacts
      <3>2. QED
        BY <1>5, <2>2, <3>1 DEF DesignInv, ImageInv
    <2>3. \A o \in Editors : sweep'[o] # None /\ sweep'[o].dropped # None =>
             image'[sweep'[o].dropped].row = "DELETED"
      <3> TAKE o \in Editors
      <3>1. CASE o = e
        BY <1>1, <1>2, <1>4, <1>5, <3>1
      <3>2. CASE o # e
        <4>1. sweep'[o] = sweep[o]
          BY <1>2, <3>2
        <4>2. sweep[o] # None /\ sweep[o].dropped # None => sweep[o].dropped \in Images
          BY DEF DesignInv, TypeOK, Sweeps
        <4>3. QED
          BY <1>5, <4>1, <4>2 DEF DesignInv, ImageInv
      <3>3. QED
        BY <3>1, <3>2
    <2>4. QED
      BY <2>1, <2>2, <2>3 DEF ImageInv
  <1>8. events' \in 0..MaxEvents
    BY <1>1 DEF DesignInv, TypeOK
  <1>9. /\ upload[e] \in Uploads \union {None} /\ upload' = [upload EXCEPT ![e] = upload[e]]
        /\ upload[e] = None \/ IsOpen(e)
    BY <1>1, UploadStays
  <1>10. QED
    BY <1>1, <1>2, <1>4, <1>5, <1>6, <1>7, <1>8, <1>9, ImageStepInv

LEMMA DropFileInv == ASSUME DesignInv, NEW e \in Editors, DropFile(e) PROVE DesignInv'
  <1> DEFINE s == sweep[e]
             w == [s EXCEPT !.dropped = None]
             i == s.dropped
  <1>1. /\ s # None /\ i # None
        /\ sweep \in [Editors -> Sweeps \union {None}]
        /\ image \in [Images -> [row : {"NONE", "LIVE", "DELETED"}, file : BOOLEAN]]
        /\ image' = [image EXCEPT ![i].file = FALSE] \/ image' = image
        /\ events' \in 0..MaxEvents
        /\ UNCHANGED <<design, client, calls, upload, mishaps>>
    BY EventFacts DEF DropFile, DesignInv, TypeOK
  <1>2. sweep' = [sweep EXCEPT ![e] = w]
    BY <1>1 DEF DropFile
  <1>3. s \in Sweeps /\ image[i].row = "DELETED"
    BY <1>1 DEF DesignInv, ImageInv
  <1>4. /\ w \in Sweeps /\ w.doomed = s.doomed /\ w.unread = s.unread
        /\ w.version = s.version /\ w.revision = s.revision /\ w.dropped = None
        /\ i \in Images
    BY <1>1, <1>3 DEF Sweeps
  <1> HIDE DEF w, i
  <1>5. /\ image' \in [Images -> [row : {"NONE", "LIVE", "DELETED"}, file : BOOLEAN]]
        /\ \A j \in Images : image'[j].row = image[j].row
        /\ \A j \in Images : image[j].row # "DELETED" => image'[j].file = image[j].file
    BY <1>1, <1>3, <1>4
  <1>6. SweepInv(e)'
    BY <1>1, <1>2, <1>4 DEF DesignInv, SweepInv, design
  <1>7. ImageInv'
    <2>1. \A j \in Images : image'[j].row = "LIVE" => image'[j].file
      BY <1>5 DEF DesignInv, ImageInv
    <2>2. ASSUME NEW o \in Editors, upload'[o] # None, image'[upload'[o].image].row = "NONE"
          PROVE  /\ image'[upload'[o].image].file
                 /\ \A f \in Editors :
                       upload'[f] # None /\ upload'[f].image = upload'[o].image => f = o
      <3>1. upload' = upload /\ upload[o].image \in Images
        BY <1>1, <2>2, UploadFacts
      <3>2. QED
        BY <1>5, <2>2, <3>1 DEF DesignInv, ImageInv
    <2>3. \A o \in Editors : sweep'[o] # None /\ sweep'[o].dropped # None =>
             image'[sweep'[o].dropped].row = "DELETED"
      <3> TAKE o \in Editors
      <3>1. CASE o = e
        BY <1>1, <1>2, <1>4, <3>1
      <3>2. CASE o # e
        <4>1. sweep'[o] = sweep[o]
          BY <1>2, <3>2
        <4>2. sweep[o] # None /\ sweep[o].dropped # None => sweep[o].dropped \in Images
          BY DEF DesignInv, TypeOK, Sweeps
        <4>3. QED
          BY <1>5, <4>1, <4>2 DEF DesignInv, ImageInv
      <3>3. QED
        BY <3>1, <3>2
    <2>4. QED
      BY <2>1, <2>2, <2>3 DEF ImageInv
  <1>8. /\ upload[e] \in Uploads \union {None} /\ upload' = [upload EXCEPT ![e] = upload[e]]
        /\ upload[e] = None \/ IsOpen(e)
    BY <1>1, UploadStays
  <1>9. QED
    BY <1>1, <1>2, <1>4, <1>5, <1>6, <1>7, <1>8, ImageStepInv

-----------------------------------------------------------------------------
(* The properties.                                                         *)

LEMMA InitInv == Init => DesignInv
  <1> SUFFICES ASSUME Init PROVE DesignInv
    OBVIOUS
  <1>1. FirstDesign \in Designs /\ FirstDesign.image = None
    BY DEF FirstDesign, Designs
  <1>2. Blank \in Tabs /\ Blank.state = "CLOSED" /\ Blank.revision = 0
    BY <1>1 DEF Blank, Tabs, States, Revisions
  <1>3. /\ page \in Pages /\ page.version = 1
        /\ draft \in Drafts /\ draft.revision = 0 /\ versions = {}
    BY <1>1 DEF Init, Pages, Drafts, Versions, Revisions
  <1>4. << >> \in Seq(Calls) /\ Len(<< >>) = 0 /\ DOMAIN << >> = {} /\ 0 <= MaxCalls
    BY EmptySeq
  <1>5. TypeOK
    BY <1>1, <1>2, <1>3, <1>4 DEF Init, TypeOK, Tabs
  <1>6. RowsInv
    BY <1>3 DEF RowsInv
  <1>7. ImageInv
    BY DEF Init, ImageInv
  <1>8. ASSUME NEW e \in Editors PROVE SweepInv(e) /\ TabInv(e) /\ LabelInv(e)
    <2>1. /\ editor[e].state = "CLOSED" /\ editor[e].revision = 0 /\ calls[e] = << >>
          /\ upload[e] = None /\ sweep[e] = None
      BY <1>2 DEF Init
    <2>2. Len(calls[e]) <= 1 /\ 0 <= 0
      BY <1>4, <2>1
    <2>3. DOMAIN calls[e] = {}
      BY <1>4, <2>1
    <2>4. SweepInv(e)
      BY <2>1 DEF SweepInv
    <2>5. TabInv(e)
      BY <1>3, <2>1, <2>2, <2>3 DEF TabInv, IsOpen
    <2>6. LabelInv(e)
      BY <2>1, <2>2 DEF LabelInv, IsOpen
    <2>7. QED
      BY <2>4, <2>5, <2>6
  <1>9. QED
    BY <1>5, <1>6, <1>7, <1>8 DEF DesignInv

\* Every action, and a step that changes nothing.
LEMMA NextInv == ASSUME DesignInv, [Next]_vars PROVE DesignInv'
  <1>1. ASSUME UNCHANGED vars PROVE DesignInv'
    <2>1. UNCHANGED <<page, draft, versions, image, editor, seen, calls, upload, sweep,
                      mishaps, events>>
      BY <1>1 DEF vars, design, client
    <2>2. TypeOK'
      BY <2>1 DEF DesignInv, TypeOK
    <2>3. RowsInv' /\ ImageInv'
      BY <2>1, SameDesign, SameImages DEF design
    <2>4. ASSUME NEW e \in Editors PROVE SweepInv(e)' /\ TabInv(e)' /\ LabelInv(e)'
      <3>1. SweepInv(e) /\ TabInv(e) /\ LabelInv(e)
        BY DEF DesignInv
      <3>2. SweepInv(e)'
        BY <2>1, <3>1 DEF SweepInv
      <3>3. TabInv(e)'
        BY <2>1, <3>1 DEF TabInv, CallInv, IsOpen
      <3>4. LabelInv(e)'
        BY <2>1, <3>1 DEF LabelInv, IsOpen, Stored
      <3>5. QED
        BY <3>2, <3>3, <3>4
    <2>5. QED
      BY <2>2, <2>3, <2>4 DEF DesignInv
  <1>2. ASSUME NEW e \in Editors,
               \/ OpenPage(e) \/ OpenDraft(e) \/ CloseTab(e)
               \/ \E look \in Looks : ChangeLook(e, look)
               \/ RemoveImage(e) \/ Autosave(e) \/ ClickPublish(e)
        PROVE  DesignInv'
    BY <1>2, OpenPageInv, OpenDraftInv, CloseTabInv, ChangeLookInv, RemoveImageInv,
       AutosaveInv, ClickPublishInv
  <1>3. ASSUME NEW e \in Editors,
               \/ Save(e) \/ PublishSame(e) \/ PublishNew(e)
               \/ Conflict(e) \/ Refuse(e) \/ Answered(e) \/ AnswerLost(e)
        PROVE  DesignInv'
    BY <1>3, SaveInv, PublishSameInv, PublishNewInv, ConflictInv, RefuseInv, AnsweredInv,
       AnswerLostInv
  <1>4. ASSUME NEW e \in Editors,
               \/ \E i \in Images : StartUpload(e, i) \/ DropRow(e, i)
               \/ InsertRow(e) \/ UploadRefused(e) \/ UploadLost(e) \/ Uploaded(e)
               \/ \E place \in Places : SweepReads(e, place)
               \/ DropFile(e) \/ SweepEnds(e) \/ SweepFails(e)
        PROVE  DesignInv'
    BY <1>4, StartUploadInv, DropRowInv, InsertRowInv, UploadRefusedInv, UploadLostInv,
       UploadedInv, SweepReadsInv, DropFileInv, SweepEndsInv, SweepFailsInv
  <1>5. QED
    BY <1>1, <1>2, <1>3, <1>4 DEF Next

\* The inductive invariant holds of every behaviour.
THEOREM DesignInvariance == Spec => []DesignInv
  BY InitInv, NextInv, PTL DEF Spec

\* Whatever the tabs do to them at the same time, the page, its draft, the
\* versions kept and the images agree (publishDesignDraft,
\* pruneDesignHistory, the assets route).
THEOREM RowsAlwaysAgree == Spec => []RowsAgree
  <1>1. DesignInv => RowsAgree
    BY DEF DesignInv, RowsInv, ImageInv, RowsAgree
  <1>2. QED
    BY <1>1, DesignInvariance, PTL

\* "Draft rN", "Saved" and "Reload needed" tell the truth, given what this
\* tab went through (saveDraft, publish in the editor).
THEOREM LabelsAreTrue == Spec => []LabelIsTrue
  <1>1. DesignInv => LabelIsTrue
    <2> SUFFICES ASSUME DesignInv, NEW e \in Editors
                 PROVE  /\ editor[e].state = "SAVED" /\ "late" \notin mishaps[e]
                             => editor[e].design = seen[e]
                        /\ editor[e].state = "SAVED" /\ mishaps[e] = {} /\ draft.revision > 0
                             => /\ editor[e].revision = draft.revision
                                /\ editor[e].design = draft.design
                        /\ editor[e].state = "CONFLICT" => mishaps[e] # {}
      BY DEF LabelIsTrue
    <2>1. LabelInv(e) /\ TabInv(e)
      BY DEF DesignInv
    <2>2. ASSUME editor[e].state = "SAVED", mishaps[e] = {}
          PROVE  editor[e].revision = draft.revision
      <3>1. ~Stored(e)
        BY <2>1, <2>2 DEF LabelInv, Stored
      <3>2. QED
        BY <2>1, <2>2, <3>1 DEF LabelInv, IsOpen
    <2>3. QED
      BY <2>1, <2>2 DEF LabelInv, TabInv
  <1>2. QED
    BY <1>1, DesignInvariance, PTL

\* Only a save changes the draft's design, only a publishing the page, and
\* each answers the tab that asked.
LEMMA WhoWrites ==
  ASSUME DesignInv, [Next]_vars, NEW e \in Editors, calls'[e] # calls[e]
  PROVE  /\ draft'.design # draft.design => Save(e)
         /\ page' # page => PublishNew(e)
  <1>1. calls \in [Editors -> Seq(Calls)] /\ draft \in Drafts
    BY DEF DesignInv, TypeOK
  <1>2. ASSUME NEW f \in Editors, Save(f) PROVE f = e
    BY <1>1, <1>2 DEF Save, Returns
  <1>3. ASSUME NEW f \in Editors, PublishNew(f) PROVE f = e /\ draft'.design = draft.design
    BY <1>1, <1>3 DEF PublishNew, Returns, Drafts
  <1>4. ASSUME NEW f \in Editors, Save(f) PROVE page' = page
    BY <1>4 DEF Save
  <1>5. ASSUME UNCHANGED design PROVE draft' = draft /\ page' = page
    BY <1>5 DEF design
  <1>6. ASSUME NEW f \in Editors,
               \/ OpenPage(f) \/ OpenDraft(f) \/ CloseTab(f)
               \/ \E look \in Looks : ChangeLook(f, look)
               \/ RemoveImage(f) \/ Autosave(f) \/ ClickPublish(f)
        PROVE  UNCHANGED design
    BY <1>6 DEF OpenPage, OpenDraft, CloseTab, ChangeLook, RemoveImage, Commits, Autosave,
                ClickPublish, Calling
  <1>7. ASSUME NEW f \in Editors,
               \/ PublishSame(f) \/ Conflict(f) \/ Refuse(f) \/ Answered(f) \/ AnswerLost(f)
        PROVE  UNCHANGED design
    BY <1>7 DEF PublishSame, Conflict, Refuse, Answered, AnswerLost
  <1>8. ASSUME NEW f \in Editors,
               \/ \E i \in Images : StartUpload(f, i) \/ DropRow(f, i)
               \/ InsertRow(f) \/ UploadRefused(f) \/ UploadLost(f) \/ Uploaded(f)
               \/ \E place \in Places : SweepReads(f, place)
               \/ DropFile(f) \/ SweepEnds(f) \/ SweepFails(f)
        PROVE  UNCHANGED design
    BY <1>8 DEF StartUpload, DropRow, InsertRow, UploadRefused, UploadLost, Uploaded, Commits,
                SweepReads, DropFile, SweepEnds, SweepFails
  <1>9. CASE UNCHANGED vars
    BY <1>9 DEF vars
  <1>10. CASE Next
    <2>1. PICK f \in Editors : Save(f) \/ PublishNew(f) \/ UNCHANGED design
      BY <1>6, <1>7, <1>8, <1>10 DEF Next
    <2>2. QED
      BY <1>2, <1>3, <1>4, <1>5, <2>1
  <1>11. QED
    BY <1>9, <1>10

\* No tab overwrites a draft that it has not loaded or stored, and the page
\* changes to nothing but what was shown at the click (saveDesignDraft and
\* publishDesignDraft compare the revision).
THEOREM NoWorkIsOverwritten == Spec => OnlyKnownWorkIsReplaced
  <1> DEFINE Step == \A e \in Editors :
                LET acts == calls'[e] # calls[e]
                IN  /\ acts /\ draft'.design # draft.design /\ draft.revision > 0
                         => seen[e] = draft.design
                    /\ acts /\ page' # page => page'.design = Head(calls[e]).design
  <1>1. ASSUME DesignInv, [Next]_vars PROVE Step
    <2> SUFFICES ASSUME NEW e \in Editors, calls'[e] # calls[e]
                 PROVE  /\ draft'.design # draft.design /\ draft.revision > 0
                              => seen[e] = draft.design
                        /\ page' # page => page'.design = Head(calls[e]).design
      OBVIOUS
    <2>1. ASSUME draft'.design # draft.design, draft.revision > 0 PROVE seen[e] = draft.design
      <3>1. Save(e)
        BY <1>1, <2>1, WhoWrites
      <3>2. /\ calls[e] # << >> /\ Head(calls[e]).op = "save" /\ Head(calls[e]).result = "NONE"
            /\ Head(calls[e]).revision = draft.revision
        BY <3>1 DEF Save, Serves, Stale
      <3>3. /\ editor[e].revision \in Nat /\ draft.revision \in Nat
            /\ Head(calls[e]) = calls[e][1] /\ CallInv(e, 1) /\ TabInv(e)
        BY <1>1, <3>2, HeadFacts
      <3>4. draft.revision <= editor[e].revision /\ editor[e].revision <= draft.revision
        BY <3>2, <3>3 DEF CallInv, TabInv
      <3>5. editor[e].revision = draft.revision
        BY <3>3, <3>4
      <3>6. QED
        BY <2>1, <3>3, <3>5 DEF TabInv
    <2>2. ASSUME page' # page PROVE page'.design = Head(calls[e]).design
      <3>1. PublishNew(e)
        BY <1>1, <2>2, WhoWrites
      <3>2. /\ calls[e] # << >> /\ Head(calls[e]).op = "publish"
            /\ Head(calls[e]).revision = draft.revision
            /\ page' = [version |-> page.version + 1, design |-> draft.design]
        BY <3>1 DEF PublishNew, Serves, CannotPublish, Stale
      <3>3. Head(calls[e]) = calls[e][1] /\ CallInv(e, 1)
        BY <1>1, <3>2, HeadFacts
      <3>4. QED
        BY <3>2, <3>3 DEF CallInv
    <2>3. QED
      BY <2>1, <2>2
  <1>2. QED
    BY <1>1, DesignInvariance, PTL DEF Spec, OnlyKnownWorkIsReplaced

\* Only a sweep's DropRow deletes an image.
LEMMA WhoDeletes ==
  ASSUME DesignInv, [Next]_vars, NEW e \in Editors, NEW i \in Images,
         image[i].row = "LIVE", image'[i].row = "DELETED", sweep'[e] # sweep[e]
  PROVE  DropRow(e, i)
  <1>1. /\ image \in [Images -> [row : {"NONE", "LIVE", "DELETED"}, file : BOOLEAN]]
        /\ sweep \in [Editors -> Sweeps \union {None}]
    BY DEF DesignInv, TypeOK
  <1>2. image' # image /\ sweep' # sweep
    OBVIOUS
  <1>3. ASSUME NEW f \in Editors, NEW j \in Images, DropRow(f, j) PROVE f = e /\ j = i
    BY <1>1, <1>3 DEF DropRow
  <1>4. ASSUME NEW f \in Editors, DropFile(f) PROVE FALSE
    <2>1. image' = [image EXCEPT ![sweep[f].dropped].file = FALSE] \/ image' = image
      BY <1>4 DEF DropFile
    <2>2. image'[i].row = image[i].row
      BY <1>1, <2>1
    <2>3. QED
      BY <2>2
  <1>5. ASSUME NEW f \in Editors,
               \/ OpenPage(f) \/ OpenDraft(f) \/ CloseTab(f)
               \/ \E look \in Looks : ChangeLook(f, look)
               \/ RemoveImage(f) \/ Autosave(f) \/ ClickPublish(f)
        PROVE  FALSE
    BY <1>2, <1>5 DEF OpenPage, OpenDraft, CloseTab, ChangeLook, RemoveImage, Commits,
                      Autosave, ClickPublish, Calling
  <1>6. ASSUME NEW f \in Editors,
               \/ Save(f) \/ PublishSame(f) \/ PublishNew(f)
               \/ Conflict(f) \/ Refuse(f) \/ Answered(f) \/ AnswerLost(f)
        PROVE  FALSE
    BY <1>2, <1>6 DEF Save, PublishSame, PublishNew, Conflict, Refuse, Answered, AnswerLost
  <1>7. ASSUME NEW f \in Editors,
               \/ \E j \in Images : StartUpload(f, j)
               \/ InsertRow(f) \/ UploadRefused(f) \/ UploadLost(f) \/ Uploaded(f)
               \/ \E place \in Places : SweepReads(f, place)
               \/ SweepEnds(f) \/ SweepFails(f)
        PROVE  FALSE
    BY <1>2, <1>7 DEF StartUpload, InsertRow, UploadRefused, UploadLost, Uploaded, Commits,
                      SweepReads, SweepEnds, SweepFails
  <1>8. CASE UNCHANGED vars
    BY <1>2, <1>8 DEF vars
  <1>9. CASE Next
    BY <1>3, <1>4, <1>5, <1>6, <1>7, <1>9 DEF Next
  <1>10. QED
    BY <1>8, <1>9

\* A sweep deletes no image of a version kept that it began with, nor one of
\* the draft it began with (pruneUnreferencedDesignerAssets).
THEOREM KeptImagesStay == Spec => KeptImagesAreSpared
  <1> DEFINE Step == \A e \in Editors : sweep[e] # None =>
                \A i \in Images :
                    image[i].row = "LIVE" /\ image'[i].row = "DELETED"
                        /\ sweep'[e] # sweep[e] =>
                    /\ \A row \in versions :
                           row.version <= sweep[e].version => row.design.image # i
                    /\ sweep[e].revision = draft.revision => draft.design.image # i
  <1>1. ASSUME DesignInv, [Next]_vars PROVE Step
    <2> SUFFICES ASSUME NEW e \in Editors, sweep[e] # None, NEW i \in Images,
                        image[i].row = "LIVE", image'[i].row = "DELETED",
                        sweep'[e] # sweep[e]
                 PROVE  /\ \A row \in versions :
                              row.version <= sweep[e].version => row.design.image # i
                        /\ sweep[e].revision = draft.revision => draft.design.image # i
      OBVIOUS
    <2>1. DropRow(e, i)
      BY <1>1, WhoDeletes
    <2>2. i \in sweep[e].doomed /\ sweep[e].unread = {}
      BY <2>1 DEF DropRow, SweepActs
    <2>3. SweepInv(e)
      BY <1>1 DEF DesignInv
    <2>4. QED
      BY <2>2, <2>3 DEF SweepInv
  <1>2. QED
    BY <1>1, DesignInvariance, PTL DEF Spec, KeptImagesAreSpared
=============================================================================
