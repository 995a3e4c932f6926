------------------------------ MODULE ArticlePane ------------------------------
(***************************************************************************)
(* The reading pane (assets/src/js/alpine/article-pane.js) and the         *)
(* annotations the user makes in it (services/article_annotation.py): a    *)
(* piece of text is picked, a popover asks for a note, and a request       *)
(* stores it, while other articles are opened and the list is loaded.      *)
(*                                                                         *)
(* Requests are answered in any order, a list of annotations from the      *)
(* table as it is when it comes.  What is left out of an annotation        *)
(* is its place in the text, its color and its note, so that one that is   *)
(* saved twice counts once.  Every article has content.                    *)
(***************************************************************************)
EXTENDS Naturals, Sequences, FiniteSets

CONSTANTS
  Pieces,   \* articles that can be opened
  Nothing,  \* null
  MaxCalls  \* bound: lists, saves, edits and deletions that run at once

ASSUME ArticlePaneAssumption == Nothing \notin Pieces /\ MaxCalls \in Nat

VARIABLES
  chosen,  \* selectedArticleId
  active,  \* annotationActive
  picked,  \* annotationSelection: the article whose text is picked
  popover, \* annotationPopover: "none", "create" or "detail"
  opened,  \* the annotation a detail popover is about, in a set
  visible, \* annotationsVisible
  notes,   \* annotations
  stored,  \* rows of article_annotations
  ops,     \* saves, edits and deletions that have not come to their end
  reads,   \* lists of annotations on their way, in the order they were asked for
  overtaken \* history: the last list that came had been asked for before another that came

paneVars == <<chosen, active, picked, popover, opened, visible, notes, stored, ops,
              reads, overtaken>>

\* of: its article_id.  text: the article its highlight_text is from.
Notes == [of : Pieces, text : Pieces]
\* sent: the request is on its way, or its answer waits for the annotation count.
Ops   == [kind : {"save", "edit", "delete"}, note : Notes, sent : BOOLEAN]
\* passed: one that was asked for later has come.  closes: whoever awaits it, the
\* toggle or the button that deletes, then closes the popover.
Reads == [of : Pieces, closes : BOOLEAN, passed : BOOLEAN]

\* A type for every variable.
PaneTypeOK ==
  /\ chosen \in Pieces \cup {Nothing} /\ picked \in Pieces \cup {Nothing}
  /\ active \in BOOLEAN /\ visible \in BOOLEAN /\ overtaken \in BOOLEAN
  /\ popover \in {"none", "create", "detail"}
  /\ opened \in {{}} \cup {{x} : x \in Notes}
  /\ notes \subseteq Notes /\ stored \subseteq Notes /\ ops \subseteq Ops
  /\ reads \in Seq(Reads)

\* init: the last selection is taken from the local storage.
PaneInit ==
  /\ chosen \in Pieces \cup {Nothing}
  /\ active = FALSE /\ visible = FALSE /\ overtaken = FALSE
  /\ picked = Nothing /\ popover = "none" /\ opened = {} /\ notes = {}
  /\ stored \in SUBSET {[of |-> a, text |-> a] : a \in Pieces}
  /\ ops = {} /\ reads = << >>

-----------------------------------------------------------------------------
\* fetchArticleAnnotations for a, when the annotations are shown.
ReadIf(asks, a, closes) ==
  IF asks
  THEN reads' = Append(reads, [of |-> a, closes |-> closes, passed |-> FALSE])
  ELSE UNCHANGED reads

Close == popover' = "none" /\ opened' = {}

\* Mutant of Render: the content is replaced under an open popover.
RenderOnly == UNCHANGED <<popover, opened>>

\* renderArticleContent: it closes the popover, and what was picked stays picked.
Render == Close

\* selectArticle, by a click or a key.
Select(a) ==
  /\ chosen # a /\ chosen' = a
  /\ Render /\ ReadIf(visible, a, FALSE)
  /\ UNCHANGED <<active, picked, visible, notes, stored, ops, overtaken>>

\* restoreSelectedArticle, whenever the list has loaded a page.
Restore ==
  /\ chosen # Nothing
  /\ Render /\ ReadIf(visible, chosen, FALSE)
  /\ UNCHANGED <<chosen, active, picked, visible, notes, stored, ops, overtaken>>

\* toggleAnnotationVisibility, on a toolbar that is hidden while no article is
\* shown.  When it asks for the annotations, it closes the popover after they came.
ToggleVisibility ==
  /\ chosen # Nothing
  /\ visible' = ~visible
  /\ ReadIf(visible', chosen, TRUE)
  /\ IF visible' THEN UNCHANGED <<popover, opened>> ELSE Close
  /\ UNCHANGED <<chosen, active, picked, notes, stored, ops, overtaken>>

\* closeAnnotationPopover, with clearPreview.
CloseAndForget == Close /\ picked' = IF popover = "none" THEN picked ELSE Nothing

\* toggleAnnotationMode.
ToggleMode ==
  /\ chosen # Nothing
  /\ active' = ~active
  /\ IF active THEN CloseAndForget ELSE UNCHANGED <<popover, opened, picked>>
  /\ UNCHANGED <<chosen, visible, notes, stored, ops, reads, overtaken>>

\* handleReaderSelection: text of the article that is shown.
Pick ==
  /\ active /\ chosen # Nothing
  /\ picked' = chosen /\ popover' = "create" /\ opened' = {}
  /\ UNCHANGED <<chosen, active, visible, notes, stored, ops, reads, overtaken>>

\* openAnnotationDetailPopover, by a click on a highlight, which stays in the page
\* when a list of annotations failed to come.
OpenDetail(x) ==
  /\ visible /\ x \in notes \cup stored
  /\ popover' = "detail" /\ opened' = {x}
  /\ UNCHANGED <<chosen, active, picked, visible, notes, stored, ops, reads, overtaken>>

\* Cancel, Escape or a press outside: only the popover of a new annotation forgets.
Dismiss ==
  /\ popover # "none"
  /\ IF popover = "create" THEN CloseAndForget ELSE Close /\ UNCHANGED picked
  /\ UNCHANGED <<chosen, active, visible, notes, stored, ops, reads, overtaken>>

-----------------------------------------------------------------------------
Send(kind, x) ==
  /\ ops' = ops \cup {[kind |-> kind, note |-> x, sent |-> TRUE]}
  /\ UNCHANGED <<chosen, active, picked, popover, opened, visible, notes, stored,
                 reads, overtaken>>

\* saveAnnotation: the popover stays open until the answer, nothing keeps the
\* button from being pressed again.
Save ==
  /\ popover = "create" /\ picked # Nothing /\ chosen # Nothing
  /\ Send("save", [of |-> chosen, text |-> picked])

\* deleteAnnotation and updateAnnotation, by the buttons of a detail popover.
Alter(kind) == \E x \in opened : popover = "detail" /\ Send(kind, x)

Came(o, kind) == o.sent /\ o.kind = kind
Ended(o)      == ops' = ops \ {o}
\* Bound: the count that a like operation waits for is not asked for twice.
Counting(o) ==
  /\ [o EXCEPT !.sent = FALSE] \notin ops
  /\ ops' = (ops \ {o}) \cup {[o EXCEPT !.sent = FALSE]}

\* add_article_annotation has committed the row.  The annotation is pushed to the
\* list of whatever article is shown by now.
Saved(o) ==
  /\ Came(o, "save") /\ Counting(o)
  /\ stored' = stored \cup {o.note} /\ notes' = notes \cup {o.note}
  /\ visible' = TRUE /\ picked' = Nothing /\ Close
  /\ UNCHANGED <<chosen, active, reads, overtaken>>

\* delete_article_annotation has deleted the row.
Deleted(o) ==
  /\ Came(o, "delete") /\ o.note \in stored /\ Counting(o)
  /\ stored' = stored \ {o.note} /\ notes' = notes \ {o.note}
  /\ Render
  /\ UNCHANGED <<chosen, active, picked, visible, reads, overtaken>>

\* update_article_annotation has written the note.
Edited(o) ==
  /\ Came(o, "edit") /\ o.note \in stored /\ Ended(o)
  /\ Render
  /\ UNCHANGED <<chosen, active, picked, visible, notes, stored, reads, overtaken>>

\* An error, from before the commit or after it.  The button that deletes closes
\* the popover whatever became of it.
Failed(o) ==
  /\ o.sent /\ Ended(o)
  /\ stored' \in {stored, CASE o.kind = "save"   -> stored \cup {o.note}
                            [] o.kind = "delete" -> stored \ {o.note}
                            [] o.kind = "edit"   -> stored}
  /\ IF o.kind = "delete" THEN Close ELSE UNCHANGED <<popover, opened>>
  /\ UNCHANGED <<chosen, active, picked, visible, notes, reads, overtaken>>

\* Mutant of Recounted: the list is not read again.
RecountedOnly(o) ==
  /\ ~o.sent /\ Ended(o)
  /\ UNCHANGED <<chosen, active, picked, popover, opened, visible, notes, stored, reads, overtaken>>

\* fetchArticleAnnotationCount has come to its end, and the annotations of the
\* article that is shown by now are read; then the button that deletes closes the
\* popover, whichever it is by then.
Recounted(o) ==
  /\ ~o.sent /\ Ended(o)
  /\ ReadIf(visible, chosen, o.kind = "delete")
  /\ IF o.kind = "delete" /\ ~visible THEN Close ELSE UNCHANGED <<popover, opened>>
  /\ UNCHANGED <<chosen, active, picked, visible, notes, stored, overtaken>>

\* The i-th of the lists comes, or an error, which empties it.  Its size is the count
\* that the toolbar showed of any article, so that it may be cut.
ReadEnds(i) ==
  /\ notes' \in SUBSET {x \in stored : x.of = reads[i].of}
  /\ reads' = [j \in 1..(Len(reads) - 1) |->
                IF j < i THEN [reads[j] EXCEPT !.passed = TRUE] ELSE reads[j + 1]]
  /\ overtaken' = reads[i].passed
  /\ IF reads[i].closes THEN Close ELSE UNCHANGED <<popover, opened>>
  /\ UNCHANGED <<chosen, active, picked, visible, stored, ops>>

PaneStep ==
  \/ \E a \in Pieces : Select(a)
  \/ Restore \/ ToggleVisibility \/ ToggleMode \/ Pick \/ Dismiss
  \/ \E x \in Notes : OpenDetail(x)
  \/ Save \/ Alter("edit") \/ Alter("delete")
  \/ \E o \in ops : Saved(o) \/ Deleted(o) \/ Edited(o) \/ Failed(o) \/ Recounted(o)
  \/ \E i \in DOMAIN reads : ReadEnds(i)
PaneNext == PaneStep /\ Len(reads') + Cardinality(ops') <= MaxCalls

PaneSpec == PaneInit /\ [][PaneNext]_paneVars

-----------------------------------------------------------------------------
\* An annotation is stored with the article whose text was picked, whatever article
\* is opened, by click or key, between the picking, the popover and the request.
NoteOnItsText == \A x \in stored : x.of = x.text

\* Once all answers have come, the pane that shows annotations has those of the
\* article it shows, although answers are taken without a look at the selection -
\* unless a list overtook one that was asked for later.
QuietPaneIsOwn ==
  visible /\ reads = << >> /\ (\A o \in ops : o.sent) /\ ~overtaken => \A x \in notes : x.of = chosen
=============================================================================
