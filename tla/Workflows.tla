------------------------------- MODULE Workflows -------------------------------
(***************************************************************************)
(* Slack workflows: what a channel lists, what of it can be run, and the   *)
(* definition a form is filled by (workflows.go, workflows_schema.go,      *)
(* cli/workflow.go).  What Slack answers is an argument; SocketAnswer has  *)
(* the run itself, Forms the state it submits, ResolutionCache the caches. *)
(***************************************************************************)
EXTENDS Forms, FiniteSets

CONSTANT TriggerOfLink  \* [links -> triggers], None for what is no shortcut link

(* A bookmark: its id, its link and its shortcut id, each None if absent.   *)
Bookmark(id, link, shortcut) == [id |-> id, link |-> link, shortcut |-> shortcut]

(* bookmarkTrigger.                                                         *)
BookmarkTrigger(b) == IF b.shortcut # None THEN b.shortcut ELSE TriggerOfLink[b.link]

Workflow(trigger, link, featured) == [trigger |-> trigger, link |-> link, featured |-> featured]

(* listBookmarkedWorkflows, before the featured flag.                       *)
ListBookmarked(bookmarks) ==
  LET shortcuts == SelectSeq(bookmarks, LAMBDA b : BookmarkTrigger(b) # None)
  IN [n \in DOMAIN shortcuts |-> Workflow(BookmarkTrigger(shortcuts[n]), shortcuts[n].link, FALSE)]

(* listFeaturedWorkflows: the entry of the channel, or nothing when the     *)
(* call fails.  An entry is [channel, triggers].                            *)
ListFeatured(entries, channel) ==
  LET own == SelectSeq(entries, LAMBDA e : e.channel = channel)
  IN IF own = <<>> THEN <<>> ELSE SelectSeq(own[1].triggers, LAMBDA t : t # None)

(* ListChannelWorkflows: bookmarks first, then what is only featured.       *)
ListChannelWorkflows(bookmarks, entries, channel) ==
  LET own == ListBookmarked(bookmarks)
      featured == ListFeatured(entries, channel)
      seen == {own[n].trigger : n \in DOMAIN own}
      extra == SelectSeq(featured, LAMBDA t : t \notin seen)
  IN [n \in DOMAIN own |-> [own[n] EXCEPT !.featured = own[n].trigger \in ToSet(featured)]]
       \o [n \in DOMAIN extra |-> Workflow(extra[n], None, TRUE)]

(* annotateStaleTriggers: the rejected ones of one preview of them all;     *)
(* nothing when that call fails.                                            *)
StaleOf(listed, rejected, previewed) ==
  IF previewed THEN {n \in DOMAIN listed : listed[n].trigger \in rejected} ELSE {}

(* ResolveShortcut: the first bookmark with that trigger that has a link    *)
(* and an id.                                                               *)
ResolveShortcut(bookmarks, trigger) ==
  LET usable == SelectSeq(bookmarks, LAMBDA b :
        BookmarkTrigger(b) = trigger /\ trigger # None /\ b.link # None /\ b.id # None)
  IN IF usable = <<>> THEN Refusal ELSE usable[1]

(* PreviewWorkflowTrigger: the workflow of a trigger; what Slack rejects is *)
(* for the agent to fix when the trigger does not exist, else for a human.  *)
RejectedTriggerError(code) ==
  IF code \in {"trigger_not_found", "trigger_does_not_exist", "not_found"} THEN "agent" ELSE "human"

PreviewWorkflowTrigger(trigger, workflowOf, rejected) ==
  IF trigger \in DOMAIN workflowOf THEN workflowOf[trigger]
  ELSE IF trigger \in DOMAIN rejected THEN RejectedTriggerError(rejected[trigger]) ELSE "agent"

(* assembleWorkflowSchema, extractFormFields: a step is the fields of its   *)
(* form, empty for one that opens none; a field's required flag is that of  *)
(* its name.                                                                *)
Step(elements, required) == [elements |-> elements, required |-> required]

ExtractFormFields(step) ==
  [n \in DOMAIN step.elements |->
    Field(step.elements[n].name, step.elements[n].title, step.elements[n].name \in step.required)]

WorkflowSchema(steps) == FlattenSeq([n \in DOMAIN steps |-> ExtractFormFields(steps[n])])

(* parseFieldArgs: pairs <<title, value>>; the last of a title counts.      *)
ParseFieldArgs(args) ==
  LET titles == {args[n][1] : n \in DOMAIN args}
      LastOf(title) == CHOOSE n \in DOMAIN args :
                       args[n][1] = title /\ \A k \in DOMAIN args : args[k][1] = title => k <= n
  IN [title \in titles |-> args[LastOf(title)][2]]

(* submitForm up to the run, then the state of the form that opens: that of *)
(* the first step that has one.                                             *)
SubmitForm(bookmarks, trigger, steps, view, args) ==
  LET schema == WorkflowSchema(steps)
      fields == ParseFieldArgs(args)
  IN IF ~ValidateWorkflowFields(fields, schema) THEN Refusal
     ELSE IF ResolveShortcut(bookmarks, trigger) = Refusal THEN Refusal
     ELSE BuildFormState(view, schema, fields)

-----------------------------------------------------------------------------
(* Run and list read a bookmark alike: what can be run is listed, and what  *)
(* is listed from a bookmark that has a link and an id can be run, by the   *)
(* first such bookmark of its trigger; no trigger that is bookmarked is     *)
(* listed again for being featured (bookmarkTrigger, ResolveShortcut).      *)
ListAndRunAgree(bookmarks, entries, channel) ==
  LET listed == ListChannelWorkflows(bookmarks, entries, channel)
      triggers == {BookmarkTrigger(bookmarks[n]) : n \in DOMAIN bookmarks} \ {None}
      Of(trigger) == {n \in DOMAIN listed : listed[n].trigger = trigger}
  IN /\ \A trigger \in triggers :
          /\ Of(trigger) # {}
          /\ ResolveShortcut(bookmarks, trigger) # Refusal =>
               \E n \in Of(trigger) : listed[n].link = ResolveShortcut(bookmarks, trigger).link
          /\ Cardinality(Of(trigger)) =
               Cardinality({n \in DOMAIN bookmarks : BookmarkTrigger(bookmarks[n]) = trigger})
     /\ \A n \in DOMAIN bookmarks :
          LET b == bookmarks[n]
          IN b.link # None /\ b.id # None /\ BookmarkTrigger(b) # None
               => ResolveShortcut(bookmarks, BookmarkTrigger(b)) # Refusal

(* "list and run must agree on it, or a bookmark could be listed but not    *)
(* runnable" (bookmarkTrigger).                                             *)
ListedIsRunnable(bookmarks) ==
  \A n \in DOMAIN ListBookmarked(bookmarks) :
    ResolveShortcut(bookmarks, ListBookmarked(bookmarks)[n].trigger) # Refusal
=============================================================================
